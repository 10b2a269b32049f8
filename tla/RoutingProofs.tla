--------------------------- MODULE RoutingProofs ---------------------------
(***************************************************************************)
(* Proofs about the routing of a gateway: its breaker, for any finite set  *)
(* of callers, any threshold and any number of probes; the hot replacement *)
(* of its channels (R is Router) and the policies they pass (A is          *)
(* ChannelAdmin), for any channels, handlers, requests and configurations; *)
(* the order in which they are offered (S is Selection), for any weights;  *)
(* and module Routing as a whole.                                          *)
(***************************************************************************)
EXTENDS Routing, FiniteSetTheorems, SequenceTheorems, TLAPS

(* The breaker.                                                            *)

\* That an open breaker listens to nobody and a half-open one counts its probes rests on
\* generations that only grow, which NoPermitFromTheFuture says.
BreakerInv == TypeOK /\ NoPermitFromTheFuture /\ ProbeAccounting

USE ThresholdAssumption, ProbesAssumption

-----------------------------------------------------------------------------
(* The transitions.                                                        *)

\* A breaker stays one when its fields are set to values of their types, in the
\* combinations the transitions use.
LEMMA WithFields ==
  ASSUME NEW b \in BreakerType, NEW s \in States, NEW f \in Nat, NEW c \in BOOLEAN, NEW p \in Nat,
         NEW g \in Nat
  PROVE  /\ [b EXCEPT !.fails = f] \in BreakerType
         /\ [b EXCEPT !.probes = p] \in BreakerType
         /\ [b EXCEPT !.state = s, !.probes = p, !.generation = g] \in BreakerType
         /\ [b EXCEPT !.state = s, !.fails = f, !.probes = p, !.generation = g] \in BreakerType
         /\ [b EXCEPT !.state = s, !.cooled = c, !.probes = p, !.generation = g] \in BreakerType
<1>1. [b EXCEPT !.fails = f] \in BreakerType /\ [b EXCEPT !.probes = p] \in BreakerType
  BY DEF BreakerType
<1>2. [b EXCEPT !.state = s, !.probes = p, !.generation = g] \in BreakerType
  BY DEF BreakerType
<1>3. [b EXCEPT !.state = s, !.fails = f, !.probes = p, !.generation = g] \in BreakerType
  BY DEF BreakerType
<1>4. [b EXCEPT !.state = s, !.cooled = c, !.probes = p, !.generation = g] \in BreakerType
  BY DEF BreakerType
<1>5. QED
  BY <1>1, <1>2, <1>3, <1>4

\* The transitions keep the type of a breaker.
LEMMA TransitionsType ==
  ASSUME NEW b \in BreakerType
  PROVE  /\ Admitted(b) \in BreakerType
         /\ \A g \in Nat, result \in Results : Recorded(b, g, result) \in BreakerType
<1>1. /\ b.generation + 1 \in Nat /\ b.probes + 1 \in Nat /\ b.fails + 1 \in Nat
      /\ (b.probes > 0 => b.probes - 1 \in Nat)
      /\ b.state \in States
  BY DEF BreakerType
<1>2. Admitted(b) \in BreakerType
  <2>1. CASE b.state = "closed"
    BY <2>1 DEF Admitted
  <2>2. CASE b.state = "open"
    BY <1>1, <2>2, WithFields DEF States, Admitted
  <2>3. CASE b.state = "half_open"
    BY <1>1, <2>3, WithFields DEF Admitted
  <2>4. QED
    BY <1>1, <2>1, <2>2, <2>3 DEF States
<1>3. Succeeded(b) \in BreakerType
  BY <1>1, WithFields DEF States, Succeeded
<1>4. Trip(b) \in BreakerType
  BY <1>1, WithFields DEF States, Trip
<1>5. Failed(b) \in BreakerType
  <2>. DEFINE counted == [b EXCEPT !.fails = b.fails + 1]
  <2>1. counted \in BreakerType /\ counted.generation + 1 \in Nat
    BY <1>1, WithFields DEF BreakerType
  <2>2. Trip(counted) \in BreakerType
    BY <2>1, WithFields DEF States, Trip
  <2>3. CASE b.state = "closed" /\ b.fails + 1 < FailureThreshold
    BY <1>1, <2>1, <2>3 DEF Failed
  <2>4. CASE b.state = "closed" /\ b.fails + 1 >= FailureThreshold
    <3>1. Failed(b) = Trip(counted)
      BY <1>1, <2>4 DEF Failed
    <3>2. QED
      BY <2>2, <3>1
  <2>5. CASE b.state # "closed"
    BY <1>1, <1>4, <2>5 DEF States, Failed
  <2>6. QED
    BY <1>1, <2>3, <2>4, <2>5
<1>6. Ended(b) \in BreakerType
  BY <1>1, WithFields DEF Ended
<1>7. QED
  BY <1>2, <1>3, <1>5, <1>6 DEF Results, Recorded

-----------------------------------------------------------------------------
(* Who is listened to after a step.                                        *)

\* The permits that count are those of callers, finitely many.
LEMMA LiveFinite == IsFiniteSet(Live) /\ Live \subseteq Callers
<1>1. Live \subseteq Callers
  BY DEF Live
<1>2. QED
  BY <1>1, CallersAssumption, FS_Subset

\* Allow lets one more caller in; the first probe of an open breaker is alone.
LEMMA AllowLive ==
  ASSUME BreakerInv, NEW c \in Callers, Allow(c)
  PROVE  /\ c \notin Live
         /\ Live' = IF breaker.state = "open" THEN {c} ELSE Live \cup {c}
<1>1. c \notin Live
  BY DEF Allow, Live
<1>2. /\ breaker'.generation = IF breaker.state = "open" THEN breaker.generation + 1 ELSE breaker.generation
      /\ breaker.generation \in Nat
  BY DEF BreakerInv, TypeOK, BreakerType, States, Allow, Admitted
<1>3. permit'[c] = [generation |-> breaker'.generation, resolved |-> FALSE]
  BY DEF BreakerInv, TypeOK, Allow
<1>4. ASSUME NEW d \in Callers, d # c
      PROVE  /\ permit'[d] = permit[d] /\ permit[d].generation \in Nat
             /\ permit[d].generation <= breaker.generation
  BY <1>4 DEF BreakerInv, TypeOK, Permit, NoPermitFromTheFuture, Allow
<1>5. CASE breaker.state = "open"
  BY <1>1, <1>2, <1>3, <1>4, <1>5 DEF Live
<1>6. CASE breaker.state # "open"
  BY <1>1, <1>2, <1>3, <1>4, <1>6 DEF Live
<1>7. QED
  BY <1>1, <1>5, <1>6

\* A report: a permit that does not count says nothing; one that does is spent, and takes
\* all others with it if the state changes.
LEMMA ResolveLive ==
  ASSUME BreakerInv, NEW c \in Callers, NEW result \in Results, Resolve(c, result)
  PROVE  /\ c \notin Live => breaker' = breaker /\ Live' = Live
         /\ c \in Live => /\ breaker' = Recorded(breaker, breaker.generation, result)
                          /\ Live' = IF breaker'.state = breaker.state THEN Live \ {c} ELSE {}
<1>1. /\ \A d \in Callers : d # c => permit'[d] = permit[d]
      /\ permit'[c].resolved /\ permit'[c].generation = permit[c].generation
  BY DEF BreakerInv, TypeOK, Permit, Resolve
<1>2. CASE permit[c].resolved
  BY <1>1, <1>2 DEF Resolve, Live
<1>3. CASE ~permit[c].resolved /\ permit[c].generation # breaker.generation
  <2>1. breaker' = breaker
    BY <1>3 DEF Resolve, Recorded
  <2>2. QED
    BY <1>1, <1>3, <2>1 DEF Live
<1>4. CASE ~permit[c].resolved /\ permit[c].generation = breaker.generation
  <2>1. c \in Live /\ breaker' = Recorded(breaker, breaker.generation, result)
    BY <1>4 DEF Resolve, Live
  <2>2. breaker'.generation = IF breaker'.state = breaker.state THEN breaker.generation
                              ELSE breaker.generation + 1
    BY <2>1 DEF BreakerInv, TypeOK, BreakerType, States, Results, Recorded, Succeeded, Failed, Ended, Trip
  <2>3. breaker.generation \in Nat
    BY DEF BreakerInv, TypeOK, BreakerType
  <2>4. \A d \in Callers : permit[d].generation \in Nat /\ permit[d].generation <= breaker.generation
    BY DEF BreakerInv, TypeOK, Permit, NoPermitFromTheFuture
  <2>5. Live' = IF breaker'.state = breaker.state THEN Live \ {c} ELSE {}
    <3>1. CASE breaker'.state = breaker.state
      BY <1>1, <2>2, <3>1 DEF Live
    <3>2. CASE breaker'.state # breaker.state
      <4>1. \A d \in Callers : permit'[d].generation # breaker'.generation
        BY <1>1, <2>2, <2>3, <2>4, <3>2
      <4>2. QED
        BY <3>2, <4>1 DEF Live
    <3>3. QED
      BY <3>1, <3>2
  <2>6. QED
    BY <2>1, <2>5
<1>5. QED
  BY <1>2, <1>3, <1>4

-----------------------------------------------------------------------------
(* The invariant.                                                          *)

LEMMA InitBreakerInv == Init => BreakerInv
<1>1. Init => Live = {}
  BY DEF Init, Initial, Live
<1>2. QED
  BY <1>1 DEF Init, Initial, NewBreaker, BreakerInv, TypeOK, BreakerType, States, Permit,
              NoPermitFromTheFuture, ProbeAccounting

LEMMA NextBreakerInv == BreakerInv /\ [Next]_vars => BreakerInv'
<1>. SUFFICES ASSUME BreakerInv, [Next]_vars
              PROVE  BreakerInv'
  OBVIOUS
<1>1. ASSUME NEW c \in Callers, Allow(c)
      PROVE  BreakerInv'
  <2>1. breaker' \in BreakerType /\ permit' \in [Callers -> Permit]
    <3>1. breaker' \in BreakerType
      BY <1>1, TransitionsType DEF BreakerInv, TypeOK, Allow
    <3>2. QED
      BY <1>1, <3>1 DEF BreakerInv, TypeOK, BreakerType, Permit, Allow
  <2>2. \A d \in Callers : permit'[d].generation <= breaker'.generation
    BY <1>1, <2>1 DEF BreakerInv, TypeOK, BreakerType, States, Permit, NoPermitFromTheFuture, Allow, Admitted
  <2>3. /\ c \notin Live
        /\ Live' = IF breaker.state = "open" THEN {c} ELSE Live \cup {c}
    BY <1>1, AllowLive
  <2>4. ProbeAccounting'
    <3>1. CASE breaker.state = "closed"
      BY <1>1, <3>1 DEF BreakerInv, ProbeAccounting, Allow, Admitted
    <3>2. CASE breaker.state = "open"
      <4>1. Cardinality({c}) = 1
        BY FS_Singleton
      <4>2. breaker'.state = "half_open" /\ breaker'.probes = 1
        BY <1>1, <3>2 DEF BreakerInv, TypeOK, BreakerType, Allow, Admitted
      <4>3. QED
        BY <2>3, <3>2, <4>1, <4>2 DEF ProbeAccounting
    <3>3. CASE breaker.state = "half_open"
      <4>1. Cardinality(Live \cup {c}) = Cardinality(Live) + 1
        BY <2>3, LiveFinite, FS_AddElement
      <4>2. breaker'.state = "half_open" /\ breaker'.probes = breaker.probes + 1
        BY <1>1, <3>3 DEF BreakerInv, TypeOK, BreakerType, Allow, Admitted
      <4>3. breaker.probes \in Nat /\ breaker.probes < HalfOpenMaxProbes /\ breaker.probes = Cardinality(Live)
        BY <1>1, <3>3 DEF BreakerInv, TypeOK, BreakerType, ProbeAccounting, Allow, Ready
      <4>4. QED
        BY <2>3, <3>3, <4>1, <4>2, <4>3 DEF ProbeAccounting
    <3>4. QED
      BY <3>1, <3>2, <3>3 DEF BreakerInv, TypeOK, BreakerType, States
  <2>5. QED
    BY <2>1, <2>2, <2>4 DEF BreakerInv, TypeOK, NoPermitFromTheFuture
<1>2. ASSUME NEW c \in Callers, NEW result \in Results, Resolve(c, result)
      PROVE  BreakerInv'
  <2>1. /\ c \notin Live => breaker' = breaker /\ Live' = Live
        /\ c \in Live => /\ breaker' = Recorded(breaker, breaker.generation, result)
                         /\ Live' = IF breaker'.state = breaker.state THEN Live \ {c} ELSE {}
    BY <1>2, ResolveLive
  <2>2. breaker' \in BreakerType /\ breaker.generation <= breaker'.generation
    <3>1. CASE c \notin Live
      BY <2>1, <3>1 DEF BreakerInv, TypeOK, BreakerType
    <3>2. CASE c \in Live
      <4>1. breaker' = Recorded(breaker, breaker.generation, result) /\ breaker \in BreakerType
        BY <2>1, <3>2 DEF BreakerInv, TypeOK
      <4>2. breaker' \in BreakerType
        BY <4>1, TransitionsType DEF BreakerType
      <4>3. breaker'.generation \in {breaker.generation, breaker.generation + 1}
        BY <4>1 DEF BreakerType, States, Results, Recorded, Succeeded, Failed, Ended, Trip
      <4>4. QED
        BY <4>1, <4>2, <4>3 DEF BreakerType
    <3>3. QED
      BY <3>1, <3>2
  <2>3. /\ permit' \in [Callers -> Permit]
        /\ \A d \in Callers : permit'[d].generation = permit[d].generation
    BY <1>2 DEF BreakerInv, TypeOK, Permit, Resolve
  <2>4. \A d \in Callers : permit'[d].generation <= breaker'.generation
    BY <2>2, <2>3 DEF BreakerInv, TypeOK, BreakerType, Permit, NoPermitFromTheFuture
  <2>5. ProbeAccounting'
    <3>1. CASE c \notin Live
      BY <2>1, <3>1 DEF BreakerInv, ProbeAccounting
    <3>2. CASE c \in Live /\ breaker.state = "closed"
      <4>1. breaker \in BreakerType /\ breaker.probes = 0
        BY <3>2 DEF BreakerInv, TypeOK, ProbeAccounting
      <4>2. breaker'.state \in {"closed", "open"} /\ breaker'.probes = 0
        <5>1. CASE result = "success"
          BY <2>1, <3>2, <4>1, <5>1 DEF BreakerType, Recorded, Succeeded
        <5>2. CASE result = "failure"
          <6>1. breaker' = Failed(breaker) /\ breaker.fails + 1 \in Nat
            BY <2>1, <3>2, <4>1, <5>2 DEF BreakerType, Recorded
          <6>2. QED
            BY <3>2, <4>1, <6>1 DEF BreakerType, Failed, Trip
        <5>3. CASE result = "neutral"
          BY <2>1, <3>2, <4>1, <5>3 DEF Recorded, Ended
        <5>4. QED
          BY <5>1, <5>2, <5>3 DEF Results
      <4>3. QED
        BY <2>1, <3>2, <4>2 DEF ProbeAccounting
    <3>3. CASE c \in Live /\ breaker.state = "half_open" /\ result # "neutral"
      BY <2>1, <3>3 DEF BreakerInv, TypeOK, BreakerType, ProbeAccounting, Results, Recorded, Succeeded,
                        Failed, Ended, Trip
    <3>4. CASE c \in Live /\ breaker.state = "half_open" /\ result = "neutral"
      <4>1. Cardinality(Live \ {c}) = Cardinality(Live) - 1 /\ Cardinality(Live) \in Nat
        BY <3>4, LiveFinite, FS_RemoveElement, FS_CardinalityType
      <4>2. Cardinality(Live \ {c}) \in Nat
        BY LiveFinite, FS_RemoveElement, FS_CardinalityType
      <4>3. breaker.probes = Cardinality(Live) /\ breaker.probes > 0
        BY <3>4, <4>1, <4>2 DEF BreakerInv, ProbeAccounting
      <4>4. breaker'.state = "half_open" /\ breaker'.probes = breaker.probes - 1
        BY <2>1, <3>4, <4>3 DEF BreakerInv, TypeOK, BreakerType, Recorded, Ended
      <4>5. breaker.probes <= HalfOpenMaxProbes
        BY <3>4 DEF BreakerInv, ProbeAccounting
      <4>6. Live' = Live \ {c}
        BY <2>1, <3>4, <4>4
      <4>7. breaker'.probes = Cardinality(Live') /\ breaker'.probes <= HalfOpenMaxProbes
        BY <4>1, <4>3, <4>4, <4>5, <4>6
      <4>8. QED
        BY <4>4, <4>7 DEF ProbeAccounting
    <3>5. QED
      BY <3>1, <3>2, <3>3, <3>4 DEF BreakerInv, TypeOK, BreakerType, States, ProbeAccounting
  <2>6. QED
    BY <2>2, <2>3, <2>4, <2>5 DEF BreakerInv, TypeOK, NoPermitFromTheFuture
<1>3. CASE Cool
  <2>1. Live' = Live
    BY <1>3 DEF BreakerInv, TypeOK, BreakerType, Cool, Cooled, Live
  <2>2. QED
    BY <1>3, <2>1 DEF BreakerInv, TypeOK, BreakerType, NoPermitFromTheFuture, ProbeAccounting, Cool, Cooled
<1>4. CASE UNCHANGED vars
  BY <1>4 DEF vars, BreakerInv, TypeOK, NoPermitFromTheFuture, ProbeAccounting, Live
<1>5. QED
  BY <1>1, <1>2, <1>3, <1>4 DEF Next

\* The breaker counts exactly the probes that are running, never more than it may, listens
\* to nobody while open, and no permit is ahead of it (Allow, record and trip of
\* breaker.go, and the sync.Once of a permit).
THEOREM BreakerCountsProbes == Spec => []ProbeAccounting /\ []NoPermitFromTheFuture /\ []TypeOK
<1>1. Spec => []BreakerInv
  BY InitBreakerInv, NextBreakerInv, PTL DEF Spec
<1>2. BreakerInv => ProbeAccounting /\ NoPermitFromTheFuture /\ TypeOK
  BY DEF BreakerInv
<1>3. QED
  BY <1>1, <1>2, PTL

-----------------------------------------------------------------------------
(* The refinement.                                                         *)

LEMMA InitCircuit == Init => C!CInit
BY DEF Init, Initial, NewBreaker, Live, C!CInit

\* Every step of the breaker is one of the circuit, or is not seen there.
LEMMA NextCircuit == BreakerInv /\ [Next]_vars => [C!CNext]_C!cvars
<1>. SUFFICES ASSUME BreakerInv, [Next]_vars
              PROVE  C!CNext \/ (breaker'.state = breaker.state /\ Live' = Live)
  BY DEF C!cvars
<1>1. ASSUME NEW c \in Callers, Allow(c)
      PROVE  C!Admit(c)
  <2>1. Live' = IF breaker.state = "open" THEN {c} ELSE Live \cup {c}
    BY <1>1, AllowLive
  <2>2. breaker'.state = IF breaker.state = "open" THEN "half_open" ELSE breaker.state
    BY <1>1 DEF BreakerInv, TypeOK, BreakerType, States, Allow, Admitted
  <2>3. breaker.state = "half_open" => Cardinality(Live) < HalfOpenMaxProbes
    BY <1>1 DEF BreakerInv, ProbeAccounting, Allow, Ready
  <2>4. CASE breaker.state = "closed"
    BY <2>1, <2>2, <2>4 DEF C!Admit
  <2>5. CASE breaker.state = "open"
    BY <2>1, <2>2, <2>5 DEF C!Admit
  <2>6. CASE breaker.state = "half_open"
    <3>1. C!Cardinality(Live) = Cardinality(Live)
      BY DEF C!Cardinality, Cardinality
    <3>2. QED
      BY <2>1, <2>2, <2>3, <2>6, <3>1 DEF C!Admit
  <2>7. QED
    BY <2>4, <2>5, <2>6 DEF BreakerInv, TypeOK, BreakerType, States
<1>2. ASSUME NEW c \in Callers, NEW result \in Results, Resolve(c, result), c \in Live
      PROVE  C!Report(c)
  <2>1. /\ breaker' = Recorded(breaker, breaker.generation, result)
        /\ Live' = IF breaker'.state = breaker.state THEN Live \ {c} ELSE {}
    BY <1>2, ResolveLive
  <2>2. \/ breaker'.state = breaker.state
        \/ breaker.state = "closed" /\ breaker'.state = "open"
        \/ breaker.state = "half_open" /\ breaker'.state \in {"closed", "open"}
    BY <2>1 DEF BreakerInv, TypeOK, BreakerType, States, Results, Recorded, Succeeded, Failed, Ended, Trip
  <2>3. QED
    BY <1>2, <2>1, <2>2 DEF C!Report
<1>3. ASSUME NEW c \in Callers, NEW result \in Results, Resolve(c, result), c \notin Live
      PROVE  breaker'.state = breaker.state /\ Live' = Live
  BY <1>3, ResolveLive
<1>4. CASE Cool
  BY <1>4 DEF BreakerInv, TypeOK, BreakerType, Cool, Cooled, Live
<1>5. CASE UNCHANGED vars
  BY <1>5 DEF vars, Live
<1>6. QED
  BY <1>1, <1>2, <1>3, <1>4, <1>5 DEF Next, C!CNext

\* Comparing generations does what the promise says: every change of state revokes all
\* permits, and only a valid permit changes the state.
THEOREM BreakerImplementsCircuit == Spec => ImplementsCircuit
<1>1. Spec => []BreakerInv
  BY InitBreakerInv, NextBreakerInv, PTL DEF Spec
<1>2. QED
  BY <1>1, InitCircuit, NextCircuit, PTL DEF Spec, ImplementsCircuit, C!CSpec

-----------------------------------------------------------------------------
(* The router.                                                             *)

\* A table of the channels' rows.
Tables == [Channels -> R!Rows]

\* What a reload carries is a table.
SoundReload(s) ==
  /\ "at" \in DOMAIN s
  /\ s.at \in {"store", "sync"} => "list" \in DOMAIN s /\ s.list \in Tables

\* What a request's Select has: channels it matched, or breakers of channels that were made,
\* each the one in the map unless its channel was left out of a list once.
SoundSelect(s) ==
  /\ s.at = "loaded" => s.matched \subseteq Channels
  /\ s.at = "selected" =>
       /\ s.candidates # {} /\ s.candidates \subseteq Channels \X (Nat \ {0})
       /\ \A b \in s.candidates : drops[b[1]] = 0 => breakers[b[1]] = b[2]

\* The inductive invariant of the router.
RouterInv ==
  /\ rows \in Tables /\ snapshot \in Tables
  /\ DOMAIN reload = R!Reloaders /\ \A p \in R!Reloaders : SoundReload(reload[p])
  /\ made \in [Channels -> Nat] /\ drops \in [Channels -> Nat]
  /\ DOMAIN breakers = Channels /\ \A c \in Channels : breakers[c] \in 0 .. made[c]
  /\ R!BreakerSurvives
  /\ DOMAIN request = Requests /\ \A r \in Requests : SoundSelect(request[r])

\* A request without candidates of its own has none that are stale.
LEMMA IdleSelects == SoundSelect(R!Idle) /\ SoundReload(R!Idle)
BY DEF SoundSelect, SoundReload, R!Idle

\* A step of a reload, or of the administration, that leaves breakers and requests alone.
LEMMA ReloadMoves ==
  ASSUME RouterInv, NEW p \in R!Reloaders, NEW state, R!Reloads(p, state), SoundReload(state),
         rows' \in Tables, snapshot' \in Tables, UNCHANGED <<made, drops, breakers, request>>
  PROVE  RouterInv'
<1>1. DOMAIN reload' = R!Reloaders /\ \A q \in R!Reloaders : SoundReload(reload'[q])
  BY DEF RouterInv, R!Reloads
<1>2. \A s : SoundReload(s) = SoundReload(s)'
  BY DEF SoundReload
<1>3. QED
  BY <1>1 DEF RouterInv, SoundSelect, SoundReload, R!BreakerSurvives

\* The administration and the first half of a reload.
LEMMA TablesKeep ==
  ASSUME RouterInv, NEW p \in R!Reloaders,
         \/ \E c \in Channels, row \in R!Rows : R!Write(p, c, row)
         \/ p = Timer /\ R!Tick
         \/ R!ListChannels(p) \/ R!ReloadFails(p) \/ R!StoreSnapshot(p)
  PROVE  RouterInv'
<1>1. SoundReload([at |-> "list"]) /\ (\A list \in Tables : SoundReload([at |-> "store", list |-> list]))
      /\ SoundReload(R!Idle)
  BY IdleSelects DEF SoundReload
<1>2. rows \in Tables /\ snapshot \in Tables
  BY DEF RouterInv
<1>3. ASSUME NEW c \in Channels, NEW row \in R!Rows, R!Write(p, c, row) PROVE RouterInv'
  <2>1. rows' \in Tables /\ R!Reloads(p, [at |-> "list"]) /\ UNCHANGED <<snapshot, made, drops, breakers, request>>
    BY <1>2, <1>3 DEF Tables, R!Write, R!Routing
  <2>2. QED
    BY <1>1, <1>2, <2>1, ReloadMoves
<1>4. CASE p = Timer /\ R!Tick
  BY <1>1, <1>2, <1>4, ReloadMoves DEF R!Tick, R!Routing
<1>5. CASE R!ListChannels(p)
  BY <1>1, <1>2, <1>5, ReloadMoves DEF R!ListChannels, R!Routing
<1>6. CASE R!ReloadFails(p)
  BY <1>1, <1>2, <1>6, ReloadMoves DEF R!ReloadFails, R!Routing
<1>7. CASE R!StoreSnapshot(p)
  <2>. DEFINE state == [reload[p] EXCEPT !.at = "sync"]
  <2>1. reload[p].list \in Tables /\ SoundReload(state) /\ R!Reloads(p, state) /\ snapshot' = reload[p].list
        /\ UNCHANGED <<rows, made, drops, breakers, request>>
    BY <1>7 DEF RouterInv, SoundReload, R!StoreSnapshot
  <2>. HIDE DEF state
  <2>2. QED
    BY <1>2, <2>1, ReloadMoves
<1>8. QED
  BY <1>3, <1>4, <1>5, <1>6, <1>7

\* The second half: a breaker is dropped with its channel, made for a new one, and kept else.
LEMMA SyncKeeps ==
  ASSUME RouterInv, NEW p \in R!Reloaders, R!SyncBreakers(p)
  PROVE  RouterInv'
<1>. DEFINE list == reload[p].list
<1>1. /\ R!Reloads(p, R!Idle) /\ UNCHANGED <<rows, snapshot, tripped, request>>
      /\ R!Listed(list) \subseteq Channels
  BY DEF R!SyncBreakers, R!Listed
<1>2. ASSUME NEW c \in Channels
      PROVE  \/ c \in R!Listed(list) /\ breakers[c] # 0 /\ breakers'[c] = breakers[c]
                /\ made'[c] = made[c] /\ drops'[c] = drops[c]
             \/ c \in R!Listed(list) /\ breakers[c] = 0 /\ breakers'[c] = made[c] + 1
                /\ made'[c] = made[c] + 1 /\ drops'[c] = drops[c]
             \/ c \notin R!Listed(list) /\ breakers'[c] = 0 /\ made'[c] = made[c]
                /\ drops'[c] = IF breakers[c] = 0 THEN drops[c] ELSE drops[c] + 1
  <2>1. made'[c] = IF c \in R!Listed(list) \ R!Kept(list) THEN made[c] + 1 ELSE made[c]
    BY DEF R!SyncBreakers, R!Made
  <2>2. breakers'[c] = CASE c \in R!Kept(list) -> breakers[c]
                         [] c \notin R!Listed(list) -> 0
                         [] OTHER -> made'[c]
    BY DEF R!SyncBreakers
  <2>3. drops'[c] = IF c \notin R!Listed(list) /\ breakers[c] # 0 THEN drops[c] + 1 ELSE drops[c]
    BY DEF R!SyncBreakers
  <2>4. c \in R!Kept(list) <=> c \in R!Listed(list) /\ breakers[c] # 0
    BY DEF R!Kept
  <2>5. QED
    BY <2>1, <2>2, <2>3, <2>4
<1>3. /\ DOMAIN made' = Channels /\ DOMAIN breakers' = Channels /\ DOMAIN drops' = Channels
      /\ made' = [c \in Channels |-> made'[c]] /\ drops' = [c \in Channels |-> drops'[c]]
  BY DEF R!SyncBreakers, R!Made
<1>4. \A c \in Channels : /\ made[c] \in Nat /\ drops[c] \in Nat /\ breakers[c] \in 0 .. made[c]
                          /\ made[c] = drops[c] + IF breakers[c] = 0 THEN 0 ELSE 1
  BY DEF RouterInv, R!BreakerSurvives
<1>5. \A c \in Channels : /\ made'[c] \in Nat /\ drops'[c] \in Nat /\ breakers'[c] \in 0 .. made'[c]
                          /\ made'[c] = drops'[c] + IF breakers'[c] = 0 THEN 0 ELSE 1
  BY <1>2, <1>4
<1>6. made' \in [Channels -> Nat] /\ drops' \in [Channels -> Nat] /\ R!BreakerSurvives'
  BY <1>3, <1>5 DEF R!BreakerSurvives
<1>7. ASSUME NEW r \in Requests PROVE SoundSelect(request[r])'
  <2>1. SoundSelect(request[r]) /\ request'[r] = request[r]
    BY <1>1 DEF RouterInv
  <2>2. ASSUME NEW b \in request[r].candidates, request[r].at = "selected", drops'[b[1]] = 0
        PROVE  breakers'[b[1]] = b[2]
    <3>1. b[1] \in Channels /\ b[2] \in Nat \ {0} /\ (drops[b[1]] = 0 => breakers[b[1]] = b[2])
      BY <2>1, <2>2 DEF SoundSelect
    <3>2. drops[b[1]] = 0 /\ breakers[b[1]] # 0
      BY <1>2, <1>4, <2>2, <3>1
    <3>3. QED
      BY <1>2, <1>4, <2>2, <3>1, <3>2
  <2>3. QED
    BY <2>1, <2>2 DEF SoundSelect
<1>8. DOMAIN reload' = R!Reloaders /\ \A q \in R!Reloaders : SoundReload(reload'[q])
  BY <1>1, IdleSelects DEF RouterInv, R!Reloads
<1>9. QED
  BY <1>1, <1>3, <1>5, <1>6, <1>7, <1>8 DEF RouterInv, SoundReload

\* A step of a request that leaves the breakers alone.
LEMMA RequestMoves ==
  ASSUME RouterInv, NEW r \in Requests, NEW state, request' = [request EXCEPT ![r] = state],
         SoundSelect(state), UNCHANGED <<rows, snapshot, reload, made, drops, breakers>>
  PROVE  RouterInv'
<1>1. DOMAIN request' = Requests /\ \A q \in Requests : SoundSelect(request'[q])
  BY DEF RouterInv
<1>2. QED
  BY <1>1 DEF RouterInv, SoundSelect, SoundReload, R!BreakerSurvives

\* Select makes the breakers that are missing and hands out those in the map.
LEMMA SelectKeeps ==
  ASSUME RouterInv, NEW r \in Requests, R!Select(r)
  PROVE  RouterInv'
<1>. DEFINE matched == request[r].matched
            after(c) == IF c \in matched /\ breakers[c] = 0 THEN made[c] + 1 ELSE breakers[c]
<1>1. matched \subseteq Channels /\ UNCHANGED <<rows, snapshot, reload, drops>>
  BY DEF RouterInv, SoundSelect, R!Select, R!Table
<1>2. \A c \in Channels : /\ made[c] \in Nat /\ drops[c] \in Nat /\ breakers[c] \in 0 .. made[c]
                          /\ made[c] = drops[c] + IF breakers[c] = 0 THEN 0 ELSE 1
  BY DEF RouterInv, R!BreakerSurvives
<1>3. /\ DOMAIN breakers' = Channels /\ DOMAIN made' = Channels
      /\ made' = [c \in Channels |-> made'[c]]
      /\ \A c \in Channels : breakers'[c] = after(c)
      /\ \A c \in Channels : made'[c] = IF c \in matched /\ breakers[c] = 0 THEN made[c] + 1 ELSE made[c]
  BY DEF R!Select, R!BreakerFor
<1>4. \A c \in Channels : /\ made'[c] \in Nat /\ breakers'[c] \in 0 .. made'[c]
                          /\ made'[c] = drops[c] + IF breakers'[c] = 0 THEN 0 ELSE 1
                          /\ breakers[c] # 0 => breakers'[c] = breakers[c]
                          /\ c \in matched => breakers'[c] # 0
  BY <1>2, <1>3
<1>5. PICK ready : /\ request' = [request EXCEPT ![r] = R!Selected(ready)]
                   /\ \A b \in ready : \E c \in matched : b = <<c, after(c)>>
  <2>. DEFINE found == [c \in Channels |-> IF c \in { d \in matched : breakers[d] = 0 } THEN made[c] + 1
                                            ELSE breakers[c]]
              live  == { <<c, found[c]>> : c \in matched } \ tripped
  <2>1. request' = [request EXCEPT ![r] = R!Selected(live)]
    BY DEF R!Select
  <2>2. ASSUME NEW b \in live PROVE \E c \in matched : b = <<c, after(c)>>
    <3>1. PICK c \in matched : b = <<c, found[c]>>
      OBVIOUS
    <3>2. found[c] = after(c)
      BY <1>1
    <3>3. QED
      BY <3>1, <3>2
  <2>3. QED
    BY <2>1, <2>2
<1>6. SoundSelect(R!Selected(ready))'
  <2>1. CASE ready = {}
    BY <2>1 DEF SoundSelect, R!Selected, R!Idle
  <2>2. CASE ready # {}
    <3>1. R!Selected(ready) = [at |-> "selected", candidates |-> ready]
      BY <2>2 DEF R!Selected
    <3>2. ASSUME NEW b \in ready PROVE b \in Channels \X (Nat \ {0}) /\ breakers'[b[1]] = b[2]
      <4>1. PICK c \in matched : b = <<c, after(c)>>
        BY <1>5
      <4>2. c \in Channels /\ after(c) = breakers'[c] /\ breakers'[c] \in Nat \ {0}
        BY <1>1, <1>3, <1>4
      <4>3. QED
        BY <4>1, <4>2
    <3>3. QED
      BY <2>2, <3>1, <3>2 DEF SoundSelect
  <2>3. QED
    BY <2>1, <2>2
<1>7. ASSUME NEW q \in Requests, q # r PROVE SoundSelect(request[q])'
  <2>1. SoundSelect(request[q]) /\ request'[q] = request[q]
    BY <1>5, <1>7 DEF RouterInv
  <2>2. ASSUME NEW b \in request[q].candidates, request[q].at = "selected", drops'[b[1]] = 0
        PROVE  breakers'[b[1]] = b[2]
    <3>1. b[1] \in Channels /\ b[2] \in Nat \ {0} /\ breakers[b[1]] = b[2]
      BY <1>1, <2>1, <2>2 DEF SoundSelect
    <3>2. QED
      BY <1>4, <3>1
  <2>3. QED
    BY <1>1, <2>1, <2>2 DEF SoundSelect
<1>8. DOMAIN request' = Requests /\ request'[r] = R!Selected(ready)
  BY <1>5 DEF RouterInv
<1>9. \A q \in Requests : SoundSelect(request[q])'
  BY <1>6, <1>7, <1>8
<1>10. made' \in [Channels -> Nat] /\ R!BreakerSurvives'
  BY <1>1, <1>3, <1>4 DEF R!BreakerSurvives
<1>11. QED
  BY <1>1, <1>3, <1>4, <1>8, <1>9, <1>10 DEF RouterInv, SoundReload

\* Every step of the router keeps the invariant.
LEMMA RouterStep == ASSUME RouterInv, [R!Next]_(R!vars) PROVE RouterInv'
<1>1. ASSUME NEW p \in Admins, NEW c \in Channels, NEW row \in R!Rows, R!Write(p, c, row) PROVE RouterInv'
  BY <1>1, TablesKeep DEF R!Reloaders
<1>2. CASE R!Tick
  BY <1>2, TablesKeep DEF R!Reloaders
<1>3. ASSUME NEW p \in R!Reloaders, R!Reload(p) PROVE RouterInv'
  BY <1>3, TablesKeep, SyncKeeps DEF R!Reload
<1>4. ASSUME NEW r \in Requests, R!LoadSnapshot(r) PROVE RouterInv'
  <2>1. SoundSelect([at |-> "loaded", matched |-> R!Serves(snapshot)])
    BY DEF SoundSelect, R!Serves
  <2>2. UNCHANGED <<rows, snapshot, reload, made, drops, breakers>>
    BY <1>4 DEF R!LoadSnapshot, R!Table
  <2>3. \/ request' = [request EXCEPT ![r] = R!Idle]
        \/ request' = [request EXCEPT ![r] = [at |-> "loaded", matched |-> R!Serves(snapshot)]]
    BY <1>4 DEF R!LoadSnapshot
  <2>4. QED
    BY <2>1, <2>2, <2>3, IdleSelects, RequestMoves
<1>5. ASSUME NEW r \in Requests, R!Report(r) PROVE RouterInv'
  BY <1>5, IdleSelects, RequestMoves DEF R!Report, R!Table
<1>6. CASE UNCHANGED R!vars
  BY <1>6 DEF R!vars, RouterInv, SoundReload, SoundSelect, R!BreakerSurvives
<1>7. QED
  BY <1>1, <1>2, <1>3, <1>4, <1>5, <1>6, SelectKeeps DEF R!Next

\* It holds at first.
LEMMA RouterStarts == ASSUME R!Init PROVE RouterInv
<1>1. rows \in Tables /\ snapshot \in Tables
  BY DEF R!Init, Tables, R!Rows
<1>2. \A c \in Channels : breakers[c] \in {0, 1} /\ made[c] = breakers[c] /\ drops[c] = 0
  BY DEF R!Init
<1>3. /\ breakers \in [Channels -> Nat] /\ made = breakers /\ drops \in [Channels -> Nat] /\ DOMAIN breakers = Channels
  BY DEF R!Init
<1>4. R!BreakerSurvives /\ \A c \in Channels : breakers[c] \in 0 .. made[c]
  BY <1>2 DEF R!BreakerSurvives
<1>5. QED
  BY <1>1, <1>3, <1>4, IdleSelects DEF RouterInv, R!Init

\* However reloads, the administration and requests interleave, a channel gets a new breaker only
\* after a list without it was installed, and candidates of a channel that stayed are the breaker in
\* the map (router.go).
THEOREM RouterKeepsBreakers == R!Spec => []R!BreakersKept /\ []R!TypeOK
<1>1. RouterInv => R!BreakersKept /\ R!TypeOK
  BY DEF RouterInv, SoundSelect, Tables, R!BreakersKept, R!CandidatesShare, R!TypeOK
<1>2. QED
  BY <1>1, RouterStarts, RouterStep, PTL DEF R!Spec

-----------------------------------------------------------------------------
(* The policies.                                                           *)

\* Tables of channels as the administration writes them.
AdminTables == [Administered -> A!Row \cup {A!Absent}]

\* A handler between its check and its write has a channel.
SoundHandler(s) == /\ "at" \in DOMAIN s
                   /\ s.at = "checked" => s.channel \in Administered

\* The inductive invariant of the policies: handlers are gone when a start was refused.
PolicyInv ==
  /\ table \in AdminTables /\ routes \in AdminTables /\ config \in Configs /\ running \in BOOLEAN
  /\ DOMAIN admin = Admins /\ \A p \in Admins : SoundHandler(admin[p]) /\ (~running => admin[p] = A!Idle)
  /\ A!RoutesAccepted

\* What requests are routed by is a table.
LEMMA ServesTable == ASSUME table \in AdminTables PROVE A!Serves(table) \in AdminTables
BY DEF AdminTables, A!Serves

\* What a reload installs is accepted as a whole.
LEMMA ReplacedAccepted ==
  ASSUME PolicyInv
  PROVE  /\ A!Replaced \in AdminTables
         /\ \A c \in Administered : A!Replaced[c].on => A!Accepted(A!Replaced[c])
<1>1. CASE A!AllAccepted(table)
  <2>1. \A c \in Administered : table[c].on => table[c] # A!Absent
    BY DEF A!Absent
  <2>2. \A c \in Administered : A!Serves(table)[c].on => A!Serves(table)[c] = table[c]
    BY DEF A!Serves, A!Absent
  <2>3. QED
    BY <1>1, <2>1, <2>2, ServesTable DEF PolicyInv, A!Replaced, A!AllAccepted, A!Listed, A!Serves, A!Absent
<1>2. CASE ~A!AllAccepted(table)
  BY <1>2 DEF PolicyInv, A!Replaced, A!RoutesAccepted
<1>3. QED
  BY <1>1, <1>2

\* A handler moves and stores a row, or not.
LEMMA AdminMoves ==
  ASSUME PolicyInv, running, NEW p \in Admins, NEW state, A!Moves(p, state), SoundHandler(state),
         table' \in AdminTables, UNCHANGED <<config, running, routes>>
  PROVE  PolicyInv'
BY DEF PolicyInv, SoundHandler, A!Moves, A!RoutesAccepted, A!Accepted, A!TargetAllowed, A!LimitKnown

\* Every step keeps the invariant: what is installed passed the configuration that is running.
LEMMA PolicyStep == ASSUME PolicyInv, [A!Next]_(A!vars) PROVE PolicyInv'
<1>1. SoundHandler([at |-> "reload"]) /\ SoundHandler(A!Idle)
      /\ \A c \in Administered : SoundHandler([at |-> "checked", channel |-> c])
  BY DEF SoundHandler, A!Idle
<1>2. ASSUME NEW p \in Admins, NEW c \in Administered, NEW row \in A!Row \cup {A!Absent}, A!Store(p, c, row), running
      PROVE  PolicyInv'
  <2>1. table' \in AdminTables /\ A!Moves(p, [at |-> "reload"]) /\ UNCHANGED <<config, running, routes>>
    BY <1>2 DEF A!Store, PolicyInv, AdminTables
  <2>2. QED
    BY <1>1, <1>2, <2>1, AdminMoves
<1>3. ASSUME NEW c \in Administered, c \in A!Listed(table), NEW on \in BOOLEAN
      PROVE  [table[c] EXCEPT !.on = on] \in A!Row
  BY <1>3 DEF PolicyInv, AdminTables, A!Listed, A!Row
<1>4. ASSUME NEW p \in Admins, NEW c \in Administered, NEW row \in A!Row, A!Put(p, c, row) PROVE PolicyInv'
  BY <1>2, <1>4 DEF A!Put, A!CanWrite
<1>5. ASSUME NEW p \in Admins, NEW c \in Administered, A!CheckEnable(p, c) PROVE PolicyInv'
  BY <1>1, <1>5, AdminMoves DEF A!CheckEnable, A!CanWrite, PolicyInv
<1>6. ASSUME NEW p \in Admins, NEW c \in Administered, A!Disable(p, c) PROVE PolicyInv'
  BY <1>2, <1>3, <1>6 DEF A!Disable, A!CanWrite
<1>7. ASSUME NEW p \in Admins, NEW c \in Administered, A!Delete(p, c) PROVE PolicyInv'
  BY <1>2, <1>7 DEF A!Delete, A!CanWrite
<1>8. ASSUME NEW p \in Admins, A!Enable(p) PROVE PolicyInv'
  <2>1. admin[p].channel \in Administered /\ running
    BY <1>8 DEF A!Enable, PolicyInv, SoundHandler, A!Idle
  <2>2. CASE admin[p].channel \in A!Listed(table)
    BY <1>2, <1>3, <1>8, <2>1, <2>2 DEF A!Enable
  <2>3. CASE admin[p].channel \notin A!Listed(table)
    BY <1>1, <1>8, <2>1, <2>3, AdminMoves DEF A!Enable, PolicyInv
  <2>4. QED
    BY <2>2, <2>3
<1>9. ASSUME NEW p \in Admins, A!ReloadAfterWrite(p) PROVE PolicyInv'
  BY <1>1, <1>9, ReplacedAccepted
  DEF A!ReloadAfterWrite, A!Moves, PolicyInv, SoundHandler, A!RoutesAccepted, A!Accepted, A!TargetAllowed, A!LimitKnown
<1>10. CASE A!TimerReload
  BY <1>10, ReplacedAccepted
  DEF A!TimerReload, PolicyInv, SoundHandler, A!RoutesAccepted, A!Accepted, A!TargetAllowed, A!LimitKnown
<1>11. ASSUME NEW conf \in Configs, A!Restart(conf) PROVE PolicyInv'
  <2>1. /\ table' = table /\ config' = conf /\ running' \in BOOLEAN /\ routes' \in AdminTables
        /\ admin' = [p \in Admins |-> A!Idle]
    BY <1>11, ServesTable DEF A!Restart, PolicyInv, A!Starts, A!StartAccepted, AdminTables
  <2>2. A!RoutesAccepted'
    BY <1>11 DEF A!Restart, A!Starts, A!StartAccepted, A!RoutesAccepted, A!Accepted, A!TargetAllowed, A!LimitKnown,
                 A!Serves, A!Absent
  <2>3. QED
    BY <1>1, <2>1, <2>2 DEF PolicyInv, SoundHandler
<1>12. CASE UNCHANGED A!vars
  BY <1>12 DEF A!vars, PolicyInv, SoundHandler, A!RoutesAccepted, A!Accepted, A!TargetAllowed, A!LimitKnown
<1>13. QED
  BY <1>4, <1>5, <1>6, <1>7, <1>8, <1>9, <1>10, <1>11, <1>12 DEF A!Next, A!Handler

\* It holds at first.
LEMMA PolicyStarts == ASSUME A!Init PROVE PolicyInv
<1>1. table \in AdminTables /\ routes = A!Serves(table) /\ config \in Configs /\ running = TRUE
      /\ DOMAIN admin = Admins /\ \A p \in Admins : admin[p] = A!Idle
  BY DEF A!Init, AdminTables
<1>2. A!RoutesAccepted
  BY <1>1 DEF A!Init, A!StartAccepted, A!RoutesAccepted, A!Accepted, A!TargetAllowed, A!LimitKnown, A!Serves, A!Absent
<1>3. QED
  BY <1>1, <1>2, ServesTable DEF PolicyInv, SoundHandler, A!Idle

\* Whatever is written, and whoever restarts the process with another configuration, requests are
\* never routed to a channel that the running configuration refuses (service.go, main.go).
THEOREM RoutesAreAccepted == A!Spec => []A!RoutesAccepted /\ []A!TypeOK
<1>1. PolicyInv => A!RoutesAccepted /\ A!TypeOK
  BY DEF PolicyInv, AdminTables, A!TypeOK
<1>2. QED
  BY <1>1, PolicyStarts, PolicyStep, PTL DEF A!Spec

-----------------------------------------------------------------------------
(* The order of the channels (S is Selection).                             *)

\* What holds of 0 and of the next of any number holds of all.
LEMMA Counting ==
  ASSUME NEW D, NEW n \in Nat, 0 \in D, \A m \in 0 .. n - 1 : m \in D => m + 1 \in D
  PROVE  \A m \in 0 .. n : m \in D
<1> DEFINE Missed == { m \in 0 .. n : m \notin D }
           Bad    == { 0 .. m : m \in Missed }
<1>. SUFFICES ASSUME NEW x \in Missed PROVE FALSE
  OBVIOUS
<1>1. Bad \subseteq FiniteSubsetsOf(0 .. n)
  <2>. SUFFICES ASSUME NEW m \in 0 .. n PROVE 0 .. m \in FiniteSubsetsOf(0 .. n)
    OBVIOUS
  <2>1. IsFiniteSet(0 .. m) /\ 0 .. m \subseteq 0 .. n
    BY FS_Interval
  <2>2. QED
    BY <2>1 DEF FiniteSubsetsOf
<1>2. IsFiniteSet(0 .. n)
  BY FS_Interval
<1>3. Bad # {}
  OBVIOUS
<1>4. PICK s \in Bad : \A t \in Bad : <<t, s>> \notin StrictSubsetOrdering(0 .. n)
  <2>. HIDE DEF Bad
  <2>1. QED
    BY <1>1, <1>2, <1>3, FS_StrictSubsetOrderingWellFounded, WFMin
<1>5. PICK m \in Missed : s = 0 .. m
  BY <1>4
<1>6. m # 0 /\ m - 1 \in 0 .. n - 1 /\ (m - 1) + 1 = m /\ m - 1 \in 0 .. n
  BY <1>5
<1>7. m - 1 \in Missed
  BY <1>5, <1>6
<1>8. 0 .. m - 1 \in Bad
  BY <1>7
<1>9. 0 .. m - 1 \subseteq 0 .. m /\ m \in 0 .. m /\ m \notin 0 .. m - 1 /\ 0 .. m \subseteq 0 .. n
  BY <1>5
<1>10. QED
  BY <1>4, <1>5, <1>8, <1>9 DEF StrictSubsetOrdering

\* f starts with a and goes on by steps, which stay in V.
Steps(step, n, V)        == step \in [V \X (1 .. n) -> V]
Follows(f, a, step, n, V) == /\ f \in [0 .. n -> V] /\ f[0] = a
                             /\ \A k \in 1 .. n : f[k] = step[<<f[k - 1], k>>]

\* What is computed one step after another has a value after every step.
LEMMA Iterates ==
  ASSUME NEW n \in Nat, NEW V, NEW a \in V, NEW step, Steps(step, n, V)
  PROVE  \E f : Follows(f, a, step, n, V)
<1>. USE DEF Steps
<1> DEFINE Done(f, m) == /\ f \in [0 .. m -> V] /\ f[0] = a
                         /\ \A k \in 1 .. m : f[k] = step[<<f[k - 1], k>>]
           D == { m \in 0 .. n : \E f : Done(f, m) }
<1>1. 0 \in D
  <2>1. Done([k \in 0 .. 0 |-> a], 0)
    OBVIOUS
  <2>2. 0 \in 0 .. n
    OBVIOUS
  <2>3. QED
    BY <2>1, <2>2
<1>2. ASSUME NEW m \in 0 .. n - 1, m \in D PROVE m + 1 \in D
  <2>1. PICK f : Done(f, m)
    BY <1>2
  <2>2. m \in Nat /\ m + 1 \in 1 .. n /\ m + 1 \in 0 .. n /\ f[m] \in V
    BY <2>1
  <2> DEFINE next == step[<<f[m], m + 1>>]
             g    == [k \in 0 .. m + 1 |-> IF k = m + 1 THEN next ELSE f[k]]
  <2>3. next \in V
    BY <2>2
  <2>4. \A k \in 0 .. m : k \in 0 .. m + 1 /\ k # m + 1 /\ f[k] \in V
    BY <2>1, <2>2
  <2>5. \A k \in 0 .. m : g[k] = f[k]
    BY <2>4
  <2>6. g[m + 1] = next
    BY <2>2
  <2>7. g \in [0 .. m + 1 -> V]
    <3>. HIDE DEF next
    <3>1. \A k \in 0 .. m + 1 : k = m + 1 \/ k \in 0 .. m
      BY <2>2
    <3>2. QED
      BY <2>3, <2>4, <3>1
  <2>8. ASSUME NEW k \in 1 .. m + 1 PROVE g[k] = step[<<g[k - 1], k>>]
    <3>1. CASE k = m + 1
      <4>1. k - 1 = m /\ m \in 0 .. m
        BY <2>2, <3>1
      <4>2. QED
        BY <2>5, <2>6, <3>1, <4>1
    <3>2. CASE k # m + 1
      <4>1. k \in 1 .. m /\ k \in 0 .. m /\ k - 1 \in 0 .. m
        BY <2>2, <3>2
      <4>2. QED
        BY <2>1, <2>5, <4>1
    <3>3. QED
      BY <3>1, <3>2
  <2>9. g[0] = a
    BY <2>1, <2>2, <2>5
  <2>10. Done(g, m + 1)
    <3>. HIDE DEF g
    <3>1. QED
      BY <2>7, <2>8, <2>9
  <2>11. QED
    BY <2>2, <2>10
<1>3. n \in D
  <2>. HIDE DEF D
  <2>1. \A m \in 0 .. n : m \in D
    BY <1>1, <1>2, Counting
  <2>2. QED
    BY <2>1
<1>4. PICK f : Done(f, n)
  BY <1>3
<1>5. QED
  BY <1>4 DEF Follows

\* Some number of finitely many is the largest.
LEMMA MaxIs ==
  ASSUME NEW T, IsFiniteSet(T), T \subseteq Int, T # {}
  PROVE  S!Max(T) \in T /\ \A x \in T : x <= S!Max(T)
<1> DEFINE Top(s, m) == m \in s /\ \A x \in s : x <= m
           Bad == { s \in SUBSET T : s # {} /\ ~ \E m : Top(s, m) }
<1>1. Bad = {}
  <2>. SUFFICES ASSUME Bad # {} PROVE FALSE
    OBVIOUS
  <2>1. Bad \subseteq FiniteSubsetsOf(T)
    BY FS_Subset DEF FiniteSubsetsOf
  <2>2. PICK s \in Bad : \A t \in Bad : <<t, s>> \notin StrictSubsetOrdering(T)
    <3>. HIDE DEF Bad
    <3>1. QED
      BY <2>1, FS_StrictSubsetOrderingWellFounded, WFMin
  <2>3. PICK x \in s : x \in Int
    BY <2>2
  <2>4. s \ {x} \in SUBSET T /\ s \ {x} \notin Bad
    BY <2>2, <2>3 DEF StrictSubsetOrdering
  <2>5. CASE s \ {x} = {}
    <3>1. Top(s, x)
      BY <2>3, <2>5
    <3>2. QED
      BY <2>2, <3>1
  <2>6. CASE s \ {x} # {}
    <3>1. PICK m : Top(s \ {x}, m)
      BY <2>4, <2>6
    <3>2. m \in Int /\ m \in s /\ \A y \in s : y \in Int
      BY <2>2, <3>1
    <3>3. Top(s, IF m <= x THEN x ELSE m)
      BY <2>3, <3>1, <3>2
    <3>4. QED
      BY <2>2, <3>3
  <2>7. QED
    BY <2>5, <2>6
<1>2. PICK m : Top(T, m)
  BY <1>1
<1>3. m \in T /\ \A y \in T : m >= y
  BY <1>2
<1>4. S!Max(T) \in T /\ \A y \in T : S!Max(T) >= y
  BY <1>3 DEF S!Max
<1>5. QED
  BY <1>4

\* The sums of the weights are what the loop adds up.
LEMMA Sums ==
  ASSUME S!ConstantsOK, NEW cs \in Seq(S!Channel)
  PROVE  /\ S!Accumulated(cs) \in [0 .. Len(cs) -> Int]
         /\ S!Accumulated(cs)[0] = 0
         /\ \A k \in 1 .. Len(cs) : /\ S!Weight(cs[k]) \in Nat \ {0}
                                    /\ S!Accumulated(cs)[k] = S!Accumulated(cs)[k - 1] + S!Weight(cs[k])
<1> DEFINE n    == Len(cs)
           w(k) == S!Weight(cs[k])
           step == [x \in Int \X (1 .. n) |-> x[1] + w(x[2])]
           IsSum(f) == f = [k \in 0 .. n |-> IF k = 0 THEN 0 ELSE f[k - 1] + w(k)]
<1>1. \A k \in 1 .. n : w(k) \in Nat \ {0}
  <2>. SUFFICES ASSUME NEW k \in 1 .. n PROVE w(k) \in Nat \ {0}
    OBVIOUS
  <2>1. cs[k] \in S!Channel
    OBVIOUS
  <2>2. cs[k].weight \in Int
    BY <2>1 DEF S!ConstantsOK, S!Channel
  <2>3. QED
    BY <2>2 DEF S!Weight
<1>2. Steps(step, n, Int) /\ \A a \in Int, k \in 1 .. n : step[<<a, k>>] = a + w(k)
  <2>. HIDE DEF w, n
  <2>1. QED
    BY <1>1 DEF Steps
<1>3. n \in Nat /\ 0 \in Int
  OBVIOUS
<1>4. PICK f : Follows(f, 0, step, n, Int)
  <2>. HIDE DEF step, n
  <2>1. QED
    BY <1>2, <1>3, Iterates
<1>5. \A k \in 1 .. n : f[k - 1] \in Int /\ f[k] = f[k - 1] + w(k)
  <2>. HIDE DEF step, w, n
  <2>. SUFFICES ASSUME NEW k \in 1 .. n PROVE f[k - 1] \in Int /\ f[k] = f[k - 1] + w(k)
    OBVIOUS
  <2>1. k - 1 \in 0 .. n
    BY <1>3
  <2>2. QED
    BY <1>2, <1>4, <2>1 DEF Follows
<1>6. IsSum(f)
  <2>. HIDE DEF step, w, n
  <2>1. \A k \in 0 .. n : k = 0 \/ k \in 1 .. n
    BY <1>3
  <2>2. QED
    BY <1>4, <1>5, <2>1 DEF Follows
<1>7. IsSum(S!Accumulated(cs))
  <2>1. S!Accumulated(cs) = CHOOSE g : IsSum(g)
    BY DEF S!Accumulated
  <2>2. QED
    BY <1>6, <2>1
<1> DEFINE s == S!Accumulated(cs)
<1>8. ASSUME NEW k \in 1 .. n, s[k - 1] \in Int PROVE s[k] \in Int
  <2>1. s = [j \in 0 .. n |-> IF j = 0 THEN 0 ELSE s[j - 1] + w(j)]
    BY <1>7
  <2>. HIDE DEF w, n, s
  <2>2. k \in 0 .. n /\ k # 0
    BY <1>3
  <2>3. s[k] = s[k - 1] + w(k)
    BY <2>1, <2>2
  <2>4. QED
    BY <1>1, <1>8, <2>3
<1>9. \A k \in 0 .. n : k \in { j \in 0 .. n : s[j] \in Int }
  <2> DEFINE D == { j \in 0 .. n : s[j] \in Int }
  <2>1. s[0] = 0 /\ 0 \in D
    BY <1>3, <1>7
  <2>2. ASSUME NEW m \in 0 .. n - 1, m \in D PROVE m + 1 \in D
    <3>1. m + 1 \in 1 .. n /\ (m + 1) - 1 = m
      BY <1>3
    <3>2. QED
      BY <1>8, <2>2, <3>1
  <2>. HIDE DEF D, n
  <2>3. \A m \in 0 .. n : m \in D
    BY <1>3, <2>1, <2>2, Counting
  <2>4. QED
    BY <2>3 DEF D
<1>10. QED
  <2>1. s = [k \in 0 .. n |-> IF k = 0 THEN 0 ELSE s[k - 1] + w(k)]
    BY <1>7
  <2>. HIDE DEF w, s, n
  <2>2. s \in [0 .. n -> Int] /\ s[0] = 0 /\ \A k \in 1 .. n : s[k] = s[k - 1] + w(k)
    BY <1>3, <1>9, <2>1
  <2>3. QED
    BY <1>1, <2>2 DEF w, s, n

\* What stands in a sequence, and that it stands there once.
In(c, s) == \E i \in DOMAIN s : s[i] = c
Once(s)  == \A i, j \in DOMAIN s : s[i] = s[j] => i = j

\* One more at the end.
LEMMA Appended ==
  ASSUME NEW T, NEW s \in Seq(T), NEW c \in T
  PROVE  /\ Append(s, c) \in Seq(T)
         /\ \A d : In(d, Append(s, c)) <=> In(d, s) \/ d = c
         /\ Once(s) /\ ~ In(c, s) => Once(Append(s, c))
         /\ DOMAIN Append(s, c) = 1 .. Len(s) + 1 /\ Append(s, c)[Len(s) + 1] = c
         /\ \A i \in DOMAIN s : Append(s, c)[i] = s[i]
<1> DEFINE t == Append(s, c)
           n == Len(s)
<1>1. n \in Nat /\ DOMAIN s = 1 .. n
  OBVIOUS
<1>2. t \in Seq(T) /\ Len(t) = n + 1 /\ t[n + 1] = c /\ \A i \in 1 .. n : t[i] = s[i]
  OBVIOUS
<1>3. DOMAIN t = 1 .. n + 1
  BY <1>2
<1>. HIDE DEF t, n
<1>4. \A i \in 1 .. n + 1 : i \in 1 .. n \/ i = n + 1
  BY <1>1
<1>5. n + 1 \in 1 .. n + 1 /\ \A i \in 1 .. n : i \in 1 .. n + 1
  BY <1>1
<1>6. \A d : In(d, t) <=> In(d, s) \/ d = c
  BY <1>1, <1>2, <1>3, <1>4, <1>5 DEF In
<1>7. ASSUME Once(s), ~ In(c, s) PROVE Once(t)
  BY <1>1, <1>2, <1>3, <1>4, <1>5, <1>7 DEF Once, In
<1>8. QED
  BY <1>1, <1>2, <1>3, <1>6, <1>7 DEF t, n

\* The last takes the place of one, which is gone.
LEMMA Swapped ==
  ASSUME NEW T, NEW s \in Seq(T), Once(s), NEW i \in DOMAIN s
  PROVE  /\ S!SwapRemove(s, i) \in Seq(T)
         /\ \A d : In(d, S!SwapRemove(s, i)) <=> In(d, s) /\ d # s[i]
         /\ Once(S!SwapRemove(s, i))
<1> DEFINE n == Len(s)
           l == [s EXCEPT ![i] = s[n]]
           t == S!SwapRemove(s, i)
<1>1. n \in Nat /\ DOMAIN s = 1 .. n /\ n \in 1 .. n /\ i \in 1 .. n /\ n - 1 \in Nat
  OBVIOUS
<1>2. l \in Seq(T) /\ Len(l) = n
  <2>1. s[n] \in T
    BY <1>1
  <2>2. QED
    BY <1>1, <2>1, ExceptSeq
<1>3. t = SubSeq(l, 1, n - 1)
  BY <1>2 DEF S!SwapRemove, S!Front, S!Last
<1>4. /\ t \in Seq(T) /\ Len(t) = n - 1
      /\ \A j \in 1 .. n - 1 : t[j] = l[j]
  <2>. HIDE DEF l
  <2>1. 1 \in Int /\ n - 1 \in Int
    BY <1>1
  <2>2. QED
    BY <1>1, <1>2, <1>3, SubSeqProperties
<1>5. DOMAIN t = 1 .. n - 1
  BY <1>4
<1>6. \A j \in 1 .. n - 1 : t[j] = IF j = i THEN s[n] ELSE s[j]
  BY <1>1, <1>4
<1>. HIDE DEF t, l, n
<1>7. \A j \in 1 .. n - 1 : j \in 1 .. n /\ j # n
  BY <1>1
<1>8. \A j \in 1 .. n : j = n \/ j \in 1 .. n - 1
  BY <1>1
<1>9. ASSUME NEW d, In(d, t) PROVE In(d, s) /\ d # s[i]
  <2>1. PICK j \in 1 .. n - 1 : t[j] = d
    BY <1>5, <1>9 DEF In
  <2>2. CASE j = i
    BY <1>1, <1>6, <1>7, <2>1, <2>2 DEF In, Once
  <2>3. CASE j # i
    BY <1>1, <1>6, <1>7, <2>1, <2>3 DEF In, Once
  <2>4. QED
    BY <2>2, <2>3
<1>10. ASSUME NEW d, In(d, s), d # s[i] PROVE In(d, t)
  <2>1. PICK j \in 1 .. n : s[j] = d
    BY <1>1, <1>10 DEF In
  <2>2. CASE j = n
    <3>1. i \in 1 .. n - 1 /\ t[i] = s[n]
      BY <1>1, <1>6, <1>8, <1>10, <2>1, <2>2
    <3>2. QED
      BY <1>5, <2>1, <2>2, <3>1 DEF In
  <2>3. CASE j # n
    BY <1>5, <1>6, <1>8, <1>10, <2>1, <2>3 DEF In
  <2>4. QED
    BY <2>2, <2>3
<1>11. Once(t)
  <2>. SUFFICES ASSUME NEW j \in 1 .. n - 1, NEW k \in 1 .. n - 1, t[j] = t[k] PROVE j = k
    BY <1>5 DEF Once
  <2>1. j \in 1 .. n /\ j # n /\ k \in 1 .. n /\ k # n
    BY <1>7
  <2>2. (IF j = i THEN s[n] ELSE s[j]) = (IF k = i THEN s[n] ELSE s[k])
    BY <1>6
  <2>3. (IF j = i THEN n ELSE j) = (IF k = i THEN n ELSE k)
    BY <1>1, <2>1, <2>2 DEF Once
  <2>4. QED
    BY <2>1, <2>3
<1>12. QED
  BY <1>4, <1>9, <1>10, <1>11 DEF t

\* The group of a priority: the channels that have it, each once.
LEMMA Grouped ==
  ASSUME NEW cs \in Seq(S!Channel), Once(cs), NEW p
  PROVE  /\ S!Group(cs, p) \in Seq(S!Channel) /\ Once(S!Group(cs, p))
         /\ \A c : In(c, S!Group(cs, p)) <=> In(c, cs) /\ c.priority = p
<1> DEFINE n    == Len(cs)
           V    == Seq(S!Channel)
           step == [x \in V \X (1 .. n) |-> IF cs[x[2]].priority = p THEN Append(x[1], cs[x[2]]) ELSE x[1]]
           IsGroup(f) == f = [k \in 0 .. n |-> IF k = 0 THEN <<>>
                                               ELSE IF cs[k].priority = p THEN Append(f[k - 1], cs[k])
                                               ELSE f[k - 1]]
           After(f, k) == /\ f[k] \in V /\ Once(f[k])
                          /\ \A c : In(c, f[k]) <=> \E i \in 1 .. k : cs[i] = c /\ c.priority = p
<1>1. n \in Nat /\ DOMAIN cs = 1 .. n /\ <<>> \in V /\ \A k \in 1 .. n : cs[k] \in S!Channel
  OBVIOUS
<1>2. /\ Steps(step, n, V)
      /\ \A a \in V, k \in 1 .. n :
           step[<<a, k>>] = IF cs[k].priority = p THEN Append(a, cs[k]) ELSE a
  <2>1. \A a \in V, k \in 1 .. n : Append(a, cs[k]) \in V
    BY <1>1, AppendProperties
  <2>. HIDE DEF V, n
  <2>2. QED
    BY <2>1 DEF Steps
<1>3. PICK f : Follows(f, <<>>, step, n, V)
  <2>. HIDE DEF step, n, V
  <2>1. QED
    BY <1>1, <1>2, Iterates
<1>4. \A k \in 1 .. n : /\ f[k - 1] \in V
                        /\ f[k] = IF cs[k].priority = p THEN Append(f[k - 1], cs[k]) ELSE f[k - 1]
  <2>. HIDE DEF step, n, V
  <2>. SUFFICES ASSUME NEW k \in 1 .. n
                PROVE  /\ f[k - 1] \in V
                       /\ f[k] = IF cs[k].priority = p THEN Append(f[k - 1], cs[k]) ELSE f[k - 1]
    OBVIOUS
  <2>1. k - 1 \in 0 .. n
    BY <1>1
  <2>2. QED
    BY <1>2, <1>3, <2>1 DEF Follows
<1>5. IsGroup(f)
  <2>. HIDE DEF step, n, V
  <2>1. \A k \in 0 .. n : k = 0 \/ k \in 1 .. n
    BY <1>1
  <2>2. QED
    BY <1>3, <1>4, <2>1 DEF Follows
<1> DEFINE g == CHOOSE h : IsGroup(h)
<1>6. IsGroup(g)
  BY <1>5
<1>7. S!Group(cs, p) = g[n]
  BY DEF S!Group
<1>8. g[0] = <<>> /\ \A k \in 1 .. n : g[k] = IF cs[k].priority = p THEN Append(g[k - 1], cs[k]) ELSE g[k - 1]
  <2>1. g = [k \in 0 .. n |-> IF k = 0 THEN <<>> ELSE IF cs[k].priority = p THEN Append(g[k - 1], cs[k])
                                                  ELSE g[k - 1]]
    BY <1>6
  <2>. HIDE DEF g, n
  <2>2. 0 \in 0 .. n /\ \A k \in 1 .. n : k \in 0 .. n /\ k # 0
    BY <1>1
  <2>3. QED
    BY <2>1, <2>2
<1> DEFINE D == { k \in 0 .. n : After(g, k) }
<1>. HIDE DEF g, n
<1>9. 0 \in D
  <2>1. Once(<<>>) /\ \A c : ~ In(c, <<>>)
    BY DEF Once, In
  <2>2. 0 \in 0 .. n /\ 1 .. 0 = {}
    BY <1>1
  <2>3. QED
    BY <1>1, <1>8, <2>1, <2>2
<1>10. ASSUME NEW m \in 0 .. n - 1, m \in D PROVE m + 1 \in D
  <2>1. m + 1 \in 1 .. n /\ m + 1 \in 0 .. n /\ (m + 1) - 1 = m
    BY <1>1
  <2>2. After(g, m)
    BY <1>10
  <2> DEFINE c == cs[m + 1]
  <2>3. c \in S!Channel
    BY <1>1, <2>1
  <2>4. ~ In(c, g[m])
    <3>1. \A i \in 1 .. m : i \in 1 .. n /\ i # m + 1
      BY <1>1
    <3>2. QED
      BY <1>1, <2>1, <2>2, <3>1 DEF Once
  <2>5. \A d : (\E i \in 1 .. m + 1 : cs[i] = d /\ d.priority = p)
               <=> \/ \E i \in 1 .. m : cs[i] = d /\ d.priority = p
                   \/ d = c /\ d.priority = p
    <3>1. \A i \in 1 .. m + 1 : i \in 1 .. m \/ i = m + 1
      BY <1>1
    <3>2. m + 1 \in 1 .. m + 1 /\ \A i \in 1 .. m : i \in 1 .. m + 1
      BY <1>1
    <3>3. QED
      BY <3>1, <3>2
  <2>. HIDE DEF c
  <2>6. CASE c.priority = p
    <3>1. g[m + 1] = Append(g[m], c)
      BY <1>8, <2>1, <2>6 DEF c
    <3>2. /\ Append(g[m], c) \in V /\ Once(Append(g[m], c))
          /\ \A d : In(d, Append(g[m], c)) <=> In(d, g[m]) \/ d = c
      BY <2>2, <2>3, <2>4, Appended
    <3>3. After(g, m + 1)
      <4>. HIDE DEF V
      <4>1. QED
        BY <2>2, <2>5, <2>6, <3>1, <3>2
    <3>4. QED
      BY <2>1, <3>3
  <2>7. CASE c.priority # p
    <3>1. g[m + 1] = g[m]
      BY <1>8, <2>1, <2>7 DEF c
    <3>2. After(g, m + 1)
      <4>. HIDE DEF V
      <4>1. QED
        BY <2>2, <2>5, <2>7, <3>1
    <3>3. QED
      BY <2>1, <3>2
  <2>8. QED
    BY <2>6, <2>7
<1>11. After(g, n)
  <2>. HIDE DEF D
  <2>1. \A m \in 0 .. n : m \in D
    BY <1>1, <1>9, <1>10, Counting
  <2>2. n \in D
    BY <1>1, <2>1
  <2>3. QED
    BY <2>2 DEF D
<1>12. QED
  BY <1>1, <1>7, <1>11 DEF In

\* A point below the whole sum lies in the interval of one channel, which is picked.
LEMMA Picked ==
  ASSUME S!ConstantsOK, NEW cs \in Seq(S!Channel)
  PROVE  /\ \A r \in 0 .. S!Accumulated(cs)[Len(cs)] - 1 : S!Pick(cs, r) \in DOMAIN cs
         /\ \A i \in DOMAIN cs :
              { r \in 0 .. S!Accumulated(cs)[Len(cs)] - 1 : S!Pick(cs, r) = i }
                = S!Accumulated(cs)[i - 1] .. S!Accumulated(cs)[i] - 1
<1> DEFINE n == Len(cs)
           s == S!Accumulated(cs)
           w(k) == S!Weight(cs[k])
           IsIn(r, i) == i \in 1 .. n /\ r < s[i] /\ \A j \in 1 .. i - 1 : r >= s[j]
<1>1. n \in Nat /\ DOMAIN cs = 1 .. n
  OBVIOUS
<1>2. /\ s \in [0 .. n -> Int] /\ s[0] = 0
      /\ \A k \in 1 .. n : w(k) \in Nat \ {0} /\ s[k] = s[k - 1] + w(k)
  BY Sums
<1>3. \A r : S!Pick(cs, r) = CHOOSE i : IsIn(r, i)
  BY <1>1 DEF S!Pick
<1>. HIDE DEF n, s, w
<1>4. ASSUME NEW k \in 0 .. n PROVE 0 <= s[k] /\ \A j \in 0 .. k : s[j] <= s[k]
  <2> DEFINE D == { m \in 0 .. n : 0 <= s[m] /\ \A j \in 0 .. m : s[j] <= s[m] }
  <2>1. 0 \in D
    BY <1>1, <1>2
  <2>2. ASSUME NEW m \in 0 .. n - 1, m \in D PROVE m + 1 \in D
    <3>1. m + 1 \in 1 .. n /\ (m + 1) - 1 = m /\ m \in 0 .. n /\ m + 1 \in 0 .. n
      BY <1>1
    <3>2. s[m] \in Int /\ s[m + 1] \in Int /\ s[m] < s[m + 1]
      BY <1>2, <3>1
    <3>3. ASSUME NEW j \in 0 .. m + 1 PROVE s[j] <= s[m + 1]
      <4>1. j = m + 1 \/ (j \in 0 .. m /\ s[j] <= s[m] /\ s[j] \in Int)
        BY <1>1, <1>2, <2>2, <3>1
      <4>2. QED
        BY <3>2, <4>1
    <3>4. QED
      BY <2>2, <3>1, <3>2, <3>3
  <2>. HIDE DEF D
  <2>3. k \in D
    BY <1>1, <2>1, <2>2, Counting
  <2>4. QED
    BY <2>3 DEF D
<1>5. ASSUME NEW r \in Nat, NEW i \in 1 .. n, s[i - 1] <= r, r < s[i] PROVE IsIn(r, i)
  <2>1. ASSUME NEW j \in 1 .. i - 1 PROVE r >= s[j]
    <3>1. j \in 0 .. i - 1 /\ i - 1 \in 0 .. n /\ j \in 0 .. n
      BY <1>1
    <3>2. s[j] <= s[i - 1] /\ s[j] \in Int /\ s[i - 1] \in Int
      BY <1>2, <1>4, <3>1
    <3>3. QED
      BY <1>5, <3>2
  <2>2. QED
    BY <1>5, <2>1
<1>6. ASSUME NEW r, NEW i, NEW j, IsIn(r, i), IsIn(r, j), r \in Nat PROVE i = j
  <2>1. s[i] \in Int /\ s[j] \in Int
    BY <1>1, <1>2, <1>6
  <2>2. ~ (i < j) /\ ~ (j < i)
    BY <1>1, <1>6, <2>1
  <2>3. QED
    BY <1>1, <1>6, <2>2
<1>7. ASSUME NEW r \in 0 .. s[n] - 1 PROVE \E i \in 1 .. n : s[i - 1] <= r /\ r < s[i]
  <2> DEFINE D == { m \in 0 .. n : s[m] <= r }
  <2>1. s[n] \in Int /\ n \notin D /\ r \in Int
    BY <1>1, <1>2
  <2>2. 0 \in D
    BY <1>1, <1>2
  <2>3. ~ \A m \in 0 .. n - 1 : m \in D => m + 1 \in D
    <3>. HIDE DEF D
    <3>1. n \in 0 .. n
      BY <1>1
    <3>2. QED
      BY <1>1, <2>1, <2>2, <3>1, Counting
  <2>4. PICK m \in 0 .. n - 1 : m \in D /\ m + 1 \notin D
    BY <2>3
  <2>5. m + 1 \in 1 .. n /\ (m + 1) - 1 = m /\ m + 1 \in 0 .. n /\ s[m + 1] \in Int
    BY <1>1, <1>2
  <2>6. QED
    BY <2>1, <2>4, <2>5
<1>8. ASSUME NEW r \in 0 .. s[n] - 1
      PROVE  IsIn(r, S!Pick(cs, r)) /\ s[S!Pick(cs, r) - 1] <= r
  <2>1. PICK i \in 1 .. n : s[i - 1] <= r /\ r < s[i]
    BY <1>7
  <2>2. IsIn(r, i) /\ r \in Nat
    <3>1. s[n] \in Int
      BY <1>1, <1>2
    <3>2. QED
      BY <1>5, <2>1, <3>1
  <2>. HIDE DEF IsIn
  <2>3. IsIn(r, S!Pick(cs, r))
    BY <1>3, <2>2
  <2>4. S!Pick(cs, r) = i
    BY <1>6, <2>2, <2>3
  <2>5. QED
    BY <2>1, <2>3, <2>4
<1>9. ASSUME NEW i \in 1 .. n
      PROVE  { r \in 0 .. s[n] - 1 : S!Pick(cs, r) = i } = s[i - 1] .. s[i] - 1
  <2>1. i - 1 \in 0 .. n /\ i \in 0 .. n /\ n \in 0 .. n
    BY <1>1
  <2>2. /\ s[i - 1] \in Int /\ s[i] \in Int /\ s[n] \in Int /\ 0 <= s[i - 1]
    BY <1>2, <1>4, <2>1
  <2>3. s[i] <= s[n]
    BY <1>4, <2>1
  <2>4. ASSUME NEW r \in 0 .. s[n] - 1, S!Pick(cs, r) = i PROVE r \in s[i - 1] .. s[i] - 1
    <3>1. r \in Int /\ r < s[i] /\ s[i - 1] <= r
      BY <1>8, <2>2, <2>4
    <3>2. QED
      BY <2>2, <3>1
  <2>5. ASSUME NEW r \in s[i - 1] .. s[i] - 1 PROVE r \in 0 .. s[n] - 1 /\ S!Pick(cs, r) = i
    <3>1. r \in Nat /\ s[i - 1] <= r /\ r < s[i] /\ r \in 0 .. s[n] - 1
      BY <2>2, <2>3
    <3>2. IsIn(r, i)
      BY <1>5, <3>1
    <3>3. IsIn(r, S!Pick(cs, r))
      BY <1>8, <3>1
    <3>. HIDE DEF IsIn
    <3>4. QED
      BY <1>6, <3>1, <3>2, <3>3
  <2>6. QED
    BY <2>4, <2>5
<1>10. QED
  BY <1>1, <1>8, <1>9 DEF n, s

\* So its chance is its share.
LEMMA Shares ==
  ASSUME S!ConstantsOK, pool \in Seq(S!Channel)
  PROVE  S!ExactShare
<1>. SUFFICES ASSUME NEW i \in DOMAIN pool
              PROVE  S!Cardinality({ r \in 0 .. S!Accumulated(pool)[Len(pool)] - 1 : S!Pick(pool, r) = i })
                       = S!Weight(pool[i])
  BY DEF S!ExactShare
<1> DEFINE a == S!Accumulated(pool)[i - 1]
           b == S!Accumulated(pool)[i]
<1>1. i \in 1 .. Len(pool) /\ i - 1 \in 0 .. Len(pool) /\ i \in 0 .. Len(pool)
  OBVIOUS
<1>2. a \in Int /\ b \in Int /\ S!Weight(pool[i]) \in Nat \ {0} /\ b = a + S!Weight(pool[i])
  BY <1>1, Sums
<1>3. { r \in 0 .. S!Accumulated(pool)[Len(pool)] - 1 : S!Pick(pool, r) = i } = a .. b - 1
  BY Picked
<1>. HIDE DEF a, b
<1>4. b - 1 \in Int /\ a <= b - 1 /\ ((b - 1) - a) + 1 = S!Weight(pool[i])
  BY <1>2
<1>5. Cardinality(a .. b - 1) = ((b - 1) - a) + 1
  <2> DEFINE e == b - 1
  <2>1. e \in Int /\ a <= e
    BY <1>4
  <2>. HIDE DEF e
  <2>2. Cardinality(a .. e) = e - a + 1
    BY <1>2, <2>1, FS_Interval
  <2>3. QED
    BY <2>2 DEF e
<1>6. S!Cardinality(a .. b - 1) = Cardinality(a .. b - 1)
  BY DEF S!Cardinality, Cardinality
<1>7. QED
  BY <1>3, <1>4, <1>5, <1>6

\* Each channel is at one place, nothing at two; the group that is shuffled is of one priority,
\* above those still to come and not above what is out.
OrderInv ==
  /\ channels \in Seq(S!Channel) /\ Once(channels)
  /\ groups \subseteq Priorities /\ IsFiniteSet(groups)
  /\ pool \in Seq(S!Channel) /\ Once(pool) /\ out \in Seq(S!Channel) /\ Once(out)
  /\ \A c : In(c, pool) \/ In(c, out) => In(c, channels) /\ c.priority \notin groups
  /\ \A c : ~ (In(c, pool) /\ In(c, out))
  /\ \A c : In(c, channels) => c.priority \in groups \/ In(c, pool) \/ In(c, out)
  /\ \A i, j \in DOMAIN pool : pool[i].priority = pool[j].priority
  /\ \A i \in DOMAIN pool : \A g \in groups : g <= pool[i].priority
  /\ \A i \in DOMAIN out : /\ \A g \in groups : g <= out[i].priority
                           /\ \A j \in DOMAIN pool : pool[j].priority <= out[i].priority
  /\ \A i, j \in DOMAIN out : i < j => out[j].priority <= out[i].priority

\* Finitely many channels in any order.
LEMMA OrderStarts ==
  ASSUME S!ConstantsOK, S!Init
  PROVE  OrderInv
<1>1. PICK n \in 0 .. S!Cardinality(Offered) : channels \in [1 .. n -> S!Channel]
  BY DEF S!Init
<1>2. S!Cardinality(Offered) \in Nat
  <2>1. S!Cardinality(Offered) = Cardinality(Offered) /\ IsFiniteSet(Offered)
    BY DEF S!Cardinality, Cardinality, S!ConstantsOK, S!IsFiniteSet, IsFiniteSet
  <2>2. QED
    BY <2>1, FS_CardinalityType
<1>3. channels \in Seq(S!Channel) /\ DOMAIN channels = 1 .. n /\ n \in Nat
  BY <1>1, <1>2
<1>4. Once(channels)
  <2> DEFINE ids == [i \in DOMAIN channels |-> channels[i].id]
  <2>1. \A i, j \in DOMAIN ids : ids[i] = ids[j] => i = j
    BY DEF S!Init, S!IsInjective
  <2>2. QED
    BY <2>1 DEF Once
<1>5. groups = { channels[i].priority : i \in 1 .. n } /\ pool = <<>> /\ out = <<>>
  BY <1>3 DEF S!Init, S!Matched
<1>6. groups \subseteq Priorities
  BY <1>1, <1>5 DEF S!Channel
<1>7. IsFiniteSet(groups)
  <2>1. IsFiniteSet(1 .. n)
    BY <1>3, FS_Interval
  <2> DEFINE f == [i \in 1 .. n |-> channels[i].priority]
  <2>2. f \in Surjection(1 .. n, groups)
    BY <1>5 DEF Surjection
  <2>. HIDE DEF f
  <2>3. QED
    BY <2>1, <2>2, FS_Surjection
<1>8. \A c : In(c, channels) => c.priority \in groups
  BY <1>3, <1>5 DEF In
<1>9. \A c : ~ In(c, <<>>)
  BY DEF In
<1>10. Once(<<>>) /\ <<>> \in Seq(S!Channel)
  BY DEF Once
<1>11. DOMAIN pool = {} /\ DOMAIN out = {}
  BY <1>5
<1>12. QED
  BY <1>3, <1>4, <1>5, <1>6, <1>7, <1>8, <1>9, <1>10, <1>11 DEF OrderInv

\* A step keeps that.
LEMMA OrderStep ==
  ASSUME S!ConstantsOK, OrderInv, [S!Next]_(S!vars)
  PROVE  OrderInv'
<1>1. CASE S!NextGroup
  <2> DEFINE p == S!FirstPriority(groups)
             g == S!Group(channels, p)
  <2>1. pool = <<>> /\ groups # {} /\ pool' = g /\ groups' = groups \ {p} /\ channels' = channels /\ out' = out
    BY <1>1 DEF S!NextGroup
  <2>2. p \in groups /\ \A q \in groups : q <= p
    <3>1. IsFiniteSet(groups) /\ groups \subseteq Int
      BY DEF OrderInv, S!ConstantsOK
    <3>2. QED
      BY <2>1, <3>1, MaxIs DEF S!FirstPriority
  <2>. HIDE DEF p
  <2>3. g \in Seq(S!Channel) /\ Once(g) /\ \A c : In(c, g) <=> In(c, channels) /\ c.priority = p
    BY Grouped DEF OrderInv
  <2>. HIDE DEF g
  <2>4. IsFiniteSet(groups') /\ groups' \subseteq Priorities
    BY <2>1, FS_Subset DEF OrderInv
  <2>5. \A c : ~ In(c, pool)
    BY <2>1 DEF In
  <2>6. /\ \A c : In(c, g) \/ In(c, out) => In(c, channels) /\ c.priority \notin groups \ {p}
        /\ \A c : ~ (In(c, g) /\ In(c, out))
        /\ \A c : In(c, channels) => c.priority \in groups \ {p} \/ In(c, g) \/ In(c, out)
    BY <2>2, <2>3, <2>5 DEF OrderInv
  <2>7. \A i \in DOMAIN g : g[i].priority = p
    BY <2>3 DEF In
  <2>8. \A i \in DOMAIN out : p <= out[i].priority
    BY <2>2 DEF OrderInv
  <2>9. QED
    BY <2>1, <2>2, <2>3, <2>4, <2>6, <2>7, <2>8 DEF OrderInv
<1>2. CASE S!Draw
  <2>1. PICK r \in 0 .. S!Accumulated(pool)[Len(pool)] - 1 :
          /\ out' = Append(out, pool[S!Pick(pool, r)])
          /\ pool' = S!SwapRemove(pool, S!Pick(pool, r))
    BY <1>2 DEF S!Draw
  <2>2. channels' = channels /\ groups' = groups
    BY <1>2 DEF S!Draw
  <2> DEFINE i == S!Pick(pool, r)
             c == pool[i]
             rest == S!SwapRemove(pool, i)
  <2>3. i \in DOMAIN pool
    BY Picked DEF OrderInv
  <2>4. c \in S!Channel /\ In(c, pool)
    BY <2>3 DEF OrderInv, In
  <2>. HIDE DEF i
  <2>5. rest \in Seq(S!Channel) /\ Once(rest) /\ \A d : In(d, rest) <=> In(d, pool) /\ d # c
    BY <2>3, Swapped DEF OrderInv
  <2>6. pool' = rest /\ out' = Append(out, c)
    BY <2>1 DEF i
  <2>7. /\ Append(out, c) \in Seq(S!Channel)
        /\ \A d : In(d, Append(out, c)) <=> In(d, out) \/ d = c
        /\ Once(Append(out, c))
        /\ DOMAIN Append(out, c) = 1 .. Len(out) + 1 /\ Append(out, c)[Len(out) + 1] = c
        /\ \A k \in DOMAIN out : Append(out, c)[k] = out[k]
    <3>1. ~ In(c, out)
      BY <2>4 DEF OrderInv
    <3>2. out \in Seq(S!Channel) /\ Once(out)
      BY DEF OrderInv
    <3>. HIDE DEF c
    <3>3. QED
      BY <2>4, <3>1, <3>2, Appended
  <2> DEFINE o == Append(out, c)
             n == Len(out)
  <2>8. n \in Nat /\ DOMAIN out = 1 .. n
    BY DEF OrderInv
  <2>9. /\ \A d : In(d, pool) => d.priority = c.priority
        /\ \A q \in groups : q <= c.priority
        /\ \A k \in DOMAIN out : c.priority <= out[k].priority
    BY <2>3 DEF OrderInv, In
  <2>10. \A k \in DOMAIN rest : rest[k].priority = c.priority
    <3>. HIDE DEF rest, c
    <3>1. QED
      BY <2>5, <2>9 DEF In
  <2>11. c.priority \in Int
    BY <2>4 DEF S!Channel, S!ConstantsOK
  <2>. HIDE DEF o, n, c, rest
  <2>12. \A k \in 1 .. n + 1 : k \in 1 .. n \/ k = n + 1
    BY <2>8
  <2>13. DOMAIN o = 1 .. n + 1 /\ o[n + 1] = c /\ \A k \in 1 .. n : o[k] = out[k]
    BY <2>7, <2>8 DEF o, n
  <2>14. \A k \in DOMAIN o : c.priority <= o[k].priority /\ \A q \in groups : q <= o[k].priority
    BY <2>8, <2>9, <2>11, <2>12, <2>13 DEF OrderInv
  <2>15. \A k, m \in DOMAIN o : k < m => o[m].priority <= o[k].priority
    <3>. SUFFICES ASSUME NEW k \in 1 .. n + 1, NEW m \in 1 .. n + 1, k < m
                  PROVE  o[m].priority <= o[k].priority
      BY <2>13
    <3>1. k \in 1 .. n
      BY <2>8
    <3>2. CASE m = n + 1
      BY <2>8, <2>9, <2>13, <3>1, <3>2
    <3>3. CASE m # n + 1
      <4>1. m \in 1 .. n
        BY <2>12, <3>3
      <4>2. QED
        BY <2>8, <2>13, <3>1, <4>1 DEF OrderInv
    <3>4. QED
      BY <3>2, <3>3
  <2>16. /\ \A d : In(d, rest) \/ In(d, o) => In(d, channels) /\ d.priority \notin groups
         /\ \A d : ~ (In(d, rest) /\ In(d, o))
         /\ \A d : In(d, channels) => d.priority \in groups \/ In(d, rest) \/ In(d, o)
    BY <2>4, <2>5, <2>7 DEF OrderInv, o
  <2>17. \A k \in DOMAIN rest : \A q \in groups : q <= rest[k].priority
    BY <2>9, <2>10
  <2>18. \A k \in DOMAIN o : \A j \in DOMAIN rest : rest[j].priority <= o[k].priority
    BY <2>10, <2>14
  <2>19. o \in Seq(S!Channel) /\ Once(o)
    BY <2>7 DEF o
  <2>20. \A k, m \in DOMAIN rest : rest[k].priority = rest[m].priority
    BY <2>10
  <2>21. pool' = rest /\ out' = o
    BY <2>6 DEF o
  <2>22. QED
    BY <2>2, <2>5, <2>14, <2>15, <2>16, <2>17, <2>18, <2>19, <2>20, <2>21 DEF OrderInv
<1>3. CASE UNCHANGED S!vars
  BY <1>3 DEF S!vars, OrderInv
<1>4. QED
  BY <1>1, <1>2, <1>3 DEF S!Next

\* What stands once in a sequence has one copy there, what does not has none.
LEMMA CopiesOf ==
  ASSUME NEW s, Once(s), NEW c
  PROVE  S!Copies(s, c) = IF In(c, s) THEN 1 ELSE 0
<1>1. \A X : S!Cardinality(X) = Cardinality(X)
  BY DEF S!Cardinality, Cardinality
<1>2. CASE In(c, s)
  <2>1. PICK i \in DOMAIN s : { j \in DOMAIN s : s[j] = c } = {i}
    BY <1>2 DEF In, Once
  <2>2. Cardinality({i}) = 1
    BY FS_Singleton
  <2>3. QED
    BY <1>1, <1>2, <2>1, <2>2 DEF S!Copies
<1>3. CASE ~ In(c, s)
  <2>1. { j \in DOMAIN s : s[j] = c } = {}
    BY <1>3 DEF In
  <2>2. Cardinality({}) = 0
    BY FS_EmptySet
  <2>3. QED
    BY <1>1, <1>3, <2>1, <2>2 DEF S!Copies
<1>4. QED
  BY <1>2, <1>3

\* It says what the properties say.
LEMMA OrderSound ==
  ASSUME S!ConstantsOK, OrderInv
  PROVE  S!OfferedInOrder /\ S!TypeOK
<1>1. S!TypeOK
  BY DEF OrderInv, S!TypeOK
<1>2. S!ExactShare
  BY Shares DEF OrderInv
<1>3. S!PriorityFirst
  <2>. SUFFICES ASSUME NEW i \in DOMAIN out, NEW j \in DOMAIN out, i < j
                PROVE  out[i].priority >= out[j].priority
    BY DEF S!PriorityFirst
  <2>1. out[j].priority <= out[i].priority
    BY DEF OrderInv
  <2>2. QED
    BY <2>1
<1>4. S!EachOnce
  <2>. SUFFICES ASSUME NEW c \in S!Matched
                PROVE  (IF c.priority \in groups THEN 1 ELSE 0) + S!Copies(pool, c) + S!Copies(out, c) = 1
    BY DEF S!EachOnce
  <2>1. In(c, channels)
    BY DEF S!Matched, In
  <2>2. /\ S!Copies(pool, c) = IF In(c, pool) THEN 1 ELSE 0
        /\ S!Copies(out, c) = IF In(c, out) THEN 1 ELSE 0
    BY CopiesOf DEF OrderInv
  <2>3. /\ In(c, pool) \/ In(c, out) => c.priority \notin groups
        /\ ~ (In(c, pool) /\ In(c, out))
        /\ c.priority \in groups \/ In(c, pool) \/ In(c, out)
    BY <2>1 DEF OrderInv
  <2>4. QED
    BY <2>2, <2>3
<1>5. QED
  BY <1>1, <1>2, <1>3, <1>4 DEF S!OfferedInOrder

\* For any channels, priorities and weights, zero and negative ones too: failover is offered every
\* channel once, higher priorities first, and within a priority each with its share (select.go).
THEOREM ChannelsInOrder ==
  ASSUME S!ConstantsOK
  PROVE  S!Spec => []S!OfferedInOrder /\ []S!TypeOK
<1>1. S!Init => OrderInv
  BY OrderStarts
<1>2. OrderInv /\ [S!Next]_(S!vars) => OrderInv'
  BY OrderStep
<1>3. OrderInv => S!OfferedInOrder /\ S!TypeOK
  BY OrderSound
<1>4. QED
  BY <1>1, <1>2, <1>3, PTL DEF S!Spec

-----------------------------------------------------------------------------
(* The whole.                                                              *)

\* Every step of the composition is a step of one part, or of none.
LEMMA PartsStep ==
  ASSUME [RoutingNext]_allVars
  PROVE  [Next]_vars /\ [R!Next]_(R!vars) /\ [S!Next]_(S!vars) /\ [A!Next]_(A!vars)
<1>1. CASE Next /\ Breaks
  BY <1>1 DEF Breaks, routerVars, orderVars, policyVars, R!vars, S!vars, A!vars
<1>2. CASE R!Next /\ Routes
  BY <1>2 DEF Routes, breakerVars, orderVars, policyVars, vars, S!vars, A!vars
<1>3. CASE S!Next /\ Orders
  BY <1>3 DEF Orders, breakerVars, routerVars, policyVars, vars, R!vars, A!vars
<1>4. CASE A!Next /\ Admits
  BY <1>4 DEF Admits, breakerVars, routerVars, orderVars, vars, R!vars, S!vars
<1>5. CASE UNCHANGED allVars
  BY <1>5 DEF allVars, breakerVars, routerVars, orderVars, policyVars, vars, R!vars, S!vars, A!vars
<1>6. QED
  BY <1>1, <1>2, <1>3, <1>4, <1>5 DEF RoutingNext

\* A behaviour of the composition is one of each part.
LEMMA PartsApart == RoutingSpec => Spec /\ R!Spec /\ S!Spec /\ A!Spec
<1>1. RoutingInit => Init /\ R!Init /\ S!Init /\ A!Init
  BY DEF RoutingInit
<1>2. QED
  BY <1>1, PartsStep, PTL DEF RoutingSpec, Spec, R!Spec, S!Spec, A!Spec

\* In the gateway as composed a half-open breaker counts the probes that run, and hot replacement
\* neither resets nor splits the breaker of a channel that stays (breaker.go, router.go).
THEOREM RoutingKeepsBreakers == RoutingSpec => []BreakersKept
BY PartsApart, BreakerCountsProbes, RouterKeepsBreakers, PTL DEF BreakersKept

\* Its breakers do what a circuit promises.
THEOREM RoutingImplementsCircuit == RoutingSpec => ImplementsCircuit
BY PartsApart, BreakerImplementsCircuit, PTL

\* It offers a request every channel once, by priority and by exact shares of the weights.
THEOREM RoutingOffersInOrder ==
  ASSUME S!ConstantsOK
  PROVE  RoutingSpec => []OfferedInOrder
BY PartsApart, ChannelsInOrder, PTL DEF OfferedInOrder

\* It routes to nothing that its configuration refuses (service.go, main.go).
THEOREM RoutingAccepts == RoutingSpec => []A!RoutesAccepted
BY PartsApart, RoutesAreAccepted, PTL

\* And the variables of its parts have their types.
THEOREM RoutingTypes ==
  ASSUME S!ConstantsOK
  PROVE  RoutingSpec => []TypesOK
BY PartsApart, BreakerCountsProbes, RouterKeepsBreakers, ChannelsInOrder, RoutesAreAccepted, PTL DEF TypesOK
=============================================================================
