# A formal model of LinAPI

LinAPI is an AI API gateway. A client sends a chat request with an API key; the
gateway withholds the worst-case price of the request from the user's balance,
tries the channels (upstream accounts) that serve the model, and settles the
withheld amount against the usage the provider reports. This directory models the
parts of it where an order of events nobody tested could lose money, charge for
nothing, generate twice, shut a channel out for ever, admit somebody who was
revoked, or tell a client something the provider did not say.

The models are written from the Go and SQL sources under `src/`; the docs were
read for what the code is meant to promise, never for what it does.

## 1. Inventory of the system

| Component | State it keeps | Operations | What makes it correct | Modules |
|---|---|---|---|---|
| Billing ledger (`internal/billing/postgres_ledger.go`, `db/*.sql`) | `users.balance`, `balance_version`, `enabled`; `billing_reservations`; append-only `billing_ledger`; `usage_logs` | Reserve, MarkInFlight, ReleaseAttempt, RecordConsumption, Finalize, Refund, Recover | Each hold is taken once, within the balance, and charged or refunded at most once; a consumption is never forgotten; the audit trail explains the balance | Ledger, Wallet |
| Ledger in memory (`memory_ledger.go`, `store/memory.go`) | balances, records | the same | The same contract | MemoryLedger, Wallet |
| Billing facade (`billing.go`) and pricing (`pricing.go`) | model policies | Reserve (worst case), Settle (cost of a usage report, retries) | The hold covers what exact usage can cost; doubtful usage never costs less than what was used; what is recorded belongs to the charge | Pricing, Gateway |
| Forwarder (`internal/forwarder`) | the locals of one request, the reader of its answer | normalisation, candidate loop, attempts, reading of an answer, event loop of a stream, settlement, deferred refund | No replay, no refund once a provider may have run the model; answers that match what happened; every permit resolved; records as they were sent; the priced limit in every body | Gateway, RequestBody, SSEReader, Relay |
| Circuit breaker (`internal/routing/breaker.go`) | state, failures, probes, generation | Allow, Ready, result methods of a permit | Late results never touch a later generation; probe slots neither leak nor multiply | BreakerRules, Breaker, Circuit |
| Router (`internal/routing/router.go`, `select.go`) | channel snapshot, map of breakers | UpdateChannels, Select | A reload keeps the breakers of the channels that stay; order by priority, exact shares by weight | Router, Selection |
| Administration (`internal/admin`) | tables of users, keys, channels | CRUD, policies, balance corrections, reload of the router | The router converges and never has a channel the configuration refuses; limits hold under concurrency | ChannelAdmin, Router, ApiKeys, Accounts, Ledger |
| Recovery worker, start and stop (`cmd/linapi/main.go`) | none beyond the run | start-up Recover, ticker of 30 s, reload ticker, first administrator, signals, Shutdown | Nothing stays `consumed_unsettled` or orphaned in `reserved`; instances do not stand in one another's way; an orderly stop leaves nothing half done | Gateway, Lifecycle, Startup, ChannelAdmin, Accounts |
| Migrations and channel keys (`internal/db/pool.go`, `admin/channel_key_migration.go`) | `schema_migrations`, channels | ApplySchema, VerifySchema, re-encryption | Every migration once and in order; drift is refused; no key in plain text once an instance serves | Startup |
| Sessions (`internal/session`, `middleware/session_auth.go`) | Redis sessions, index per account, `session_version` | login, logout, admission, revocation | Who was revoked is not admitted; the cap counts live sessions | Session |
| Accounts (`internal/account`, `server/auth_handlers.go`, `account_handlers.go`) | accounts, their billing users, settings | registration, creation, changes, first administrator | Account and user are made together; nobody inherits money; nothing is reset by a start | Accounts |
| API keys (`me_handlers.go`, `admin/postgres.go`, `middleware/auth.go`) | keys; gate on look-ups | create, change, delete, resolve | Cap per account; own keys only; slots of the gate come back | ApiKeys |
| Rate and login limits (`middleware/ratelimit.go`, `authlimit.go`) | token buckets in Redis | allow | No more requests than the bucket refills; an honest Retry-After | Limits |
| Protocol adapters (`internal/adapter`), canonical model | decoder and encoder of one stream | parse, build, decode, encode | Usage, termination, order and pairing survive the conversion | CanonicalStream, OpenAIStream, AnthropicStream, Relay, Messages |
| Target and output policies | the configuration | acceptance of channels; the output limit of a candidate; checks of addresses and headers | Accepted channels only; the limit in the field the provider obeys | ChannelAdmin, RequestBody |
| HTTP plumbing, configuration, Redis client, web console | none | formatting, validation | - | not modelled |

**How they interact.** The forwarder calls the router for candidates, a breaker
before and after each attempt, the billing facade for every change of money, and
the provider over HTTP. Facade and recovery worker call the ledger, which shares
its tables with the administration plane. Requests are goroutines; the breakers are
shared under a mutex, the tables under row locks; every ledger call but Reserve
runs under a context of its own with five seconds, so a client that hangs up does
not cut it off. Writes of the administration end with a reload of the router, which
a ticker repeats. Sessions live in Redis and point to an account row by id and
`session_version`, without a transaction over both.

**What is hard.** A commit whose acknowledgement is lost; a call upstream whose
outcome is unknown; a worker that acts on a list that has aged; a panic that runs
the deferred refund; a result that arrives after the breaker moved on; a client
that hangs up in the middle of a compensation or of a stream; a crash between any
two of these steps; rounding, overflow and missing parts of a usage report; a
statement whose snapshot is older than the lock it waited for; a table read, checked
and written in three steps; several instances that start, recover and stop at once;
bytes that arrive cut anywhere. `PROJECT.json`
lists these hazards with their lines and the properties that cover them.

## 2. Modules

```
Wallet  <== refined by == Ledger
   ^===== refined by ==== MemoryLedger
Circuit <== refined by == Breaker --> BreakerRules
                Gateway --> Ledger (INSTANCE), BreakerRules (INSTANCE)
                Lifecycle --> Ledger (INSTANCE)
CanonicalStream <-- OpenAIStream, AnthropicStream <-- Relay
Pricing  RequestBody  SSEReader  Messages
Router  Selection  ChannelAdmin  Startup  Session  Accounts  ApiKeys  Limits

Database = Ledger | MemoryLedger | Startup             <-- MCDatabase
Service  = Gateway | Lifecycle                         <-- MCService
Routing  = Breaker | Router | Selection | ChannelAdmin <-- MCRouting
Access   = Session | Accounts | ApiKeys | Limits       <-- MCAccess
Exchange = Relay | Messages | SSEReader | RequestBody  <-- MCRelay
Gateway | Pricing                                      =   MCShared
Gateway                                                <-- MCGateway

theorems:  Database <-- DatabaseProofs
           Service  <-- ServiceProofs     Routing <-- RoutingProofs
           Access   <-- AccessProofs      Pricing <-- PricingProofs
           Exchange <-- RelayProofs <-- ExchangeProofs <-- ContentProofs
```

`A <-- B` reads: B extends A. `Database`, `Service`, `Routing`, `Access` and `Exchange`
compose their parts (`A | B`) for any values of the constants of the parts; the MC modules
give them small values.

**Money**

* **Ledger** - each method of `PostgresLedger` is one action, because each is one
  transaction that takes the lock of its reservation row first (`SELECT ... FOR
  UPDATE`, or the `INSERT ... ON CONFLICT` itself) and holds it until it commits.
  The parameter `reply` is what the method returns; `"error"` covers a transaction
  that did nothing and one that committed without the caller learning of it. `row`
  is `billing_reservations`, `entries` is `billing_ledger`, `usage` is `usage_logs`,
  and `deposited` is a history variable. `stale` abstracts `updated_at` against the
  five minutes or 24 hours of its status. The token columns are represented by the
  cost they led to.
* **Wallet** - the contract behind the `Ledger` interface, with no tables,
  channels or retries: available balance, and the fate of each hold.
* **MemoryLedger** - the ledger of development mode. Each operation holds the
  ledger's mutex; `Recover` lists under it and then settles record by record, with
  requests in between. Here a reservation grows old by its creation.
* **Gateway** - `request[q]` holds the locals of `Forwarder.forward`, `at` is its
  program counter. One action per ledger transaction, breaker call and upstream
  exchange: `Select`, `Reserve`, `NextCandidate` (the head of the loop and `Allow`),
  `Prepare`, `Mark`, `Unmark`, `Send`, `Undial`, `Lost`, `Rejected`, `Body`,
  `Record`, `Finalize`, `Verdict` (the `switch` over the outcome) and `Return` (the
  deferred refund). `generated[q]` is a history variable: the channels whose
  provider ran the model. `forwardNonStream` and `forwardStream` share every step
  before the body. `Faults` names which faults of the environment happen.
* **Lifecycle** - several instances over one ledger. `process[i]` is where the `main` of
  an instance stands: down, starting (before the listing of `Recover`), recovering,
  serving, draining (`Shutdown`), closing (the deferred calls). `List` is the first
  transaction of `Recover`, of a start or of the worker, and `Recover` one `Finalize` or
  `Refund` after it. A request is its calls to the ledger; they go on until `main`
  returns, and `Crash` cuts them off. A supervisor starts what is down.
* **Pricing** - the price of a hold and of a usage report; one request is quoted,
  held and settled, and its consumption recorded, again if an acknowledgement was lost.
  `row` holds the token columns, `MaxCount` stands for the largest `int32`.

**Channels**

* **BreakerRules** - the transitions of a breaker as operators on a record, used by
  both Breaker and Gateway. **Breaker** adds callers with permits and the clock.
  **Circuit** is its promise without generation numbers: a change of state revokes
  every permit handed out before.
* **Router** - a reload lists the table, stores the snapshot and renews the breakers
  in three steps; `Select` loads the snapshot and looks the breakers up in two.
* **Selection** - groups of priorities and the weighted shuffle, with the chance of
  each next channel as an exact fraction.
* **ChannelAdmin** - which channels the policies accept, checked before a write, for
  the whole table at a reload, and for the enabled ones at a start, which may bring
  another configuration. `SetChannelEnabled` reads, checks and writes in three steps.

**Data and access**

* **Startup** - the advisory lock, the core schema, one transaction per migration,
  verification, re-encryption of channel keys and the constraint, for instances of
  several versions of which some are still writing plain keys. Statements after
  `pg_advisory_lock` have snapshots of their own and see what the lock waited for.
* **Session** - session keys and sorted-set index with their separate expiry, the
  creating and the deleting script as one step each; login, request and logout as one
  step per call to Redis or the database.
* **Accounts** - registrations, the console, the administration and starts, on
  PostgreSQL (a conflicting insert waits for the other transaction's end) or in memory.
* **ApiKeys** - `CreateAPIKeyLimited` with the snapshot its statement began with (READ
  COMMITTED), the handlers that look a key up before they change it, and the gate.
* **Limits** - the script of the token bucket and the two middlewares, in parts of a
  token so that refilling is exact. The clock of Redis is taken to be monotone.

**Requests and answers**

* **RequestBody** - the fields of a request that matter for money: limits, stream, usage,
  number of choices, names in another case. `Accept` is `forward` up to the hold,
  `Attempt` the making of a body for one candidate; any candidates follow one another.
* **SSEReader** - the bytes of an answer, `idleReadCloser` and the buffer over it, and
  `sseReader` byte by byte; `readAtMost` for an answer that is not a stream. A byte of
  text is known by its place, so that nothing can be lost or moved unseen.
* **CanonicalStream**, **OpenAIStream**, **AnthropicStream** - the canonical events and
  the decoder and encoder of each format; texts and arguments are their presence,
  tokens are small integers.
* **Relay** - the loop of `forwardStream` between a provider, which says anything a
  record may say, and a client, which may hang up. What the provider did and what the
  client saw are history variables.
* **Messages** - conversations for a channel of the other format and whole answers, parsed
  into blocks and built anew. A text is a sequence of words, so that joining texts is
  visible. For a channel of the client's own format the body is never rebuilt, at most its
  model and limits are patched (`nonstream.go:35-41`): that is `RequestBody`.

The compositions put modules that share no variable side by side: the variable `part`
says which of them is at work in a behaviour, the others rest in one initial state.
Nothing is lost by that, as they could not influence one another: `PartsBehave` in the
proof modules (in `ExchangeProofs`, `StreamRests` and its like) says that a behaviour of
the composition is one of each part, so that what is proved of a part holds of the
composition. `MCShared` does the same for parts whose constants it fixes itself.

## 3. What is checked

| Run | Instance | What it shows |
|---|---|---|
| `database` | Ledger: 2 users, 2 reservations, 2 channels, a cost of 0, within and beyond the hold, corrections up to version 2. MemoryLedger: 1 user, 2 reservations, 1 correction. Startup: two instances of one version, one of the next, one with a rewritten migration, 1 crash | Any calls in any order, repeated, cut off or unacknowledged, keep money, audit trail and usage log consistent (`Reconciled`, `AuditChain`, `MoneyConserved`, `ConsumptionIsFinal`) and implement the wallet, on both stores (`ImplementsWallet`, `MemoryImplementsWallet`, `RecoverComplete`); migrations run once and in order and before anybody serves on them, and no key stays plain (`SchemaKept`) |
| `routing` | Breaker: 3 callers, 2 slots, threshold 2, 5 generations. Router: 1 channel that comes and goes, 2 handlers, the timer, 2 requests. Selection: up to 3 channels, 2 priorities, weights 0, 1, 3. ChannelAdmin: 2 channels, 2 handlers, a wide and a narrow configuration, a restart | Late results are harmless and nothing is refused for ever (`ImplementsCircuit`, `KeepsServing`; the count of the probes is in `BreakersKept`); concurrent reloads neither lose nor split a breaker (`BreakersKept`) and converge (`RoutesFollow`); each channel is offered once, by priority and with its share (`OfferedInOrder`); the router has only accepted channels, and in the end all of them (`RoutesFollow`) |
| `gateway` | Gateway: 1 request, 2 channels, every fault at every step, 1 crash, fairness. Lifecycle: 2 instances, 2 holds, one of them a consumption left from before, 1 stop, 1 crash, fairness | `NoFreeGeneration`, `OneGeneration`, `ChargedForService`, `HonestAnswers`; `Concluded`: a request ends, and no hold stays reserved or consumed_unsettled. `InstancesSound`: what was sent is never given back whoever recovers, an orderly stop leaves nothing half done, an instance serves only after what its start found is finished; `StartsAndStops`: every instance is back in service in the end although a start dies of any error, and what dead requests left is settled or given back |
| `gateway_shared` | Gateway: 2 requests of a user, 2 channels, money for one hold at a time, hang-ups anywhere. Pricing: prices 0, 1, 3 per 2 tokens, limits 1 and 3, up to 2 tokens per kind, largest cost 14, largest count 3 | `GivesBack`: every way an attempt ends gives its slot back, and the hold ends as the request's flags say. Rounding, overflow, cache prices and every subset of reported parts: `ChargeSound`, `ExactSettles`; `CountsExact`: what is recorded is what was charged, fits its columns and is not refused for being repeated |
| `relay` | Relay: both formats of provider and client, converted or passed through, answers of 2 tokens, 1 of 2 input tokens cached, which a provider of OpenAI's format tells always or never. Messages: 3 messages of OpenAI's, 2 of Anthropic's with 2 blocks. SSEReader: answers of up to 5 bytes, records of up to 2. RequestBody: limits of none, 0, 1 and 3 where the model has 2, each field under each name, both formats, any policies, strict or not | Exact settlement only at the true counts (`ExactIsTrue`), no blame on a flawless channel (`FlawlessNotBlamed`), a well-formed and whole answer (`ToldWhole`); conversations keep order, calls and results (`ConversationKept`); records are cut where the provider cut them and nothing that came is lost (`FramingKept`); every provider is told the limit of the hold in the field it obeys (`BodySound`) |
| `access` | Session: 2 clients, 3 sessions, cap 2, lives of 1 and 2 ticks. Accounts: 2 handlers or starts, 1 name, 1 bcrypt slot. ApiKeys: 2 users, 3 keys, cap 1, 1 slot of the gate. Limits: buckets of 2 and 1 in a minute of 3 ticks | The cap counts the live sessions and logouts hold (`SessionsTrue`), nobody is admitted who was revoked before and the cap turns away only when full (`AnswersCurrent`), accounts and their users are made together and nothing is reset (`AccountsSound`), keys keep their cap up to the gap of finding 4, their owners and the gate (`KeysSound`), rates hold and Retry-After is enough (`LimitsHonest`) |
| `pricing_total`, `gateway_panic`, `session_cap`, `apikeys_cap`, `channel_admin_stuck`, `sse_oversize` | the same instances, or smaller ones | the findings of section 4, one violated property each |

The type invariants of a bundle are one (`TypesOK`), and so are properties that answer
one question: `SessionsTrue` is `IndexCovers`, `ActiveCap` and `LogoutFinal`, and so on,
each named and explained in its module: `GivesBack` is `EndsClean` and `ProbesReturned`,
`ChargeSound` is `NeverUndercharged` and `DoubtCostsTheHold`, `BreakersKept` includes the
breaker's `ProbeAccounting`, `RoutesFollow` the router's `Converges`, `SchemaKept` the
start's `NoPlainServed`. Every part of them has a mutant in
`PROJECT.json`: a plausible bug in a mapped definition under which TLC finds the
property violated.

**Why the bounds are enough.** The ledger's transactions touch one reservation and
one user's balance, so two reservations, of the same or of different users, show
every interference through the shared balance and the version numbers; amounts and
costs are chosen below, at zero and beyond the hold. A breaker with two slots and
three callers has probes running, returning and late at once, and five generations
allow two trips and recoveries. One request meets every fault in every step because
reservations do not interact except through balance and breaker; these have runs of
their own, with two requests in `gateway_shared` and three callers in `routing`.
`Recorders` is 2 (3 in the code) in the run with a failing database: a first try, and
one that follows it. The prices make the division round, make cache tokens dearer or
cheaper than input and output, and make the largest integer reachable. Two handlers and
a timer are the smallest number of writers that can overtake one another and still be
overtaken. Three tokens and a cap of two reach a full
index of which some have expired. Two instances are one that recovers and one that is in
its way; with a hold that is left over and one that is taken, every status of a row meets
a start. Five bytes are a mark or a text, a line end of two bytes that is cut in the
middle, and a record behind it, and a record of two bytes is full, too large by a line
feed, or too large by itself. Three messages are a call, its result and what comes
between. In `relay` an OpenAI provider tells its cached tokens always or never (`Details`);
section 4 says what the code does with one that tells them now and then. Counters that only bound a run (`MaxWrites`, `MaxVersion`, `MaxTime`,
`MaxCrashes`, `MaxFailures`, `MaxGrants`...) are named as bounds where they are declared.

**Fairness.** In Gateway, `gateway` assumes that a request's own steps go on (every call it
waits for has a timeout: five seconds for a transaction, 120 s for an exchange, two
minutes of silence in a stream), that the worker's timer fires and time passes, and
that a transaction the worker asks for again and again commits in the end (strong
fairness on its successful reply). Providers, clients and crashes owe nothing. In
Lifecycle it assumes that a supervisor starts what is down, that `main` comes to its next
step (the 30 seconds of `Shutdown` included), that the recovery's listing and its
transactions succeed if they are tried again and again, and that thresholds pass;
requests owe nothing, so that `Overdue` is what ends a stop.
`routing` assumes that a cooldown ends and that an attempt reports in the end, which
is what `gateway_shared` checks of the forwarder; that the ticker of reloads fires and a
reload that began goes on, with finitely many that cannot read the table; and that
handlers end. The other runs check safety only.

## 4. Findings

1. **A total alone can be priced above the hold** (`pricing_total`).
   `ConservativeTotalCost` uses the dearest of all prices for every token, the hold
   prices input tokens at the dearest *input* price only. With an output price above
   the input price, honest usage within both limits may cost more than the hold;
   `Settle` then refuses before recording anything and the hold stays `in_flight`,
   which `Recover` only reports. `docs/modules.md:265` says such usage is settled
   conservatively.
2. **A panic during a probe shuts the channel out** (`gateway_panic`). `forward`
   calls the permit's result methods after the attempt, not in a `defer`; a panic in
   the attempt of a half-open breaker keeps its slot for ever, against the contract
   in the comment of `Allow` (`breaker.go:100`).
3. **Revoked sessions fill the cap** (`session_cap`). A new password revokes the
   sessions of an account but leaves them in the index that the login script counts:
   the login is told to log out other devices although none of them is logged in; only a
   request that presents a revoked cookie once more frees its slot.
4. **The cap on keys can be passed** (`apikeys_cap`). The statement counts with the
   snapshot it began with, also when it waited for the advisory lock inside it.
5. **A refused channel keeps every change from the router** (`channel_admin_stuck`). A
   reload validates the disabled channels as well, a start does not: after a start with
   a narrower configuration, one disabled channel makes every reload fail.
6. **An oversized record is not always refused** (`sse_oversize`). `readLine` returns
   `errSSERecordTooLarge` for a line that is too long by itself, but if another line of
   the record came before it, `Next` returns that line as a record and keeps no error: the
   next call reads on in the middle of the long line (`upstream.go:234-240`). The pieces
   decode as pings, the event is skipped, and the stream can end as a success; the test
   at `channels_test.go:174` has a record of one line. `Misread` keeps this case out of
   `FramingKept`.

Met while modelling, and not kept as runs:

* A stream converted from OpenAI to Anthropic whose input usage comes after
  `message_start` is settled exactly (`stream.go:294-304`); `docs/modules.md:54` says it
  keeps the hold.
* A usage may come with the finish reason and again in a last chunk (`stream.go:306-308`).
  If only one of the two has `prompt_tokens_details`, `accumulateUsage` takes the larger
  number of each dimension (`stream.go:352-390`): the whole prompt as input, and the cached
  tokens besides. Without totals in the reports the stream is settled exactly with both,
  although `docs/architecture.md:88` charges each part at its own rate; with totals the sum
  contradicts them, and the stream is inexact and held against its channel although every
  report was true. `Consistent` is the precondition that leaves such a provider out of
  `ExactIsTrue`, `FlawlessNotBlamed` and the numbers in `ToldWhole`. With
  `Details = {{FALSE, TRUE}}`, and without the precondition, TLC needs three records to refute
  `ExactIsTrue`: for example a finish with the usage of a prompt of 2 and nothing of the cache, a tail
  that repeats it with 1 cached, and `[DONE]` are settled as 3 input tokens.
* Two handlers may install their lists in the wrong order, so that a write answered as
  done takes effect only at the timer's next turn (`service.go:44-59` against
  `docs/architecture.md:132`); `Converges` is what holds.
* `SetChannelEnabled` checks what it read and enables by id: a change in between may
  leave an enabled channel without output limits, which the next start refuses
  (`service.go:117-133`).
* A report whose total contradicts its parts and is beyond `int32` is charged the whole
  hold, but `consumptionParams` refuses to record it (`postgres_ledger.go:437`): on
  PostgreSQL the hold stays `in_flight`, in memory it is settled, and
  `docs/modules.md:265` promises settlement. `CountsExact` allows a refusal only where
  the report is wrong or the model's own limits do not fit the columns.
* From Anthropic to OpenAI, the text of a user's message comes before the results of
  tools it stood behind; an assistant's message of thinking only becomes empty; images
  and the error flag of a tool's result are lost; a block of unknown type loses its type;
  `content_filter` becomes `end_turn`. `ToolsPaired` in `Messages` states what is kept.

## 5. What is proved

Every theorem is one of a specification, for all values of its constants. `Ledger`,
`Breaker` and `Gateway` state what they need of them as named assumptions: amounts are
positive, costs and opening balances natural numbers, the null values are not members of
the sets; the threshold and the number of probes are positive (`NewBreaker` sees to it),
and the sets of callers, requests and channels are finite, which in Gateway only
`AttemptsGiveBack` and `ServiceTypes` need. `Relay` assumes that the true counts fit the largest integer, that
there is a prompt, and that the null value is neither a number nor a kind of block. It lets
an OpenAI provider tell its cached tokens as it likes (`Details`); a property that needs a
consistent one says so (`Consistent`). The other modules define it as `ConstantsOK`, which is the
hypothesis of their theorems, and the MC modules let TLC confirm it of the constants of
the runs. Most ask for no more than finite sets of clients and positive caps, `Selection` for finitely
many channels with integer priorities and weights. `Startup`
asks that a release knows finitely many migrations, and that one that knows all migrations
of another, as it knows them, has only higher versions besides: `ApplySchema` would run a
lower one late. `Lifecycle` asks that what earlier instances left belongs to holds, of which
there are finitely many; `Router`, `ChannelAdmin` and `Messages` need nothing. The bounds on time,
grants, crashes and corrections are constants like the others, so that the theorems hold
whatever they are.

A property of a composition follows from those of its parts: `PartsBehave` shows that a
behaviour of the composition is a behaviour of each part, as a step of one leaves the
variables of the others alone (`PartsStep`), and the theorem of the part is instantiated.

**Ledger** (`DatabaseProofs`)

* `LedgerTypes`: TypeOK and CostWithinHold. The latter is part of the inductive
  invariant because refunds and settlements post `amount` and `amount - cost` to the
  user named in the row, which must be a user.
* `LedgerConsumptionIsFinal`: each step keeps the recorded facts and final states.
* `LedgerReconciled`: postings and usage logs of a reservation are those of its
  status. Inductive with the types: each commit adds one entry for its own row, and
  the uniqueness of `(reservation_id, kind)` follows from the invariant.
* `LedgerAuditChain`: a new entry takes the version after the current one, which no
  entry has yet, so entries never collide and the last one carries the balance.
* `LedgerConserves`: a balance is what was paid in, less the sum of what is withheld and
  charged. The sum is `MapThenSumSet`, which chooses a function on the subsets; that one
  exists (`SumsExist`) and that the order of summing does not matter (`SumsUnique`) follows
  from a minimal counterexample in the ordering of strict subsets, and then that one more
  member, or another weight of one, changes the sum by just that. `MoneyInv` adds that
  a user owns finitely many reservations (a step adds at most one) and that an absent one
  has no owner, so the set of identifiers may be infinite.
* `LedgerImplementsWallet`: initial states map to initial states and each
  transaction maps to a step of `Wallet` or to a stutter (marking and releasing an
  attempt are invisible in the wallet).

**Ledger in memory** (`DatabaseProofs`)

* `MemoryRecovers`: when `Recover` returns nil, all it listed is settled or refunded. The
  invariant follows each listed reservation: it is still to be settled, still to be
  refunded, or at its end, which no operation takes it back from (`RecoveryOK`), beside
  what a record of each status holds (`RecordOK`).
* `MemoryKeepsContract`: each operation maps to a step of `Wallet` or to a stutter. A
  cost beyond the hold is recorded but never owed: the wallet still holds the money.
* The same sum over reservations as in PostgreSQL (`MemoryMoney`).

**Start-up** (`DatabaseProofs`)

* `SchemaIsKept`, from `StartInv`: who holds the lock has read what is recorded
  (`ReadIsCurrent`), as nobody else writes under it; what is recorded is what
  some one release knows (`OfOneRelease`); whoever is past the migrations has its own
  recorded (`MigratedHasAll`) and the constraint in force, which rejects new plain keys
  (`Constrained`); so the list an instance encrypts covers all that is plain
  (`PlanCovers`), and nothing is plain behind it. Order follows from the rank of each
  version among the missing ones, which counts those below it (`EveryRank`).

The composition: `DatabaseTypes`, `DatabaseMoney`, `DatabaseRecovers`, `DatabaseSchema`,
`DatabaseWallets`.

**Gateway** (`ServiceProofs`)

* `NothingForFree`, `NeverReplayed`, `OnlyServiceCharged`, `AnswersAreHonest`, all from
  one invariant, `Consistent`, that relates for each request where it stands, its row, and
  the channels that may have run the model for it. None of the four is inductive, as they
  do not say why the loop may go on: `Consistent` adds that nothing ran up to `send`, that
  from then on the row is in flight under the channel being asked, and that an attempt
  said to have consumed nothing left its row a hold. Of the ledger only what a
  transaction does to a row's status and channel is used (`LedgerMark`, `LedgerRelease`,
  ...); `OneRequest` is the frame: a step of one request leaves the others alone. Faults,
  panics, crashes, the worker and time need no hypotheses.
* `AttemptsGiveBack`: `ProbesReturned` and `EndsClean`, each as far as the faults it
  allows. `SlotsInv` says that an attempt holds a permit of its channel, of a generation
  the breaker has reached, and has an outcome once it is judged, so that `Verdict` takes
  exactly its own slot out of the count (`RecordedPaired`) and a new generation has
  nobody else in it (`AdmittedPaired`). `CleanInv` gives for each place of a request the one
  status its row has when the database answers; after the attempt it is what the outcome
  says (`Left`), and this is what the deferred refund acts on. It also says that the
  worker refunds only holds of requests that are over: without it, a stale list could
  take the hold from under a request.

**Instances** (`ServiceProofs`)

* `InstancesAreSound`, from `LifeInv`: where a handler stands says what its row may be
  (`HandlerInv`), so that what was sent is in flight or beyond and recovery only settles it;
  what a start found is still on its lists, or final, or the start has failed
  (`ProcessInv`); a process that is closing after an orderly stop has no handler at work. What
  is final stays so (`FinalStays`), which carries what one instance knows over the
  steps of the others.

The composition: `ServiceTypes`. The types of both ledgers are proved of their tables as
values (`TablesOK`, `TablesWritten`), once for any users, reservations and channels, and
are inductive only with the rows that are placed: a refund posts the amount of a row to
the account of its user. The locals of a request are typed where the code relies on them
(`LocalOK`): an attempt has a channel, a request that reserves has a user, and what is
judged has an outcome, without which the breaker's transition would not be defined.

**Breaker and routes** (`RoutingProofs`)

* `BreakerCountsProbes`: the slots given out are those of the permits of the current
  generation. Inductive with `NoPermitFromTheFuture`: a change of state begins a
  generation that nobody has a permit of yet.
* `BreakerImplementsCircuit`: comparing generations has the effect of revoking permits.
* `RouterKeepsBreakers`: `RouterInv` adds that the breaker of a channel was once made, and
  that what a selection holds is the present breaker unless its channel went in between.
* `RoutesAreAccepted`: `PolicyInv` adds that nobody is between check and write once a start
  was refused, and that what a reload installs was accepted as a whole.

* `ChannelsInOrder`, from `OrderInv`: each channel is in one place, once; the group that is
  shuffled has one priority, above those to come and not above what is out. What the
  loops compute is known by induction: `Counting` is the induction over the numbers up to
  some n, for a set, itself from a minimal counterexample; `Iterates` says that what is
  computed step by step exists. So a group has the channels of its priority (`Grouped`)
  and the accumulated weights grow by each weight (`Sums`); the points between two of them
  are those that pick a channel (`Picked`), and there are as many as its weight.

The composition: `RoutingKeepsBreakers`, `RoutingOffersInOrder`, `RoutingTypes`.

**Sessions and accounts** (`AccessProofs`)

* `SessionsSound`: the index alone is not inductive. `RedisInv` says that a live session
  stands in its account's index with its own end and that an unexpired index names
  live sessions only, so that pruning leaves exactly these (`PrunedIsLive`) and the cap
  counts them; `SessionInv` adds that what a session remembers is no newer than the
  account's version and true of the account if it is of the same one (`Honest`), as every change takes a new version.
* `AccountsAreSound`: `Reserved` ties a transaction in progress to the name it reserved,
  `SlotsSound` the semaphore to the requests that hash.

**Keys and limits** (`AccessProofs`)

* `KeysAreSound`: `PromisesKept` counts the keys a user has made together with those that
  statements under way may still make from the count they began with: at most the cap and
  one for every other client. `LocksSound` lets one statement at a time insert.
* `LimitsKept`. That a span grants at most the capacity and what it refills is not
  inductive; what is: the grants since the i-th and what is left in the bucket now
  are together at most the capacity and the refill since then (`SpanOK`). A bucket that is
  forgotten would have been full by then, so it gains nothing. `RetryHonest` follows from
  the division that rounds up.

The composition: `AccessTypes`, `AccessSessions`, `AccessAccounts`, `AccessKeys`.

**Pricing** (`PricingProofs`)

* `ChargesSound`, `ExactUsageSettles`: from lemmas on the division that rounds up, on
  sums that may overflow, and on the dearest price; then over the phases of a request.
  `Held` says what a hold covers, `Settled` that the cost is that of the report.
* `CountsTrue`: `Recorded` says that a row is the consumption of the report and fits.

**Streams** (`RelayProofs`, `ExchangeProofs`)

* `StreamsSettledTruly`: `ExactIsTrue` and `FlawlessNotBlamed`, for any prompt, any number of
  tokens and either provider that gives its cached tokens apart in every report or in none
  (`Consistent`; section 4 has one that does not). Neither is inductive: they speak of the outcome only. What
  holds of the loop between two records is in `RelayInv`, along four lines.
    * Usages. What has been accumulated is `Sound`: either `Honest`, nothing but the truth, or
      `Spoiled`, numbers from which nothing can be settled any more; a report moves it from
      the first to the second and never back, as a maximum of each dimension is taken and a
      negative number is kept (`MergeSound`). `ReadyIs` and `ReadyIf` say when
      `usageReadyForExactSettlement` accepts, for every combination of what is known and on
      both sides of an overflow.
    * The loop. What is final and not in doubt is `TrueAt` the tokens generated so far, since
      anything generated after it puts it in doubt (`NumbersInv`), and a flawless stream that
      told its numbers has finished (`FlawlessInv`).
    * The decoders. Every record they accept becomes contents and at most one event with
      numbers, at the end. For OpenAI this needs that nothing is open once the provider has
      finished (`Closed`), so that the end of the stream says nothing but the end.
    * The end. `ExactSettlement` and `FlawlessSettles` turn these numbers into an outcome.

* `StreamsToldWhole`: `ToldWhole`, for the same values and either client. It speaks of the
  client only, and decoder, encoder and parser never meet; what relates them is the stream
  itself, of which each sees a part. `StreamOK` is such a stream of events, apart from both
  formats: whether it has begun and ended, the kinds of its blocks and which of them are open,
  the deltas its client can see, the usage added up and the usage on the wire. `Takes` is
  what an event does to it, `Fits` when an event may come next, `Heard` a sequence of events
  that fit one after the other. The argument goes from there in both directions.
    * From the provider. Whatever it says becomes events that fit (`RecordTaken`). The state of
      the OpenAI decoder mirrors the stream: its open blocks are those of the stream, each a
      text or a call of its own (`Mirrors`), so that every delta finds its block open, each
      block is stopped once, and nothing is open at the end. The Anthropic decoder keeps the
      kinds of the blocks and the provider is in the one that is open (`InBlock`). `Pictured`
      joins them.
    * To the client. Of a stream whose events fit, encoder and parser come to the same picture
      (`Shown`): an Anthropic client has the same blocks open and done; an OpenAI client has
      seen as many calls as the encoder numbered, each with a place of its own, and no usage
      but that on the wire. One event that fits is told in records the parser accepts, and so
      are all (`RecordTold`).
    * The numbers. A flawless, consistent provider is honest in every report, and its final one is true, the last
      to be added and the only one that is sent (`Numbers`); the numbers that are settled are the same.

  `ToldInv` joins the three while the stream is under way, and `RelayInv` says what its end
  is. A stream that ended otherwise than in success was told correctly as far as it went.

`CheckedSum`, `TrackAll`, `EncodeAll`, `See` and the handling of calls and of open blocks are recursive
functions over a sequence, reasoned about with the induction over an interval (`Counting`,
`Iterates`).

**Reader** (`ContentProofs`)

* `FramesKept`: `FramingKept`, for any bytes, any record size and any way in which they arrive,
  are fetched and stop. The property speaks of the feed as a whole, the code sees a byte at a
  time; `FramesInv` says how far it is.
    * While it reads (`Reading`) there is a place, the last end of a line that was taken, up to
      which every byte of text is told or held (`HeldOK`): what is told is over, as an empty line
      came behind it, and what is held goes on, as none did. The line under way is what came
      after that place (`LineAt`), and a line feed behind a carriage return was taken with it.
      When the stream has stopped and the rest was told, nothing is held (`Drained`).
    * A line is a stretch of text without a gap, a record is lines with an end of a line and no
      end of a record between each two (`RecordOK`), and between two records is such an end
      (`OutOK`). That what is told is ascending and cut like the feed follows (`RecordsAre`).
    * A line end takes the line to what is held, or what is held to what is told (`LineEnded`),
      ReadByte, PeekLF, ReadError and Read each use it once.
    * A record is refused only if it is too large: the bytes of its lines are so many different
      bytes of the feed in one record (`TooLargeIs`), or the line under way is (`LongLineIs`). A
      long line behind another line of its record is told in pieces, which `FramingKept`
      leaves aside and finding 6 reports (`Misread`).

  `FlattenSeq` of the community modules is a recursive function too: `JoinedIs` (in
  `ExchangeProofs`) says what it comes to, and the lemmas after it what is in it, and in which
  order.

**Conversations** (`ExchangeProofs` for OpenAI's messages, `ContentProofs`)

* `ConversationsKept`: `ConversationKept`, for any words and calls and conversations of any
  length, from each format to the other, and for answers. Nothing in it changes once something is told, so the invariant
  (`ConversationInv`) is that a client may say what it has said (`MayBeSaid`) until then, and
  the property after; the work is in what the conversion makes of a whole conversation.
    * Each operator that goes through a sequence makes something of every member and puts it
      together: `Mapped` is that, of a function with known domain and values (`Makes`), and
      its lemmas say what it comes to for two parts (`MappedBoth`), one more (`MappedMore`),
      one after another (`MappedTwice`), all kept (`MappedItself`) and none (`MappedNone`).
    * From OpenAI, messages are parsed one after the other, and a tool's result changes the
      message before it. `ParsedIs` says that a message is either added, and is found where it
      belongs, or extends the user's last one at its end; either way what is built of the whole
      is what was said, and more is found in the conversation by as much (`Faithful`). This is
      kept by every message (`RequestsFaithful`). Instructions are read apart from the
      conversation; that this is the order in which they were said needs
      `InstructionsInOrder`, and where that fails the two messages that break it are known.
    * From Anthropic, a message is parsed block by block (`BlockIs`), which loses only what the
      canonical model does not know. Built for OpenAI, a message says what it says
      first and returns results after (`UserRebuilt`, `AssistantRebuilt`), so that the order
      within a message is lost; what remains is the order among what is said and among what is
      called and returned. A `Sieve` takes none of the one or none of the other, and takes the
      same from what was meant and what is received (`RequestSieved`, `RebuiltSieved`); `Only` and
      `About` are such sieves (`SievesAre`).
    * An answer is parsed to blocks with its words and its calls (`AnswerParsed`), which are
      found in what is built of them (`AnswerBuilt`, `FinishTold`).

**Request body** (`ExchangeProofs`)

* `BodiesSound`: an accepted request keeps, whichever candidates followed, the limit of its
  hold and nothing but what the client said besides (`BodyKept` in `BodyInv`); `Normalized`
  and `Patched` set the field that is obeyed and remove the other.

The composition: `ExchangeTypes`, with the types of the reader (`ReaderInv`), and that a
client has seen nothing of an answer that is not committed (`SeenCommitted`), which is what
allows another candidate to be tried.

Only model-checked: every liveness property (`Concluded`, `StartsAndStops`, `KeepsServing`,
`RoutesFollow`), and so is the fairness they need. Every invariant that a passing run checks is
proved.

## 6. Not modelled, and why

Parsing and validation of the configuration, connection options, body and header
limits, CSRF tokens, error bodies, metrics and logging keep no state that matters here. Of
the target policies only their acceptance of channels is modelled; addresses and headers
are checked without state. Sampling parameters, tool definitions and image sources are
converted field by field and left out of `Messages`. Non-strict pricing and its fallback
policy exist for debugging. Hashing, tokens and the encryption envelope are cryptography: a
token or a key is a model value. The store in memory keeps two indexes of its keys, by id
and by hash, which `ApiKeys` represents by one set. Listings and usage statistics only read.
The web console is a browser front end.

## 7. Plan

Done: `Wallet`, `Ledger` with proofs and refinement; `Circuit`, `BreakerRules`,
`Breaker`; `Gateway`, `Lifecycle`; `Pricing` with the token columns; `RequestBody`;
`SSEReader`, the stream modules and `Relay`; `Messages`; `Router`,
`Selection`, `ChannelAdmin`; `Session`, `Accounts`, `ApiKeys`, `Limits`; `Startup`;
`MemoryLedger`.

Left to model, in order:

1. Price policies: the lenient pricing with its fallback policy.
2. The two indexes of keys of the store in memory, and its listings.

Left to prove: that part of each liveness property which is safety, and its variant, once a
prover for it is at hand; the invariants and the action properties are done.
