# Verification of the web3 event platform

TLA+ models of the parts of the platform whose correctness depends on what
happens between two steps, the TLC runs that check them on small instances, and
TLAPS proofs of their main properties for every instance.

## The system

| Part | State | Operations | Interacts with |
|---|---|---|---|
| `chainmonitor` (`internal/chainmonitor`, `cmd/chainmonitor`) | tables `blocks`, `transfers`; the locals of one `Sync` | `Sync` on every tick: validate the tip, index the new blocks, roll back, promote; boot | EVM node (RPC), Postgres, NATS |
| rate limiters (`internal/gateway/ratelimit*.go`) | token buckets in memory; one Redis counter per client and window | `Allow` | clock, Redis |
| `gateway` | registered clients | issue a token; rate-limit, verify, forward | limiters, `user`, `wallet`, `margin` |
| `user` | users, unique e-mail | register, get, list | Postgres, NATS |
| `wallet` | keystore, creation times in memory | create, list | file system, NATS |
| `margin` | none | evaluate an account | EVM node, price feeds |
| `notification` | subscriptions | handle an event | NATS |
| `pkg/events`, `pkg/server`, `pkg/auth`, `pkg/httpx` | connection, server, key | publish, subscribe, drain; serve, shut down; issue, verify | all of the above |

What is hard about it: the chain reorganises between any two calls of one
`Sync`; the head that decides confirmation is read long before it is used; a
fork is undone one block per tick, across restarts; store and bus are not
atomic with each other; the limiters' replicas share a counter through two
separate Redis commands; replicas of `user` race for one e-mail and share a
bounded pool; a request's identity crosses three processes; an event passes two
buffers, a broker that keeps nothing and a bounded queue; `margin` adds up values
read at different moments. `PROJECT.json` lists these hazards line by line with
the properties that cover them.

What correctness means: the index is always one linked run of headers; what is
marked confirmed is final, canonical and never deleted; the events allow a
subscriber to rebuild the index; the index ends up on the canonical chain; a
limiter neither exceeds its bound nor denies without cause; `user` behaves like
one atomic directory; what a service executes was authorised; an event is handled
once and in order, or lost for a known reason; a margin report agrees with values
that were on chain and with itself.

## Modules

* `EvmNode` — the node, external. `canon` is its canonical chain over a tree of
  blocks given by `Parent`; `Grow` extends it, `Reorg` switches to any fork, also
  a shorter one, that keeps the blocks up to `final`. `FinalityDepth` is a
  property of the chain and independent of the monitor's configuration.
* `IndexStore` — `PostgresStore`. `blocks[n]` is the hash in the row `n`, and
  `transfers` the rows, with their key, block and `confirmed` column. The unique
  key and the cascade are in `SaveBlock` and `DeleteFrom`.
* `ChainMonitor` — extends both. `pc` is the call `Sync` makes next: `last`
  (`LastBlock`), `tip` (the canonical header at the tip), `next` (the header at
  `n`), `parent` (`BlockByNumber`), `logs`, `save`, then the events `block` and
  `announce`; `confirm`; `rollback` and its event `reorg`. Every error path
  returns to `idle`, where `Run` waits for the next tick. `CallFails` is an error
  without effect, `CommitUnanswered` a commit whose answer is lost, `LoseEvent`
  an event that does not arrive (publish errors are discarded; an event lost in
  the NATS buffer counts too), `Crash` the end of the process anywhere. A log is
  its `(tx_hash, log_index)`; `Transfer` is the set of logs that `decode` accepts.
* `TokenBucket` — `RateLimiter.Allow`, atomic because of its mutex, in exact
  arithmetic (the code uses `float64`).
* `RedisLimiter` — `RedisRateLimiter.Allow` of the requests of one client on any
  number of replicas: reading the clock, `INCR` and `EXPIRE` are separate steps. An
  attempt at a command may stay unanswered, and Redis may have executed it, execute
  it later (`LateIncr`, `LateExpire`) or never; go-redis then sends it again, up to
  `MaxRetries` times (`Retry`), before `Allow` sees an error and lets the request
  through (`IncrFails`) or ignores it (`ExpireFails`). Replicas die. `faults` counts
  the unanswered attempts of each window. All replicas read the same clock; clock
  skew is not modelled.
* `ChainIndex` — what the monitor promises to a reader of its tables: a linked
  chain that is extended by a child of its top, cut above what is confirmed, or
  promoted from below. `ChainMonitor` implements it (`ImplementsIndex`), with
  `blocks` and `transfers` mapped to themselves.
* `TwoMonitors` — two instances of `ChainMonitor` with their own locals over one
  node and one database, as during a rolling update.
* `UserService` — the handlers of `/users`. A request is a goroutine: it waits for
  a connection of its replica's pool (`Acquire`), runs one statement (`Create`,
  `Get`, `List`; the unique key is `Taken`), and a registration then publishes and
  answers. `durable` says which store `selectStore` chose: Postgres with any number
  of replicas, or `MemStore` in one process. `StatementFails`, `CommitUnanswered`,
  `LoseEvent` and `Crash` are the faults.
* `Registry` — the same service as one atomic directory; `UserService` implements
  it (`ImplementsRegistry`).
* `Gateway` — a request through `Logger`, `Recovery`, `authed`, the proxy and
  `RequireRole`, composed with an instance of `TokenBucket` keyed by `clientIP`.
  `sent` is the status written to the client, `status` the one `statusWriter`
  remembers.
  The clock is finer than a second, because `NewNumericDate` cuts the expiry to
  seconds. An address is a sequence of parts with its colons, because `clientIP`
  cuts at the first one. The proxy's panic when the service dies under it is
  `Recovery`.
* `EventBus` — `NATSBus`: `Publish` fills a buffer, `Flush` writes it out and
  passes through the broker, each subject has a queue of at most `MaxPending`,
  `Deliver` is its callback. An `Outage` ends the connections: of what was buffered,
  any part from the front is lost. `published`, `handled` and `lost` record every
  event's fate.
* `WalletEvents` — `wallet.Service`, `server.Run` around it, and
  `notification.Consumer`, over `EventBus`. `Create` is `NewAccount` (which may fail
  and answer 500), `Record` (the
  creation time and the event, one step: a crash between the two loses what a crash
  before them loses) and `Respond`; `List` reads the accounts and then
  one time after the other. `Signal`, `Shutdown` and `Exit` are the graceful end,
  `Crash` the other one. The keystore outlives the process: `docker-compose.yml`
  gives it a volume. The chain monitor stands for any other publisher. Two of
  the six subjects are modelled, in the order of `Start`.
* `Margin` — `Evaluate` behind `marginHandler`: `BalanceOf` and `Price` per asset,
  `Transfer` and `NewRound` of the chain between any two of them. `big.Rat` is
  exact, so amounts are integers over a common denominator.
* `MC*` modules and the `.cfg` files instantiate them; `*Proofs` hold the proofs.

Definitions named `X_Something` directly before `X` are mutants: plausible bugs
in `X`, each of which breaks the property `PROJECT.json` pairs it with.

## Runs

| Run | Result | What it shows |
|---|---|---|
| `monitor_safety` | holds | all safety properties with two reorganisations and one fault anywhere, on a tree with forks at heights 1 and 3 |
| `monitor_convergence` | holds | convergence, and no gap when restarts resolve a new start block |
| `monitor_torn_read` | violated | transfers of another fork stored and confirmed under a block |
| `monitor_shallow_confirmations` | violated | confirmed transfers deleted when `CONFIRMATIONS` is below the chain's finality |
| `bucket` | holds | the bound in every interval, and justified denials |
| `redis_limit` | holds | one shared limit, justified denials and keys with a time to live, while commands go unanswered, are sent again and arrive late |
| `redis_late_incr` | violated | one more than the limit after the key has expired |
| `two_monitors` | violated | a gap in the index while two monitors run |
| `user_registration` | holds | the directory, one announcement per e-mail, reads see what was created, every request ends |
| `gateway` | holds | only authorised requests are served, tokens live out their time, hosts are limited and only for what they did, the log is true, every request is answered unless its service never answers the gateway |
| `wallet_events` | holds | `List` is current, events once and in order per subject, none unaccounted for, they arrive when nothing fails, shutdown ends |
| `margin` | holds | reports mix only values that were on chain; the shown health factor agrees with the status |

The four violated runs are findings; `PROJECT.json` quotes the sentences they
contradict. Their counterexamples are short:

* Torn read: `HeaderByNumber(n)` answers fork a, the node switches to fork b,
  `FilterLogs(n)` answers b, the node switches back. The stored block is
  canonical, so no check ever looks at its transfers again. A block indexed when
  it is already deep cannot be torn, which is why `ConfirmedAnnouncements` holds.
* Shallow confirmations: nothing in `rollback` stops at the confirmed height.
* Late INCR: a key created in the first second of a window expires exactly when
  the window ends; an `INCR` for that window arriving then starts at 1.
* Two monitors: one has checked the parent of block 2 and read its logs when the
  chain switches; the other rolls block 1 back; the first saves block 2. With one
  monitor `IndexStaysLinked` proves this impossible. The manifest asks for one
  replica but leaves the update strategy at its default, which overlaps the two.

Things the models show that no document contradicts outright, so that they are
not runs of their own:

* `clientIP` keys an IPv6 peer by what precedes its first colon, `[2001` for
  `[2001:db8::1]:443`; such peers share a bucket. `HostIsLimited` and
  `DenialIsOwn` are stated for IPv4 hosts.
* When the service dies while its body is copied, the client has the service's
  status and the log says 500 (the second case of `LogTellsAnswer`).
* `Close` starts draining and `main` returns, so events still buffered are lost;
  in the model they are in `lost` (`Exit`). `AnsweredIsAnnounced` has that case.
* The order of events is kept per subject only.
* An `INCR` that is sent again after an unanswered attempt may count twice. Each such
  attempt costs the client one request of its limit (`DenialJustified`), so that
  even the first request of a window can be denied when the limit is no larger than
  the number of retries. A first `INCR` that is counted twice is answered with 2, so
  that nobody sends `EXPIRE` and the key stays until it is deleted; `NoKeyLeaks`
  exempts the windows with an unanswered attempt.
* Requests that an error of `INCR` lets through are not limited, by design;
  `SharedLimit` speaks of those that the answer of `INCR` let in.
* `proxyTransport` sets a deadline for dialling and none for the answer: a service
  that accepts a request and stays silent keeps it (second case of
  `RequestsAnswered`).
* A health factor just below one is shown as `1.0000` next to `liquidatable`;
  `ShownAgreesWithStatus` admits it.
* After an event is lost, nothing repeats it; `SubscriberMirrorsIndex` speaks of the
  time before.
* `deploy/k8s/20-services.yaml` mounts no volume for the wallet service, so that a
  restarted pod begins with an empty keystore. `ListIsCurrent` is about a deployment
  with one.
* `GET /users/{id}` answers 404 when the statement fails, and `POST /users` 400
  also after a commit whose answer was lost (`Fail` in `Registry`).

Bounds. The monitor's tree reaches height 4 with `FinalityDepth` 2: enough for a
two-block fork to be undone in two Syncs while a further fork appears, for a
transfer to be mined at different heights on two forks, and for blocks to become
deep during a Sync and before it. Two reorganisations allow the chain to switch
away and back; one fault meets every step. `monitor_convergence` uses height 3
and one fork point at height 1, so that the chain can still switch its top two
blocks after it has stopped growing: only the tip check sees that switch, and
only the parent check finds how deep it goes. The bucket's token takes a tick and a half, so
partial tokens occur, and the clock runs twice a full refill. The Redis run has
three requests for a limit of two over two windows, one retry, and two unanswered
attempts in each window: enough for a request to be denied, for an `INCR` to be
counted twice and for one to arrive late. `redis_late_incr` has four requests, three
windows and no faults.

`two_monitors` needs one fork of two blocks and one reorganisation, and no faults.
`user_registration` has three requests, so that two race and a third observes or
waits, on two replicas with one connection each, and one fault at any step. The
gateway run has two requests, three addresses (two connections of one IPv4 host and
one IPv6 peer), one token issued at any time with a lifetime of a second of two
ticks, a burst of one request and a refill that matters within the run.
`wallet_events` has one account and two chain events, a queue of one, and one
restart, outage or stop at any moment: per-subject order needs two events, the
queue overflows with two. `margin` has two assets of different decimals and
factors, prices of zero, negative and zero debts, and two moves during the
evaluations; `Scale` is 20 instead of 10000, which makes the rounding coarser, so
that it meets both thresholds.

Fairness (`FairSpec`). Weak fairness of the monitor's own steps: `Run` calls
`Sync` again on every tick whatever it returned, and Kubernetes restarts a dead
process. Weak fairness of `Grow`: a live chain keeps producing blocks. This one
is needed: while the chain is shorter than the index, `Sync` fails on the tip's
`NotFound` and does not roll back. Reorganisations and faults are finite in
number but not obliged to happen. `UserService` assumes weak fairness
of each request's own steps: Go runs every runnable goroutine, the pool serves
its waiters in turn, and a Postgres statement ends, with an answer or an error.
`Gateway` assumes it of `Limit`, `Verify` and `Logger`, which wait for nobody, and not
of the steps that wait for a service. `WalletEvents` assumes it of the client library's goroutines
(`BusStep`), and of `Shutdown` and `Exit`, which the ten seconds' deadline forces;
not of the handlers, which may hang. A subject is subscribed, in `NoticesArrive`, when
the broker knows of it; `NATSBus.Subscribe` returns before that. The Redis run does not check deadlock: when all
requests are answered and the clock has stopped there is nothing left to do. The
same holds of the user, gateway and wallet runs.

## Proofs

`ChainMonitorProofs` proves, for every tree, every start block and any number of
reorganisations and faults:

* `TypeCorrect`, `IndexStaysLinked`, `SubscriberMirrors` — for any
  `CONFIRMATIONS`;
* `ConfirmedStayCanonical`, `AnnouncementsStayTrue`, `ConfirmedAreKept` — when
  `FinalityCovered`: `Confirmations >= FinalityDepth`. Without it they are false
  (`monitor_shallow_confirmations`);
* `MonitorInvariant` — under the same assumption, the invariant `IInv` behind them;
* `MonitorImplementsIndex` — under the same assumption every step is a step of
  `ChainIndex` or a stutter: a commit extends by what `IndexInv` says about
  `header`, a rollback cuts above what `FinalityInv` says is confirmed.

None of the properties is inductive, so three invariants are, checked by TLC as
`IInv` and proved one action at a time:

* `IndexInv`: where `cursor` and `header` stand relative to the index at each
  call — on the tip, or on the first free height above it with a header whose
  parent is the block below. Without it `SaveBlock` could break the linkage.
* `MirrorInv`: exactly how the subscriber's view differs from the index between a
  commit and its event.
* `FinalityInv`: `headNum - Confirmations` never exceeds the final height, even
  when the head moves; once the tip is validated, every block up to there is
  canonical; no rollback is aimed at a confirmed row.

The step that matters is the tip check: `AgreeBelow` shows that two linked chains
that agree at one height agree below it (by the least distance at which they
would not), so comparing one hash validates the whole index. `LastBlockIsHighest`
and `AgreeBelow` rest on the least element of a set of naturals.

`TokenBucketProofs` proves `RateIsBounded` and `DenialIsJustified` for every rate,
every burst of at least one token and every interval, from `BucketInv`
(`BucketInvariant`): what was granted since the start of the interval plus what is
left in the bucket is at most the burst plus the refill.

`UserServiceProofs` proves, for any number of replicas, requests, connections and
faults, `UserInvariant`, `OneAnnouncement`, `CreatedIsVisible` and
`ServiceImplementsRegistry`. `UInv` says what a request's place in its handler
implies: rows have distinct e-mails and belong to registrations past their insert;
a request that is to publish has its row and has not announced it; with Postgres,
what was announced or answered stays in the table. The refinement is the identity
on the shared variables; waiting and connections are stutters.

`GatewayProofs` proves `GatewayInvariant`, `OnlyAuthorisedServed`, `TokensLiveOut`
and `LogIsTrue` for all tokens, requests, clocks and lifetimes in whole seconds.
`GInv` carries a verified token's role and time from `Verify` to the service, and
bounds each expiry between its announced end and one second before.

For the limiter's part it proves `LimitInvariant`, `HostsAreLimited` and
`DenialsAreOwn`, for any finite set of requests, so that they can be
counted. The gateway's limiter is an instance of `TokenBucket`: a step of the gateway
is one of its steps or leaves it alone (`LimiterTurn`), so `BucketInv` holds of it by
the lemmas of `TokenBucketProofs` (`LimiterKeepsInv`). That speaks of
keys and grants; the properties speak of hosts and requests. `LimitInv` joins the two:
what a key was granted is the number of requests with that key that got through
(`Passed`), and a bucket exists only where something was granted. `PassedOfHost` then
shows that the requests of an IPv4 host are those with its key.

`WalletEventsProofs` proves `WalletInvariant` and `ListStaysCurrent` for any number
of wallets, events, restarts and outages: what was answered is on disk, what this
process answered has its time, and a `List` under way still has to read, or has
read, all it must return.

`NoticeInvariant`, `NoticesStayFaithful` and `AnswersAreAnnounced` are about the events,
for the same. Order among the handled events alone is not inductive: `NoticeInv`
follows a service's events along their way, from its buffer through the subject's
queue to the handler. What is on the way was published, each event once, and what is
further on was published before what is behind (`Way`). Every step of the bus either
moves the head of one stretch to the end of the next, or drops a stretch or a part
of it, and there is one lemma for each kind (`WayPublish`, `WayFlush`, `WayDeliver`,
`WayTrim`). That an event is not published twice follows from `pc`: a wallet is
recorded once.

`MarginProofs` proves `EvaluationInvariant`, `ShownAlwaysAgrees` and `ReportsAreMixes`
for all assets, factors from 0 to 100 percent, balances, prices and debts, and every
`Scale` divisible by 20, which puts both thresholds on the grid of shown values;
rounding is monotone and leaves grid points alone (`RoundingStays`). The invariant has
two parts: `MInv`, that the sums are exact and a report is computed from them, and
`MixInv`, that before asset `i` they add up one balance and one price for each earlier
asset, all of them held at some moment since the evaluation began. A move of the chain
only adds to the values held (`MoveKeepsMix`), and a price read adds one term
(`MixStep`). The sum is a recursive function on `0..N`; that it exists and is the only
one with its recursion (`SumExists`, `SameSum`, `SumIsSum`) is shown by the least
number at which it would fail, since induction is not available as a rule.

`RedisLimiterProofs` proves `LimiterInvariant`, `LimitIsShared`, `DenialIsJustified`
and `KeysDoNotLeak` for any limit and window of at least one, any finite set of
requests, any number of retries and of unanswered attempts, and commands that arrive
arbitrarily late. `RInv` says that a window's counter, with the `INCR`s still on their
way, exceeds the requests counted in it by no more than the unanswered attempts; that
until the window ends it is at least the number of requests let in; and that no
deadline lies before that end, because `EXPIRE`, also a repeated or late one, is sent
after the window began and lasts one window. The answer of an `INCR` executed in the
window is then at least the number of requests let in so far, so that only `Limit` of
them get one they may pass with. After the window the key may be gone, which is where
`LimitPerWindow` fails and `SharedLimit` stops. A denial means a counter above `Limit`,
and the first part of `RInv` turns that into requests and unanswered attempts.

Assumptions on constants are `NodeAssumption`, `MonitorAssumption`,
`BucketAssumption`, `LimiterAssumption` (of both `RedisLimiter` and `Gateway`), `UserAssumption`, `NoOpAssumption`, `GatewayAssumption`,
`NoneAssumption`, `PeerAssumption`, `RestartsAssumption`, `EventsAssumption` and
`MarginAssumption`: types, a burst of at least one token, a token lifetime in whole
seconds (it is one hour), peers that are a host, a colon and a port, as `RemoteAddr` is,
where what precedes the first colon of an IPv6 address (`[` and a group) is not an IPv4
host, events of the wallet service that are not events of the monitor, and percentages
within 0 to 100. `loadAssets` does not check the last; the comment
at `cmd/margin/main.go:24` states it.

Only model-checked: the liveness properties `Converges`, `RequestsEnd`,
`RequestsAnswered`, `NoticesArrive` and `ShutdownEnds`, since liveness under fairness is
beyond the prover. Every invariant, action property and refinement that the passing
runs check is also a theorem. The properties of the violated runs are false, and
their counterexamples are TLC's; `ConfirmedKept` fails there only without
`FinalityCovered`.

## Not modelled

* `chainmonitor.MemStore`: only the package's tests use it.
* `RequestID`, log attributes, JSON and ABI encoding, reading of the environment
  and of `ASSETS_JSON`: no state that a step of another actor could meet.
* HMAC signatures and keystore encryption: a token is one that `Issue` signed or it
  is not, and a key is on disk or it is not.
* The server's read, write and idle timeouts, and clients that disconnect: they end a
  connection. The handler runs on, but what it writes may not arrive, so the models
  speak of the answer as written, not as received. For `RedisLimiter` the end of the
  request's context is one way in which a command fails.
* Two notification consumers at once: without a queue group each handles every
  event, which is the code's design of a single consumer.
* Clock skew between gateway replicas, `float64` rounding in `RateLimiter`.
* The load test and the thirteen lines of logging.
