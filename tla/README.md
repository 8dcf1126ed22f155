# XLM-Pay: TLA+ models, checks and proofs

This directory holds a TLA+ development of the XLM-Pay repository: modules
translated from the Rust contracts under `src/Contracts` and the NestJS services
under `src/Backend`, TLC configurations for them, and proofs checked by TLAPS.
Every definition that models code is listed with its source lines in
`PROJECT.json` (`map`); this file explains how the pieces fit together.

Run a model with `tlc -workers 2 -config <X>.cfg <Module>` and the proofs of a
module with `tlapm <Module>Proofs.tla`.

## 1. The system

The repository is a workspace of Soroban (Stellar) contracts in Rust, three
Solidity contracts, a NestJS backend over Postgres and Redis, and a small
frontend. The `pull()` payments contract that the top-level README describes is
not among the sources, so there is nothing to model for it.

Two execution models meet here. They decide what a step is.

* **Soroban contracts.** The host runs one invocation at a time, to its end; a
  panic or an `Err` rolls everything back. An endpoint is therefore one atomic
  action whose guard is the conjunction of its checks, and what is left to go
  wrong is the *sequence* of calls by different people, the ledger's clock, and
  loops inside one invocation.
* **Backend services.** A handler runs without interruption only between two
  `await`s. `repository.save` writes every column of the copy it is given.
  Handlers, cron jobs and operations interleave freely, and the process may
  restart between any two of them.

### Inventory

| Part | State | Operations | What is hard, and what must hold |
|---|---|---|---|
| ACL (`shared/src/acl.rs`) | roles, roles of a user (a vector), permissions and parent of a role | init, create/assign role, assign permission(s), set parent | parents may form a cycle, on which a permission check panics; nobody may be able to lock everyone out |
| Upgrade governance (`shared/src/governance.rs`) | proposals, approvals, ledger time | propose, approve, execute, reject, cancel | counter, approval map, status and flag are four records of one fact; quorum and timelock before execution |
| Circuit breaker (`shared/src/circuit_breaker.rs`) | level, paused functions, period counters | pause/unpause, count a trade | read before, written after the counting; period edges |
| Trading: gate | rate-limit configuration, premium users, counters per window | trade, batch, administration | two counters per window; limits change under running windows |
| Trading: order book (`trading/src/lib.rs`) | orders, books per pair and side, trade log, totals | create (with matching loop), cancel | price-time priority, uncrossed book, fill-or-kill, nothing filled twice, termination |
| Trading: private trades | proofs, commitments, trades, view keys, audits | five endpoints | nonces and expiry; a way round the gate |
| Workflow engine (`Backend/src/workflow`) | workflow and step rows, copies held by handlers | execute, retry, cancel, compensate, force, two recovery jobs | stale copies overwriting each other, timeouts whose operation goes on, restarts |
| Workflow start | row under a unique key, Redis lock with TTL | look up, lock, insert, execute, release | duplicates between any two steps, expiring lock, stopped holder |
| Auth (`Backend/src/auth`) | nonces, users, wallet bindings, refresh tokens | login, bind, unbind, refresh, logout, cleanup | each query is separate and no transaction is used: single use of a nonce, rotation, last wallet |
| Ledger monitor (`Backend/src/stellar-monitor`) | monitoring flag, two streams, restart timers | start, stop, stream error, restart | start and stop overlap a start that waits; a broken feed must come back |
| Webhook delivery | event and consumer rows, in-memory queue, timers | save and queue an event, batch, post, retry, suspend, consumer administration | rows loaded and saved around each other, exceptions, restarts; retries that end |
| Job queue (`Backend/src/queue`) | Bull jobs, dead-letter list | add, process, fail, requeue, purge | list trimmed by count, dying workers, jobs that are listed before they are dead |
| Audit chain (`Backend/src/audit`) | log and archive tables | log, archive, verify, migrate | hash of the latest row read before the insert; rows moved between tables |
| Market data cache (`Backend/src/market-data`) | Redis entries | read through, invalidate | fetch before a change, store after its invalidation |
| Language model access (`Backend/src/voice`) | counters per month, session and minute, custom limit, cached answer | ask, count, reset, set limit, invalidate | checked and counted apart; counter without expiry |
| Voice sessions and streams (`Backend/src/voice`) | sessions, the user's set and pointer, active streams | create, message, interrupt, terminate, (dis)connect, cleanup | sessions saved whole, failed commands, creations cut off, interruptions between words |
| Idempotency keys, request limits, presence, AI prompts, API tokens | hashes, counters, sets | – | see section 5 |
| Staking, liquidity mining, AMM, synthetic assets, insurance, stablecoin reserve, academy, social rewards, messaging, cross-chain router, TCR, token, identity contracts | balances, pools, positions, vesting, messages, nonces | endpoints | conservation, rounding, time |
| Solidity treasury, revocation, soulbound credential | owners, confirmations, revocations | submit, confirm, revoke, execute | quorum across owner changes |
| Observability, health, configuration, frontend | none of the system's | reporting, start-up checks | – |

Interactions: the trading contract calls the ACL for every administrative
endpoint, the breaker for trades, and the governance module for upgrades, all in
one invocation and one storage. In the backend the start protocol calls the
executor, the executor calls compensation after a timeout, and the admin
controller and the recovery job call both; they share two tables. The monitor
hands every ledger event to the delivery service, and nothing comes back. Voice
streams ask the language model access for their text. Auth writes to the audit log. The
other services share nothing but the process they run in.

`PROJECT.json` lists every part under `components`, with its status, and the
hazards, each at its line, under `hazards`.

## 2. Modules

| Module | Models | Extends / uses |
|---|---|---|
| `HostClock` | the ledger clock (external) | – |
| `ACL` | `acl.rs` and the ACL endpoints of the trading contract | – |
| `Governance` | `governance.rs` and the upgrade endpoints | `ACL`, `HostClock` |
| `OrderBook` | limit orders and matching | `HostClock` |
| `OrderBookProofs` | theorems about it, and about finite sums | `OrderBook` |
| `CircuitBreaker` | the breaker | `HostClock` |
| `PrivateTrading` | private trades | `ACL`, `HostClock` |
| `Trading` | the whole trading contract: gate, trades, batches, administration | `PrivateTrading`, `CircuitBreaker`, instance of `OrderBook` |
| `ContractProofs` | theorems about the ACL, governance and the whole trading contract | `Governance`, `Trading`, instance of `OrderBookProofs` |
| `Workflow` | one workflow: executor, compensation, admin calls, recovery, restarts | – |
| `WorkflowProofs` | theorems about it and about its scenario *undo* | `MCWorkflow` |
| `WorkflowStart` | concurrent starts with one idempotency key | – |
| `WorkflowStartProofs` | theorems about it | `WorkflowStart` |
| `Auth` | wallet login, refresh tokens, wallet bindings | `Absent` |
| `AuthProofs` | theorems about it | `Auth` |
| `WebhookPromise` | what webhook delivery promises (abstract specification) | – |
| `WebhookDelivery` | event and consumer rows, queue, deliveries, consumer administration | `Absent`, instance of `WebhookPromise` |
| `WebhookProofs` | theorems about it, the refinement included | `WebhookDelivery` |
| `StreamMonitor` | the two Horizon feeds | – |
| `JobQueue` | one job queue and its dead letters | `Absent` |
| `JobQueueProofs` | theorems about it | `JobQueue` |
| `Absent` | the null that the backend's modules share | – |
| `AuditChain`, `MarketCache`, `LlmAccess` | the audit log, the market-data cache, the language model's quotas and cache | `Absent` |
| `VoiceSession` | one user's sessions and answer streams | `Absent` |
| `ServicesProofs` | theorems about these four | the four |
| `MC*` | instances for TLC | the modules they instantiate |

Definitions marked *Faulty* in a comment are defective variants of the next
definition. No specification uses them; they are there to show that the
properties notice the defect.

### How state and actions correspond: the contracts

**ACL.** `u_roles` keeps each user's *vector* of roles, because `has_permission`
asks them in order and panics at the first hierarchy deeper than `MaxDepth`
(10). `has_permission(u, p)` is true when the answer is `true`; a panic and
`false` are the same to the caller, who is refused. `Ancestors` walks the
parents level by level, so no recursion over roles is needed. `init` needs no
authorization and may be called by anyone, once.

**Governance.** `props` and `apprv` are the two storage maps; one action per
endpoint. The approver vector may name an address twice, as the code allows.
Hash and description of a proposal are stored and never read, and are left out.
Overflow of the `u64` and `u32` counters would need more proposals or approvals
than storage holds.

**OrderBook.** `create_limit_order` contains a loop; each iteration is a step
(`match_limit_order`), with `taker` the order in hand, and `finish_order` is what
follows the loop. While `taker # 0` nothing else may happen, which is the host's
atomicity. `orders` holds one copy of the taker (the code's two copies differ only
inside an iteration, where the stored one is not read). Amounts and prices are
integers; the sums stay far below `i128`.

**CircuitBreaker, PrivateTrading, Trading.** `ensure_tradeable` is the gate:
initialized, rate limit, breaker. A trade is counted by the breaker after it has
passed, batches and limit orders are not counted, private trades do not pass the
gate at all; all three are as in the code. Fees are a token transfer in the same
invocation and are left out: a failure rolls the call back. Hashes and
commitments are members of a small set. `touched` is a ghost: whether an
administrator has set the pause level or the limits since `init`. What the breaker and
the limits promise (`BreakerTrips`, `CallsWithinRate`) is claimed until then.

### How state and actions correspond: the backend

In every module a handler is cut where it awaits, and what it has read is kept in a
variable of its own (`run`, `req`, `seen`, `admin`, `op`, `logger`, `reader`,
`call`, `running`), so that it may be stale when it is used. The unique columns and single
Redis commands are atomic; nothing else is.

**Workflow.** The variable `run` records for each process where it stands and its copies
of the rows. `SaveWorkflow` writes the
state column and, for a process whose copy was loaded with its steps, those steps
(`cascade: true` in the entity). `effects` and `undone` are the outside world:
how often a step's operation took effect and how often it was compensated (the
code's compensation is a placeholder that waits a second; `undone` counts its
runs). `late` holds operations nobody waits for any more, after a timeout or a
restart. An operation that fails is taken to have had no effect, and queries and
saves to succeed: an error of the database inside a handler is not modelled. `Stale`
says when the recovery job may find the workflow row untouched for five minutes:
no process has just saved it (one that has loaded its copy and not saved yet, or
that waits for an operation, does not count). A stuck step is any step whose row
says RUNNING, with or without an executor.

**WorkflowStart.** A caller is also its lock token. `releaseWorkflowLock` reads
and deletes in two steps, as the code does. Execution is one step; what happens in
it is `Workflow`.

**Auth.** Each HTTP request is a process that may die after any query. A row is named
by the request that inserted it; `wallets` is a function of the public key because
the column is unique, and an insert into a key that is taken fails. `parent` of a
refresh token is a ghost: the token it was exchanged for. Signatures are checked as a
predicate on the nonce's key. Access tokens are the set of users that hold one. `rivals` is a
history field of a refresh that has passed the check: the other refreshes of the same token
that had passed it and not revoked the token yet. Two of them both get a new token, as in the code.

**WebhookDelivery.** `job[p]` is where the delivery of pair `p` (event, consumer)
stands: queued, at one of the awaits of `deliverEventToConsumer`, waiting for its retry timer, or
closed. `seen[p]` is the row it loaded and will save whole. The attempt number is
`deliveryAttempts + 1` of the *queued* copy, which never changes, so a consumer with
`maxRetries` above 1 is retried until it answers, is suspended or is deleted; the
failure counter of the consumer, not the attempt number, ends the retries, and each
successful delivery of another event takes one failure back
(`consumer-management.service.ts:165`). A consumer that receives other events all the time may
therefore be asked for one event for ever; the run `webhook_retries` shows it. An exception
inside a delivery enters the code's catch branch, which loads the consumer again and counts a
failure or, if the consumer is gone, throws out of the batch.
`got` is the outside world. `Restart` empties queue, timers and
deliveries. The abstract specification `WebhookPromise` knows only, for each pair,
whether it is owed, settled or dropped, and that this happens once; it does not promise that
a debt ends. `KeepsPromise` is the refinement, with
`Debt` as its mapping (queued, running and waiting for a timer are all "owed").
`MCWebhook` adds a stream of events that does not end: `NextEvent` gives the name of an
event that is over to a new one.

**StreamMonitor.** A stream whose handle was overwritten goes on without one
(`lost`): a restart opens a new stream and does not close the old one.

**JobQueue.** Bull is external: it takes jobs, counts attempts, delays retries, and
fails a job as stalled when its worker died twice under it. `pending` holds the
`failed` events not handled yet. The three processors differ only in what they
compute; each either completes or throws.

**AuditChain.** Hash and signature are injective functions of the fields the code
feeds them, so `verifyAuditChain` recomputes real values. Rows have a millisecond
time stamp, a sub-millisecond part that only the migration's ORDER BY sees, and an id
without temporal order. `forked` is a ghost set when something happened that the chain is not
claimed to survive: overlapping calls, rows of one millisecond, rows moved
under a call's two look-ups.

**MarketCache.** A namespace holds one entry; an entry or a value in hand is
outdated when the source changed after it was fetched. A read that fails counts as a miss, also
when the entry is there. `invalidateByPattern` matches
no key, because keys are hashed: as modelled, the price namespace is never cleaned.

**LlmAccess.** One user, one session. `enforceQuota` reads its three counters one by
one, `recordRequest` increments them, with INCR and EXPIRE apart. Month and minute are
those in which `enforceQuota` began: a request that a month's end overtakes is `old`, and reads
a counter that is over (it may show anything, or have expired) while it will count in the new
one. `peak` is a ghost: the highest monthly limit in force since the counter began.

**VoiceSession.** A handler or stream is a program: a sequence of Redis operations still to do,
which the state found by one operation may extend or cut. Session updates load, ask the
conversation state machine and save whole; a refused transition saves
nothing, and the caller goes on. What the code catches is an outcome of the read: `getSession`
may answer null for a session that exists, and `getUserActiveSessions` may leave sessions out or
answer with an empty list. Every other command may throw (`Throws`), which ends a handler.
`ServerRestarts` ends everything that runs, between any two operations: a deployment, a crash, or a
rejection that nobody handles, such as that of an answer whose language model call throws
(`AskLlm`). The gateway reuses an existing session, so the limit of three sessions is met only by
creations that overlap or did not see it. `excused` is a ghost: something happened that explains a second
session (section 3). Clients are taken to send their own user id.

## 3. Runs

Twelve runs: nine that pass, and three in which TLC exhibits a behaviour that a
document or a comment of the repository excludes.

| Run | Bounds | Shows |
|---|---|---|
| `governance` | 2 users, standard roles, depth 10; 2 proposals, vectors `<a,b>` and `<b,b>`, delays 0 and 1, 3 ledgers | somebody can always manage the ACL, cycles included; counter, map and status agree; quorum and timelock; executed and cancelled proposals keep their status, and a rejected one can only be cancelled |
| `governance_rejected` (violation) | as `governance` | a rejected proposal is cancelled, where `UPGRADEABILITY.md` says "No further actions possible" |
| `order_book` | 3 orders, 2 pairs, prices and amounts 0..2, 2 ledgers, all times in force | orders, books and trades agree; books never crossed between invocations; fill-or-kill covered; price-time priority; the loop ends |
| `trading` | 2 users and three scenarios (below) | rate-limit counters agree; thresholds trip the breaker; limits hold per window; private balances follow their trades |
| `workflow` | 2 steps, 2 attempts; timeouts, 1 restart, step retry and both recovery jobs, or two compensations and a retry | one executor at a time, no operation takes effect twice, COMPLETED means all effects; steps are undone backwards, COMPENSATED means nothing compensable is left |
| `rows` | workflow: 2 steps, 1 attempt, timeouts, cancel, compensation, forced compensation, recovery; webhooks: 2 events and 1 consumer, or 1 event and 2 consumers, 1 operator call, 1 restart, suspension after 2 failures | everybody ends and the workflow's row is in a settled state; no delivery is recorded that did not happen, batches do not overlap, the abstract promise is kept |
| `fair_services` | audit: 2 calls, 4 time units, 3 legacy tables, 1 crash; language model: as in `services`, within one minute; start: 3 callers, 2 expiries, 2 stopped services | the chain verifies and notices changes of log rows and archive rows, no row is lost, a half move is completed; a used-up session is admitted again; one execution of a key, and every call is answered |
| `auth` | 2 keys, 2 nonces, 3 requests from an empty database, or 2 after an account has two wallets; symmetric | nonces are spent before anything is stored, rotated tokens are revoked and get a second successor only if refreshes overlapped, the last wallet stays, a wallet keeps its user |
| `webhook` | endless events under 2 names, 1 consumer, 2 operator calls, suspension after 3 failures; monitor: 2 overlapping starts, 2 timers | a delivery is retried for ever only while its consumer keeps receiving other events; a feed returns |
| `webhook_retries` (violation) | the same deliveries, 1 operator call, suspension after 2 failures | a delivery that always fails is retried for ever, although the code has a branch "Max retries reached" |
| `services` | queue: 3 jobs of 2 attempts, 2 operators, 2 crashes; market: 2 readers, 1 invalidation; voice: 2 handlers, 1 stream, 2 sessions, 3 events, from no session or an idle one; language model: 2 requests, limits of 1 (custom 2), 2 minutes | dead jobs are dead, nothing is discarded; staleness needs a race; one session per user but for five excuses, over failed commands and restarts; no finished stream stays registered, interrupted streams send no chunk; quotas are overrun by at most one request |
| `workflow_timeout` (violation) | 2 steps, timeout | the compensation asked for after a timeout is refused, the workflow ends FAILED |

**Instances with a choice.** Some instances choose in `Init`, and keep, which part
of the system moves: the focus of `governance` (ACL or upgrades), the scenarios of
`trading` and `workflow` (a third one, `"admin"`, is the workflow in `rows`), the part
in `rows` and `webhook`, the service in `fair_services` and `services`. The parts
either share no state or their product is too large; the union of the behaviours is
checked, not their product. Which parts share an instance is decided by the kind of claim (what is
reached in the end is claimed in `rows`, `fair_services` and `webhook`) and by their sizes.

**Why the bounds suffice.** The ACL needs two users to have one who loses a
permission and one who keeps it; the standard roles give cycles with and without the
role in question. Two proposals show that one's approvals do not count for the
other; the vector `<b,b>` has length two and one member. Three orders are the
least with two makers for one taker, hence a choice between them, a partial fill
and a remainder; amounts of 2 leave remainders of 1; two ledgers give equal and
different timestamps. Nothing tells one pair from the other, so the first
order is on the first pair. Zero prices and amounts are inputs the code refuses. Two
workflow steps are the least in which one is done and another is not. Three callers
allow an expired holder, a new holder and a third that meets both. Two requests suffice for
every race of two in `auth`; the third creates the account they race on, and the
second start makes a bind, an unbind and a refresh of one account meet. Two
deliveries are a batch; two consumers share an event row, two events share a consumer
row. A session that listens is reached from an idle one by the client's action. The minute
counters play no part in a session's return, so `fair_services` needs one minute. A stream of
events needs two names: one for the event that fails and one for those that succeed
meanwhile; it has no restart, which would forget the delivery in question. Two dead letters and a third pushed under a requeue tell the head from the
tail. An audit call before, during and after an archiving needs two calls and four
moments.

**Scenarios of `trading`.** *gate* (an administrator changes limits, premium users, levels and paused functions
around two orders and a trade), *unattended* (nobody does, with three breaker
configurations, one of them with thresholds of zero, four trades and four ledgers: here the breaker's and the
limit's promises say most) and *private*. The bounds of each are guards of its
next-state action in `MCTrading`.

**Deadlock** is not checked where the bounds end the behaviour (orders, trades,
requests) or the system is done (a settled workflow, answered calls). `governance`
checks it.

### What the passing runs leave out, and why

* The *undo* scenario of `workflow` has no cancel, forced compensation, timeout, restart,
  recovery or step retry. Each breaks cleanliness by itself: cancel and force reach a
  workflow whose executor goes on, an abandoned operation may take effect after
  its step was passed over, and `retryWorkflowStep` and recovery save copies of
  steps that have been completed meanwhile, which compensation then skips.
* The workflow of `rows` has no retry: `retryWorkflow` saves RUNNING and then asks the
  state machine for RUNNING to RUNNING, which is refused, and recovery meets the same
  refusal, so the row stays RUNNING. It has no restart: one during a compensation leaves
  COMPENSATING, which no job picks up.
* The *recovery* scenario has no cancel: the executor's next save overwrites CANCELLED.
* `LastWalletKept` is claimed while an account's unbind requests do not overlap: two
  that do each count the other's wallet.
* `NothingDiscarded` is claimed for requeue calls that neither overlap nor fail to add
  a job; `ChainVerifies` for audit calls that do not overlap, in different
  milliseconds (`forked`); `StaleNeedsARace` not for prices; `SessionReopens` unless
  the process died between INCR and EXPIRE; `SessionReused` unless creations
  overlapped, the user's set expired before the sessions in it, a failed read hid the session
  there was, a creation was cut off (by an exception or a restart) between writing its session and adding
  it to the set, or a stale save wrote a terminated session back
  (`excused`); `AnswersEnd` for streams whose session was not gone, nor unreadable, when they
  looked for it. In each case the model contains the excluded behaviour and the property
  names it as the only way out.
* `NonceSpentFirst` is about the order of the steps and about deaths. Two requests that both
  pass the check with one nonce before either has marked it both succeed.
* `RotatedIsRevoked` allows two refreshes that overlap, and they do leave two live successors of
  one token. A logout between the revocation and the issue of one refresh leaves a live token, too.
* `DeliveredIsReal` excludes entries without a delivery, not deliveries whose entry was lost
  to a stale save. `BatchesDoNotOverlap` is claimed until an exception escapes from a batch.
* `OverrunBounded` admits an overrun, by one less than the number of concurrent requests.
  `quota.service.ts:293` tells the client "Maximum ${limit} requests per minute".
* `SilentAfterInterrupt` is about chunks: `voice:responding` or `voice:complete` may still follow.
* `CompletedIsReal` is a statement about rows and effects; it does not exclude that recovery and a live
  executor write over each other's rows.

### Fairness

* `OrderBook!Fairness`: weak fairness of the matching steps; the host runs an
  invocation to its end.
* `Workflow!FairSpec` (in `MCRows`, for the requests its scenario has): weak fairness of every handler that has started (the event
  loop serves it), of operations (they end; the code's timeouts guarantee it only
  for timed steps), and of the two recovery jobs (cron, every five minutes). Nobody
  is obliged to make a request.
* `WorkflowStart!FairSpec`: weak fairness of each call; a stopped one has ended.
* `WebhookDelivery!WhFairness` (in `MCWebhook`): `processQueue` runs every second, and
  every POST has a timeout, so each delivery step is taken. Nothing obliges a consumer to answer, nor an event
  to come. `StreamMonitor!SmFairness`: timers fire, and
  Horizon answers or refuses.
* `AuditChain!AuSpec`: time passes and the archiver runs again (cron, every
  midnight); `LlmAccess!LlmSpec`: running requests go on and Redis expires keys.

### Differences from documents that have no run

Met while modelling, visible in the actions' comments: `execute_proposal` checks no
permission (`UPGRADEABILITY.md`: "Caller must be Executor role"); a trade counted during a
partial pause passes the threshold without a full pause
(`CIRCUIT_BREAKER_RECOVERY.md`); private trades execute during a full pause
(`GOVERNANCE_GUIDE.md`); a batch records trades with price zero
(`trading/FORMAL_VERIFICATION.md`: "`price > 0` always"). In the workflow engine:
CANCELLED is overwritten by the executor though the state machine calls it terminal; a
retried workflow does not resume (`workflow/README.md`: "Resume from last
successful step"); a duplicate start that looked before the insert and locks after the
release gets an error and not the existing workflow (`startWorkflow` does not look
again once it holds the lock).

## 4. Proofs

Eight modules hold theorems. Each theorem is about the specification the runs use and
every value of its constants; what a run shows on a small instance the theorem shows
for any number of users, orders, steps, requests, jobs or events. In every module the
argument is the same: an inductive invariant, checked with TLC on the runs' instances
before it was proved, a lemma for each action or family of actions, and a last step that
combines them. The properties that are claimed only outside some behaviour (`forked`,
`uneven`, overlapping unbinds, an escaped exception) keep that clause in the theorem.

**`ContractProofs`** has two parts. The first proves for every finite set of addresses,
any roles, approver vectors, delays and bounds, with *all* ACL endpoints interleaved with
proposals (the `governance` run takes one or the other):

* `TypeCorrect`, `VotesAreCounted`, `NoExecutionWithoutQuorum`,
  `AclStaysManageable`, `ProposalsStayClosed`.

The inductive invariant is `IInv == TypeOK /\ AdminRooted /\ VotesCounted /\
ExecutedFlagAgrees /\ TimelockRespected`. `SomeoneManagesAcl` is not inductive: a
user may have `mgr_acl` through a parent that another call changes. `AdminRooted`
is: the deployer's first role carries the permission itself, roles are appended and
permissions never removed, and `check_role` answers at depth 0 before it looks at a
parent, so no cycle matters. `ExecutedHadQuorum` follows from `VotesCounted` (the
counter is the cardinality of the approvers, the status agrees with it),
`ExecutedFlagAgrees` and `TimelockRespected` (an executed proposal's time has come;
ledger time only grows). `ProposalsStayClosed` is an action property from the same
invariant: cancel is guarded by the flag and the others by the status.

The second part is about `TradingSpec`, the whole contract: deployment by anybody, all
administration, trades, batches, orders with their matching loop, private trades and ACL
calls, in any order (the `trading` run has scenarios), for any limits, thresholds,
batches and hashes:

* `RateCountersAlwaysAgree`, `CallsStayWithinRate`, `BreakerAlwaysTrips`,
  `TotalsAlwaysFollow`, `BalanceAlwaysFollows`, `ContractBooksSound` (uncrossed books and
  covered fill-or-kill orders), the action property `ContractPriority`, and
  `ContractStaysManageable`.

`TradingInv` is the conjunction of what each part needs:

* `CountersAgree`: in every window the global counter is the *sum* of the users' counters,
  under whichever window length the calls were counted;
* `BreakerInv`: `BreakerTrips`, and that the level is never *Partial* while no
  administrator has touched it. The second is needed because a trade counted during a partial
  pause passes the threshold without tripping it;
* `BookCore`, from `OrderBookProofs`: `BookInv` without `Balanced`. Direct trades and batches
  write the same log as matched orders, so the book's filled amounts are only a part
  of the logged volume here. The lemmas about the matching loop are used through `INSTANCE`, not
  proved again;
* `TotalsFollowLog`: count and volume are the length and the sum of the log; a batch
  appends many trades and adds its volume once (`SumConcat`). This one is stated by its
  theorem and part of no run;
* `PrivTypeOK`, `BalanceFollowsTrades`, `AdminRooted`, and the types.

**`OrderBookProofs`** proves `BooksAreSound`, `BooksAreNeverCrossed`, `FokIsCovered` and
the action property `PriorityIsKept` for any users, pairs, integer prices and amounts
and any number of orders. None of these is inductive by itself. `BookInv` adds:

* `BooksAgree`: a book lists exactly the open orders of its pair and side other than
  the taker, by ascending id, after every iteration and not only between invocations;
* `InOrder`: only good-till-cancelled orders rest, the taker is the newest order, and
  timestamps ascend with ids. The code picks the best price and then the earliest
  timestamp, in the order of the book; with this, that is the smallest id;
* `Uncrossed`: resting orders do not cross at any iteration. The taker joins its book
  only when no maker is left that it matches, which is what keeps it so;
* `FokAhead`: the matching makers' remainders cover what the taker still needs. Each
  fill takes the same amount from both sides;
* `Balanced`: logged volume and filled amounts are equal *sums* over all orders.

The sums are those of the community modules. What the proof needs of them (one value
changed, one element added) is proved first: the sum is a recursion over subsets, the
finite subsets on which two such recursions differ would have a smallest member, and
there is none.

**`WorkflowProofs`** proves `EffectsHappenOnce` and `CompletionIsReal` for any number
of steps, attempts and restarts and any set of admin calls and jobs, all together (the
`workflow` run has scenarios). `IInv` rests on `OnlyStart`: every caller of
`executeWorkflow` other than `startWorkflow` holds a copy that says RUNNING and is
refused by the state machine, so there is one executor, and on `Progress`: where it
stands says which operations have taken effect and that none ahead of it has been
begun. `Once`, `Ordered` and `CompletedHasAll` count abandoned operations (`late`) with the
effects. This is also why a retried workflow does not resume (section 3).

It also proves `CompensationGoesBackwards` and `CompensationIsClean`, of the specification
with scenarios (`MCSpec`): they are about the scenario *undo*, from which timeouts, restarts,
cancels and retries of steps are taken out because the two claims do not survive them
(section 3), and hold there for any number of steps and attempts and any choice of
compensable steps. `UndoInv` has two phases:

* `ExecutorFirst`: while the executor runs, the row says PENDING or RUNNING, so
  compensations are refused and a retry finds nothing to recover; `EffectsMarked`: what has
  taken effect is marked COMPLETED, but for the step whose result is not saved yet;
* whoever compensates or retries later announces it in the workflow's row before it changes
  a step (`Announced`), and no write returns the row to a state from which a
  compensation may start; so every compensation has loaded the rows as the executor left them.
  From then on it has undone every effect that its copy no longer shows as
  COMPLETED, and when it is about to undo a step, every later one (`Settling`). Stale
  copies saved over each other do not matter, because nobody reads the rows again.

**`WorkflowStartProofs`** proves `WorkflowExecutedOnce` for any callers and any
number of expiries and stopped services. `ExecutedOnce` needs `OneOwner`: a call
between its insert and its execution owns the execution, there is at most one, it
exists only once the row does and only before the execution; the row never goes
away, so nobody owns it again. The lock appears nowhere in the argument: the unique
index alone keeps the promise.

**`AuthProofs`** proves `NoncesAreSpentFirst`, `RotationRevokes`, `LastWalletStays` and the
action property `WalletsKeepTheirUsers` for any keys, nonces and requests that may die after
any query. `AuthInv` says what each request's place implies: past `markNonceUsed` its
nonce is spent and of its key (`NonceInv`); a stored binding was inserted by such a
request, and an unbind request's copy was too, however old it is (`BindingInv`); a
token's predecessor was revoked before it was issued (`TokenInv`); of two refreshes that passed the
check on one token, the later one found the earlier one between its check and its revocation, because a revoked
token does not pass (`RivalInv`); a user without a
wallet yet is known to nobody but the login that creates it (`BirthInv`); and an unbind
that has counted two wallets leaves one behind (`WalletInv`), which needs that nobody
else unbinds.

**`JobQueueProofs`** proves `TheDeadAreDead` and `NothingIsDiscarded` for any jobs,
attempts, requeue limit, operators and crashes. `Aligned` is the point: the list is read
first and trimmed by *count* last, so a requeue call must hold exactly the head of the
list that its count will cut off, although failing jobs are pushed at the other end
meanwhile.

**`WebhookProofs`** proves `DeliveriesAreReal`, `BatchesStayApart` and
`ServiceKeepsPromise` for any events, consumers, retries, batch size, operator's calls and
restarts. `Real` speaks of the copies too: neither the row nor a copy that will be
written back claims more than was received, so a stale save loses at most a delivery,
and never invents one. `ServiceKeepsPromise` is the refinement, `WhSpec => KeepsPromise`:
`WebhookPromise`'s initial states and steps under the mapping `Debt`, one case for each
action; it needs `Begun` (an event's pairs become owed once) and `QueuedOnce`.

**`ServicesProofs`** is about four services. It proves `AuditRowsAreKept` (with what the archiver has in hand as the
strengthening: still in the log, and after the copy in the archive; the migration stores
every old row under its id), `StaleEntriesNeedARace` (it needs only that an idle
invalidation is for no namespace, and holds whichever reads fail) and `QuotasAreBounded`. The last one is a counting argument. For
each counter there is the set of requests that may still count against it: those past
its check, and those whose check is decided by what they read before (a limit that was
higher than any since, a month or a minute that is over). Counter plus size of that set
is at most the limit plus the requests, less one: a request enters the set only when the
counter is below the limit, where there is room for everybody, and leaves it when it
counts. The proof showed two things about the month: the bound is against the highest limit
*since the counter began*, and a limit of 0 still lets through the requests that read the limit
before it, so it counts as 1.

For the voice sessions it proves `SessionsAreReused`, `AnswersAlwaysEnd` and the action
property `InterruptedIsSilent`, for any number of handlers, streams, sessions and events. A
program is a sequence that the state it finds may extend or cut, so `VsInv` speaks
about the rest of every program:

* `Known`: every id in Redis, in a program and in a list that a creation has read was given
  out, and a program without a session asks for one before it does anything else;
* `Formed`: what is left of a creation is a suffix of the whole creation, so that its
  length says at which stage it is; a session is removed from the set only
  right after it was deleted (a handler that fails loses the whole rest); a stream never creates;
* `Streaming`: an answer that is still registered and has not failed has nothing but
  operations of answers left, and ends with the one that forgets it, whichever transitions
  were refused; a stream whose client was told of the interruption is not registered;
* `Alone`, unless there is an excuse: one creation at a time; the list it read holds every live
  session; past the choice there is none; between the insert and the entry in the user's set
  there is only the new one.

`SessionReused` is `Alone`'s last part; each of the five excuses falsifies another part of
it: an overlapping creation the first, a failed read the list or the choice, a creation cut off or an expired set the
rule that the set names every live session, a session written back the rule that there is none. An interrupted stream is silent because it is not registered, only its own
step moves it, and that step looks at the registration.

**Assumptions** on constants: `Users`, `Consumers` and `Calls` are finite and there is a
request; depths, bounds, delays, limits, attempts and times are naturals; prices
and amounts are integers (the code refuses the ones below 1); approver vectors are
sequences of users, batches sequences of items; the default limits are not zero (`init`
stores 60 seconds and 5, 100 and 20 calls), those an administrator sets may be; handlers are not streams; job and operator names are numbers; legacy rows have different ids
(the primary key); `None`, `NoRole` are none of the values they stand beside. TLC
evaluates them on the runs.

**Only model-checked**, and why:

* the liveness properties (`MatchingEnds`, `Settles`, `EveryCallAnswered`, `OwedWhileServed`,
  `FeedReturns`, `MoveCompleted`, `SessionReopens`): fairness and
  `ENABLED` are out of the prover's reach;
* `ChainVerifies`: it sorts two tables and recomputes every hash along the sequence; what
  such a computation returns for every input needs an induction over data. (The sums
  above escape this, because two recursions over one concrete definition can be compared
  at a least counterexample.)

## 5. Not modelled

* **The other contracts** (staking, liquidity mining, AMM, synthetic assets, insurance,
  reserve, academy, social rewards, messaging, router, TCR, token, identity, and the
  Solidity contracts) share no storage and no calls with the modelled ones. Each
  invocation runs alone; what is left to go wrong is mostly arithmetic on amounts,
  which a bounded instance does not reach.
* **Idempotency keys**: a pure function of one input.
  `WorkflowStart` takes the key as given.
* **Request limits**: the sliding window of `RateLimitService` holds one member per
  millisecond, lets requests pass when Redis fails, and a slow request inserts an old time stamp after newer
  ones pruned it. The bound that holds, the limit plus twice the requests in flight, needs
  windows of five time stamps before it says anything.
* **Voice jobs**: `VoiceProcessor`, `VoiceService` and `VoiceController` are not
  part of `VoiceModule` and never run.
* **AI prompts** repeat the order of `LlmAccess`; **API tokens** and **presence** are
  single writes nobody decides on.
* **Monitoring, statistics, observability, health, configuration, frontend** keep no
  state of the system. Cryptography, wording, logging, payloads and metrics are
  abstracted everywhere.

## 6. What is done and what is left

1. ACL, governance, order book, breaker, gate and private trades: modelled, and every
   safety property of their runs proved.
2. Workflow engine and start protocol: modelled, and every safety property of their runs
   proved.
3. Backend services: modelled; every safety property of their runs proved but
   `ChainVerifies`.
4. Three behaviours that a document or a comment excludes are shown by runs of their own
   (`governance_rejected`, `webhook_retries`, `workflow_timeout`).
5. Left: `ChainVerifies` and the liveness properties stay with TLC; the contracts and
   services of section 5 are not modelled.
