# A TLA+ model of the RFQ market maker

This directory holds the formal model of the market maker's backend: TLA+
modules translated from the TypeScript, Lua, SQL and Solidity of the repository,
TLC configurations that check them on small instances, and TLAPS proofs about
them for every value of their constants. Paths below are relative to
`src/backend/src/` unless they begin with another directory of the repository.

## 1. The system

A taker asks a gateway for a quote, receives a signed one, and settles it on
chain. The maker watches the chain, moves its inventory, and hedges at a
centralised venue.

```
 client ── POST /quote ──> gateway ──1──> Redis: issuance ledger, exposure ledger
                             │  └──2──> signer ──3──> Redis (finalize)
                             │                          │ journal stream
 client ── POST /submit ──>  │                          └─4─> mirrors ──> PostgreSQL quotes
                             └──5──> settlement events, inventory, hedge intents
 chain ── logs ──> indexer ─6─> settlement events ──> inventory
                                      │ revision queue
                                      └─7─> reconciliation ──> hedge intents, PnL, quotes
 hedge worker ─8─> hedge_orders ──> venue (one limit order) ──> fills ──> inventory
 gateway <─9── snapshots of the Treasury balance (chain) and of the inventory
```

### Inventory of components

| component | code | state it keeps | operations | what makes it hard | modules |
|---|---|---|---|---|---|
| issuance ledger and gateways | `modules/quote/redis-quote-issuance.*`, `quote.service.ts`, `quote-*.ts` | per key: state, owner token, lease, bound quote; per quote: lifecycle stage | acquire, bind, admit, fail; `createQuote` with its recovery | retries and crashes of gateways, leases that expire under a slow owner, lost replies | `QuoteIssuance`, `OnceOnlyIssuance` |
| signer | `modules/signer/*` | the work on each quote; commits into the ledger | authorize, sign, commit, replay | its answer may be lost, its caller may be gone, its call overlaps the admission | `QuoteIssuance` |
| journal projection | `quote-issuance-journal.mirror.ts`, `postgres-quote-issuance-journal.sink.ts` | consumer group, projected versions, rows of quotes and keys, projected marker | claim, read, apply, mark, acknowledge | duplicated and reordered delivery, poison entries, rows other writers change | `QuoteProjection` |
| exposure ledger | `modules/risk/redis-quote-exposure.*` | reservations, running totals, net deltas, generation, lock, caches | reserve by compare-and-set, release under a lock, expiry | stale evaluations, resent commits, a lock that is a lease, late commits | `QuoteExposure`, `QuoteHandover` |
| snapshots of a gateway | `modules/risk/refreshing-treasury-liquidity.view.ts`, `modules/inventory/refreshing-inventory.view.ts` | the last balance and positions loaded, and when | refresh, read if fresh | two accounts of one liability that change at different moments | `QuoteHandover` |
| hedge jobs | `modules/hedge/*` | rows of `hedge_orders`, leases, the venue's order | create, claim, prepare, query, authorize, submit, cancel, record, fail, retry | never two orders, never an order unwatched; lost answers, stalls, reorgs | `HedgeJob` |
| settlement events, inventory | `modules/settlement/*`, `modules/inventory/*` | canonical events, positions | apply, remove, reactivate, rebuild | a rebuild races the deltas of fills | `HedgeJob`, `SettlementIndexer`, `PostTrade` |
| settlement indexer | `modules/indexer/*` | cursors, leases, checkpoints | claim, index a range, roll back a reorg | reorgs between any two calls, crash between events and cursor, writes of a worker that lost its lease | `SettlementIndexer` |
| reconciliation | `modules/reconciliation/*` | a revision per quote, leases | claim, repair hedge, PnL, quote, mark | a change during the repair, one repair of several failing | `PostTrade` |
| submit path | `api/trading-routes.ts`, `modules/execution/*` | submission reservations | reserve, resolve the receipt, settle, post-trade steps | two submissions of one quote, post-trade steps that fail one by one | `PostTrade` |
| PnL records | `modules/pnl/*` | one record per quote and model | record, remove | conflict with an earlier settlement | `PostTrade` |
| contracts | `contracts/src/*.sol` | used nonces, signers, pause, balances | settle, rotate, pause, deposit, withdraw | replay, deadlines | settlement only, in `QuoteHandover` and `SettlementIndexer` |
| risk policies, quote control, rate limits, market data, analytics | the modules of these names | score snapshots, switches, windows, order books, outbox | see `PROJECT.json` | versions and compare-and-set, sequence gaps, claims | none |

The safety of the whole rests on a few promises, from which the properties are
derived: one signed quote per idempotency key, and the same to every replay; no
signature without reserved exposure; limits evaluated on the truth, although its
parts are read at different moments; PostgreSQL never ahead of, and in the end
equal to, the ledger and the chain; one hedge order per settlement, watched
until it is closed; and an inventory that is exactly what was settled less what
was hedged.

What a test would hardly reach is listed line by line under `hazards` in
`PROJECT.json`, with the properties that cover each, and a note where none does.

## 2. The modules

| module | models | state and actions |
|---|---|---|
| `QuoteIssuance` | the issuance ledger, gateways and signer | one action per Lua script and per await of `createQuote`; the signer's authorization, commit and replay |
| `OnceOnlyIssuance` | what issuance promises a client | a key is refused for good, or owns one signed quote, and clients get only that one |
| `QuoteProjection` | stream, mirrors, PostgreSQL rows, marker | `ReadNew`, `Claim`, `Apply`, `Reject`, `Mark`, `Acknowledge`, `Interrupt`, and direct writes of rows |
| `QuoteExposure` | the exposure ledger of one chain | `Start`, `Read`, `Evaluate`, `Commit`, `Abandon`, `LateCommit`, replies, `Probe`, lock, release, time, restart |
| `QuoteHandover` | a quote's liability from the ledger to chain, database and snapshots, in time | the steps of `authorizeQuote`, `Settle`, `Book`, the refreshes, both releases, `Tick` |
| `SettlementIndexer` | the workers of one cursor, the chain with its reorgs, the rows they and `/submit` write | one action per transaction or RPC call of `runChainOnce` |
| `PostTrade` | the rows that follow a quote's settlement, and their three writers | `/submit` step by step, the trigger with the indexer's writes, the reconciliation job's passes |
| `HedgeJob` | hedge rows, workers, the venue, reorgs, inventory | the steps of `runOnce`, the store's statements, reconciliation's and the gateway's writes |
| `MC…` | instances for TLC | values of the constants |
| `…_proofs` | theorems | inductive invariants and proofs |
| `SumTheorems` | theorems | what the sums of the models compute |

Where two modules contain the same code, each keeps the part the other leaves
out. `QuoteExposure` has the exposure ledger's caches, locks and resent commits with
a fixed inventory, and `QuoteHandover` the same commit against an inventory and a
balance that move. `SettlementIndexer` has the events, `PostTrade` what follows
from them for one quote, `HedgeJob` what follows for its order.

### QuoteIssuance

A Redis script runs alone, so a script is one action: `AcquireFresh`,
`AcquireReclaim`, `AcquireReplay`, `AcquireRefused` and `AcquireExpired` are the
outcomes of `acquireQuoteIdempotencyScript` with what the gateway does on each;
`ApplyAdmission` is the joint admission script (bind, authorize, reserve),
`ApplyCommit` the signer's commit, `FailKey` the failure script. `pc` is the place
of a request in `createQuote`. A request mints its own quote identity, so quotes
are named by requests. With `Speculative` the signature request leaves before
the admission (`authorizationWaitMs > 0`). The gateways of the requests in
`Leavers` may leave their call to the signer (request timeout, connection reset)
while the signer works on; for the others a failed call means that the signer is
done, and only its answer is lost. `Batches` are the sets of requests a
behaviour may send. Leases expire at any time, gateways crash at any step,
scripts may run although their reply is lost.

Left out: the retention of Redis records (a key may be reused after its
retention), the expiry of a reservation's deadline (in `QuoteExposure`), loss of
acknowledged data in a Redis failover, and pricing and routing, which precede any
write. A backlog at its limit is one of the errors a script call may end with.

### QuoteProjection

Events are cumulative and named by their place in the stream. Several mirrors
share the consumer group; `Claim` may take what a slow mirror still processes.
`Apply` is the transaction of `applyMirrored`, which inserts the event once,
raises the projected version, and changes rows by guarded updates; an event
whose guarded update finds nothing is rejected (`Reject`) and stays pending.
Clients submit and expire quotes, and a gateway whose request failed marks the row
of a quote in `GatewayMarks` itself, as `quote.service.ts:413` does. `Converges` excepts
behaviours in which such a mark outlives the quote's events (`MarkedByGateway`), and
`projection_poison` shows why.

### QuoteExposure

`records`, `totals`, `net`, `generation` and `lock` are the keys of one chain.
Evaluation of portfolio policies is abstracted to a band around the net position
(`Acceptable`); the bounds of user, pair and output totals are checked by the
script itself. `Commit` and its resending run the compare-and-set script; a
commit whose caller gave up or restarted may still run (`LateCommit`). `gone`
remembers removed reservations. One release per gateway runs at a time, and the
reading scripts' clean-up alone is not a step of its own; the `complete`,
`prepare` and `authorize` scripts that no process calls are not modelled.

### QuoteHandover

Three accounts must between them count a signed quote at all times: the
ledger's reservation, the gateway's snapshot of the Treasury balance, and its
snapshot of the inventory positions. A reservation leaves the ledger `Grace` after
the deadline (`Expired`), when the quote is not signed after all (`SigningFails`), or
when somebody asks for the status of the quote or submits it past its deadline
(`Release`): `markQuoteExpiredBestEffort` marks the row expired and releases at once,
and the release script asks for no grace. `Polled` are the quotes that meet this, and
`early` remembers those released before their grace had passed.
The module has a clock, `Tick`. Moments are kept as ages and times left that stop
where the code no longer tells them apart, so that time has no bound. `Settle`
is the contract: up to the deadline by the timestamp of the block, which may be
`BlockDelay` behind, and up to the balance. `Book` puts the settlement into
`inventory_positions` within `BookLag`, by `/submit` or the indexer. A load of a snapshot
reads its source at its start and is published later, up to `LoadTime`; its age
counts from then, as in the code. A request reads the balance, keeps it while it
evaluates the portfolio on ledger and positions, and commits under the ledger's
generation, over as many retries as it takes.

`LoadTime`, `RequestTime`, `BlockDelay` and `BookLag` are facts about the
environment. `RequestTime` bounds the seconds from the moment a request's deadline is
fixed to its end. Of these the code bounds the retries of a conflict
(`lockAcquireTimeoutMs`, 100 ms by default and 5 s at most,
`modules/risk/redis-quote-exposure.store.ts:252`); a value beyond `Ttl` stands for no
bound, as then only the refusal of a commit after the deadline ends the request's use of the
balance. The properties hold when

    Grace > BlockDelay + LoadTime + MaxAge + Held,   Held = RequestTime or Ttl - 1,
                                                     whichever is less
    Grace > BlockDelay + BookLag + LoadTime + MaxAge

the first for a balance that a request carries until it commits, the second
for a positions snapshot whose load began just before the booking. The quotes in
`early` are excepted by name: `NoOversell` and `WithinLimit` bound what the others
take, and `SettledIsCounted` is of the others. With `Polled` empty the exception
is, too. That it is needed is what `handover_release` and `QuoteHandoverOversold.cfg` show:
they check the promise of the documents without the exception, `PositionsCount`
and `Solvent`. In `handover` the
grace is one second more than either sum; with one second less TLC finds all three
properties violated. The code demands at
start-up only `Grace > MaxAge` (`runtime/gateway-quote-exposure.ts:154`,
`runtime/gateway-treasury-liquidity.ts:86`); see the findings.

Left out: trades in opposite directions (a settled quote is counted twice until
its grace has passed, which for them is not conservative), inflows,
withdrawals and reorgs, the lock of a release and the cleanup's batch limit (both in
`QuoteExposure`), and the indexer guard, which bounds `BookLag` from the confirmed block on.

### SettlementIndexer

`chain` is the branch the node shows, as a sequence of blocks with a hash and the
settlements in them; a reorg replaces a suffix. `wk` is a worker's place in
`runChainOnce` with what it has read so far: the checkpoints, the logs, the blocks as
were when the logs were read, the hash to be recorded. The head (`ReadHead`), the logs
(`Scan`), the hashes of the blocks that have logs (`Verify`) and the hash that seals
the range (`Seal`) are read in four calls, and a reorg may come between any two.
Nobody asks again about a block without logs: when it is replaced between `Scan` and
`Seal`, the settlements of the new block are behind the cursor for good.
`EventsFollowChain` therefore speaks of the blocks that are still those whose logs were
read, and `NothingMissed`, which speaks of all, is violated. The cursor and its
checkpoints are written by `AdvanceCursor` and `RollbackCursor` under the lease
and the revision. The writes of events before them are not: `applyLog` and
`removeSettlementEvent` do not look at the lease, nor does the gateway's
`StoreReceipt`, which may come after a reorg orphaned the receipt. `late` names
the rows last written that way; `EventsFollowChain` and `RollbackLeavesNoOrphan`
except exactly these. A rollback lists the orphans once and removes them one by
one; a gateway may store a receipt of the branch the worker goes back to while it
does so, and a second reorg may orphan that row before the cursor is rolled back
over it. `fresh` names the rows stored since the list was made, and
`RollbackLeavesNoOrphan` excepts them too: they are removed when the range is
scanned again (`ListStrays`), so that `EventsFollowChain` has no such exception.

Left out: several chains (each has its cursor), RPC errors in kind (any step may
fail), the decoding of logs and their match with the signed quote.

### PostTrade

One quote, its settlements on competing branches, and everything written because
of them. A trigger on `settlement_events` (`Enqueue`) sets the job's desired event
and bumps its revision. A worker claims the job, reads the events once (`List`), repairs the
rows of removed and canonical events in the order of `reconcileJob`, and marks
the revision it read. `/submit` takes a reservation that is a lease, resolves the
receipt, stores the event, creates the hedge, records PnL and sets the status
twice, going on after an error of any of these (`FailHedge`, `FailTrade`, `FailMark`; after
the last mark nothing is left but the release). `overran` remembers a gateway whose
reservation's lease ran out while it was at work, the one exception of
`OneSubmitter`. `late` names rows last written by a
worker that had lost the job, or by a gateway for a settlement that had been
removed by then: nothing fences those. `ProcessedIsProjected` and `Settles`
except exactly these rows, until the next write; `NothingStale` and `Converges` say the
same without the exception, as the documents do, and are violated (`PostTradeStale.cfg`,
`PostTradeLate.cfg`).

Left out: the hedge worker's own steps (`HedgeJob`), amounts, backoff.

### HedgeJob

A settlement event has one row, of a deterministic id, and one client order id.
`wk` is a worker's place in `runOnce`, with `seen` the `submission_attempted` its
claim returned and `got` the venue's answer. Conditions on leases are those of
the SQL: every statement asks for `status = 'queued' AND lease_owner = $2` and
none for the lease's time, so a worker that is only slow goes on until another
one claims the row. The venue accepts a POST, loses it, delivers it late, trades
it in parts, and closes it. `inventory` moves by `amount` on a settlement, by the
difference of cumulative fills in `Record`, and is recomputed by the projection
SQL in `RemoveSettlement`, `Reactivate` and `Initialize`. Quantities are steps of
the route: dust below a step, quote quantities, route columns, backoff and the
evidence of fees are left out, as are `updateStatus` and its kin, which nothing
calls.

## 3. The runs

| run | instance | shows |
|---|---|---|
| `issuance` | 2 requests of one key and payload, one of which may leave its signer, with either a third of another payload or one without a key; speculative | `OneSignedQuotePerKey`, `KeyVerdict`, `AnswersDurable`, `ExposureCoversSigned`, `TerminalStable`, `EveryRequestEnds`, and that the ledger implements `OnceOnlyIssuance` |
| `issuance_early_release` | callers may leave | **violated**: a finalized quote whose exposure was released |
| `projection` | 2 mirrors, batches of 2, 1 fault, direct marks of one row | `NothingLost`, `MarkerIsBarrier`, `RowsAgree`, `Converges` |
| `projection_poison` | direct marks | **violated**: a finalized quote that is never projected |
| `exposure` | 3 quotes, 2 gateways, 2 buckets, 1 expiring, 1 fault | `LedgerBalanced`, `CacheSound`, `LandsInBand`, `NeverResurrected`, `EveryReservationEnds` |
| `handover` | 2 quotes, too much together for the Treasury or for the limit, released early or not; unbounded time | `NoOversell`, `WithinLimit`, `SettledIsCounted` |
| `handover_release` | a grace beyond every delay, a status read past the deadline | **violated**: a settlement that no account counts |
| `settlement_indexer` | 1 or 2 workers, rival settlements, receipts, 1 or 2 reorgs of any depth, 1 fault | `CursorIsCheckpointed`, `EventsFollowChain`, `RollbackLeavesNoOrphan`, `CatchesUp` |
| `indexer_missed_range` | as above | **violated**: a settlement behind the cursor that no row has |
| `post_trade` | 2 settlements of a quote, 2 processes of 3 kinds, 1 reorg, 1 fault | `ProcessedIsProjected`, `OneSubmitter`, `PointersAgree`, `Settles` |
| `hedge` | 1 settlement, 2 workers, amount 2, 2 reorgs, 1 fault | `OneOrder`, `InventoryExact`, `FillsAreReal`, `FailedIsSettled`, `EvidenceKept`, `OrdersAreSettled` |
| `hedge_live_failure` | as above | **violated**: a failed job whose order lives |

Each passing run checks the module's type invariant too. Five more configurations lie
beside the runs, for questions that an instance above does not ask; each is run by
`tlc -config <name>.cfg MC<module>`:

| Configuration | Instance | Shows |
| --- | --- | --- |
| `QuoteExposureCleanup` | all 3 quotes expire, no fault | `LedgerBalanced`, `EveryReservationEnds` where a clean-up leaves overdue records behind |
| `QuoteHandoverConfirmations` | a grace the code accepts, a booking after confirmations | `PositionsCount` violated |
| `QuoteHandoverOversold` | as `handover_release` | `Solvent` violated: open quotes pay out more than the Treasury has |
| `PostTradeLate` | a gateway and a worker, no fault | `Converges` violated: rows of a removed settlement that stay for ever |
| `PostTradeStale` | 2 workers, 1 fault | `NothingStale` violated: an old revision's worker overwrites what the new one did |

Why the bounds are enough. Two requests of one payload and one of another meet
every pair of outcomes on a key (fresh, reclaimed, replayed, refused, conflicting);
what three could do on it beyond that is covered by the proofs. Two mirrors and a
batch of two have an entry in the hands of both, and a batch interrupted in the
middle. Three quotes of two gateways have a commit, a contender that
invalidates it and a release at once. One of them expires there, so that a clean-up,
which removes one record at a time, never leaves an overdue one behind; that is left to
`QuoteExposureCleanup`, as with faults as well the instance is too large. In the handover,
one quote settles while the other is admitted, and the two deployments make either resource the scarce one; a gateway more would only
add a snapshot that is as independent as that of another moment, since the
properties speak of one snapshot and one request each. For the indexer, `Deployments`
names five instances: rivals, where a branch switch moves the settlement to
another transaction; receipts; a chain longer than the lookback window, so that
`DEEP_REORG` happens; a worker that takes over; and a second reorg, which meets
the rollback of the first with a receipt under way. Its ranges have two blocks, so
that a range has an inner block no checkpoint covers. Post-trade processes meet in
pairs, each pair of kinds that write the same row. One settlement suffices for hedges, since rows of different
settlements meet only in the inventory sum; two workers are an owner and the one
that took over; an amount of two has a partial fill; and two reorgs remove an
event again after it returned. Faults are counted, so that the state space is
finite; the counts are `MaxFaults`, `MaxReorgs` and `Expiring`.
`CHECK_DEADLOCK FALSE` is set where the system comes to rest: requests have
ended, the stream is drained, the quote is reconciled, hedges are closed.

Every property of a passing run has a mutant: a definition with a plausible bug
(in the module as a "Faulty variant"), under which TLC finds the property
violated.

### Fairness

* `QuoteIssuance`: a gateway runs each handler to its end (its calls have
  timeouts) unless it crashes, and the signer ends each request it accepted.
* `QuoteProjection`: `runLoop` never stops. New entries are read under strong
  fairness: a claimed entry is not idle again before `claimIdleMs`, so
  claims do not take every iteration.
* `QuoteExposure`: each reservation's handler runs on; the retry deadline is
  *not* used, so that progress under contention rests on the algorithm.
* `SettlementIndexer`: blocks keep coming, the journal's projection catches up,
  a worker that finds the cursor free again and again claims it, and a run that
  can go on does. No lease has to expire, for the holder releases or renews it.
* `PostTrade`: each worker polls and goes on, a lease of one that is gone runs out,
  the indexer follows the chain. Nobody has to settle, submit or finish a request.
* `HedgeJob`: workers poll and end their steps; the claim orders due jobs by
  time, so none is passed over for ever; the venue is not unreachable at every
  query and every cancel (strong fairness of `QueryAnswered`, `CancelReached`);
  an orphaned lease runs out, orders age, and a POST on the wire arrives or is
  lost.
* `QuoteHandover` has no liveness; what must happen in time happens before `Tick`.

### Findings

The first five are shown by the runs that expect a violation.

1. `issuance_early_release`: after a failed signer call the gateway reads a
   quote that is not final *yet*, and releases its exposure
   (`quote-atomic-signing.ts:79`, `quote.service.ts:409`); the signer then
   finalizes it. ADR-0030 says answers are recovered "without prematurely releasing
   exposure".
2. `projection_poison`: a gateway writes `failed` into the row of a quote that the
   ledger finalizes; the finalized event then applies to no row, is rejected,
   claimed again, and rejected for ever
   (`postgres-quote-issuance-journal.sink.ts:149`).
3. `hedge_live_failure`: `recordHedgeFailure` fails an unleased row although it
   was submitted (`postgres-hedge.service.ts:175`); its order is not watched any
   more. `docs/diagrams/hedge-sequence.md:60` wants such a job kept queued.
4. `handover_release`: whatever the grace, a status read or a
   submission past the deadline releases the reservation at once
   (`quote.service.ts:449`, `quote-submittable.ts:65`; the script at
   `redis-quote-exposure.scripts.ts:273` looks at neither deadline nor grace), although
   the quote may have been settled in its last second. Then the settlement is in
   no account until snapshots show it, against ADR-0017.
5. `indexer_missed_range`: the logs of a range and the hash that seals it are read in
   two calls (`settlement-indexer.worker.ts:187` and `191`), and only blocks with logs are
   asked about again. A reorg between the calls seals logs of one branch with the hash of
   another; its settlement is never read. ADR-0006 and `docs/diagrams/submit-sequence.md:82`
   say the cursor moves only after every log of the range.

The others are excepted by name in the properties, or excluded by the bounds, of the
passing runs; the configurations named show each.

6. `QuoteHandoverOversold`: by the same early release another quote may be signed
   on a balance that is already spent, against `docs/diagrams/quote-sequence.md:66`. On
   the chain the second settlement would fail; the signed quote is one the Treasury cannot
   pay.
7. `QuoteHandoverConfirmations`: without any early release, the grace is only compared
   with the age of a snapshot (`runtime/gateway-quote-exposure.ts:154`), not with the
   confirmations after which the indexer books a settlement. The reservation
   expires, and no snapshot of the positions shows the settlement yet, which
   ADR-0017 says the grace prevents. The sample configuration of
   `infra/k8s/settlement-indexer-secret.yaml` waits for 12 blocks of chain 1. The
   balance check still bounds what can be paid out; it is the limits on the
   portfolio that are evaluated without the settlement.
8. `PostTradeLate`: a gateway does not look at its settlement again after storing it
   (`trading-routes.ts:333`). When the worker takes the settlement back in between, the
   PnL record, the hedge or the status written afterwards stay, as they start no
   revision; `docs/diagrams/submit-sequence.md:81` says the desired revision converges.
   `ProcessedIsProjected` and `Settles` except these rows as `late`.
9. `PostTradeStale`: a worker whose lease ran out goes on repairing by the revision
   it read (`post-trade-reconciliation.worker.ts:128`) after another one processed the
   next, which the same line of that document rules out; `late` names these rows too.

Two behaviours are designed to stop and are excepted by name in the properties: a
settlement mined again in another block conflicts with its stored row and
halts the indexer (`Blocked` in `SettlementIndexer`), and the PnL record of an
earlier settlement, or a quote that a reverted transaction failed, keeps a
replacement from being projected (`Blocked` in `PostTrade`).

## 4. What is proved

Every theorem holds for all values of the constants that satisfy the module's
named assumption. `PROJECT.json` lists them: each invariant and each action
property of a passing run is stated by one, and so is the refinement of
`OnceOnlyIssuance`. The assumptions are types of constants, that sets which are
summed over are finite, and that names which stand for different things
differ (`None` and the workers; the rows `"quote"` and `"pnl"` and the events of
`PostTrade`).

* **`SumTheorems`.** The totals of the models are folds of the community modules,
  and no library theorem says what a fold computes. The module proves it: for
  a function `f` and a finite set `S`, the recursion behind the fold has a solution
  on the subsets of `S` (`RecursionExists`), any two agree (`SolutionsAgree`), so
  `Sum(f, S)` takes its elements one at a time (`SumRecursion`) and in any order
  (`SumRemove`); then a sum is an integer or a natural (`SumType`), splits,
  grows with the set, and changes by as much as one of its values changes
  (`SumUpdate`). Induction over sets takes no operator here: each proof picks, among
  the subsets for which the claim fails, one with the fewest elements, and removes
  one from it.
* **`QuoteIssuance_proofs`.** `IssuanceInv == LedgerCore /\ AnswerInv /\ ExposureInv`
  strengthens the properties. `LedgerCore` adds to them that a quote bound to a
  key was minted for that key and its payload, that only a key in progress has a
  live lease, and the two halves of `KeyVerdict`, one from the quote and one
  from the key. Without the first a commit could settle a key with a quote of
  another. `AnswerInv` ties answers to the ledger, and `ExposureInv` says that
  exposure given back under an approved quote was given back after the signer had
  failed it, unless the quote's own gateway may leave. Theorems: types, one quote
  per key, agreeing verdicts, durable answers, stable verdicts, covered exposure
  for every request outside `Leavers`, whoever else leaves, and the refinement
  of `OnceOnlyIssuance`.
* **`QuoteProjection_proofs`.** `ProjectionInv` describes the stream of one quote
  (`StreamTrue`: a decision, then its outcome, and nothing else; a key's verdict
  in an event is the key's) and says that whatever is recorded is covered by the
  version of its row (`RecordedTrue`). The barrier follows from what a mirror
  still holds (`MirrorTrue`): it marks only what is recorded and acknowledges only what
  is marked, also when another mirror claimed the entry meanwhile and marked a later event
  first. Theorems: types, nothing acknowledged is lost, the marker is a barrier, rows
  and keys agree with the ledger.
* **`QuoteExposure_proofs`.** `ExposureInv == Shapes /\ CachesTrue /\
  (\A q : QuoteInv(q)) /\ ReleasesJustified`: the shapes of the variables as far
  as needed, that each state in a cache or view is the ledger's if its
  generation is current, that a quote in flight has the record its step implies,
  and that releases are of reservations that ended. `LedgerInv` is a second invariant, of
  the ledger's sums: each total is the sum over the records (`Balanced`), and of
  whatever subset of them remains, one was admitted with all of that open
  (`Admitted`); the latter is why the bound of a bucket still holds after
  removals, when each record was admitted under a bound of its own. Theorems: caches are sound, the gone
  stay gone, every reservation lands in the band, the totals balance, and types, in which
  totals stay natural numbers.
* **`QuoteHandover_proofs`.** `HandoverInv` is `TypeOK`,
  `TimeInv`, `Covered` and `EvaluatedTrue` of each quote.
  `TimeInv` turns each age into a statement about settlements: a snapshot, a
  load, or a balance a request holds lacks no settlement but those of the last so
  many seconds (`ShowsAllBut`), and a reservation is dropped only when its grace has
  passed, unless it is named in `early`. With a grace that exceeds these seconds, whatever the ledger no longer
  counts is in every snapshot that may still be used; `EvaluatedTrue` carries that
  from an evaluation to its commit, through the generation. The theorems
  `SettledCounted`, `NothingOversold` and `LimitKept` therefore assume `GraceCovers`,
  the two inequalities of section 2, and `SolventUnlessPolled` that `Polled` is empty
  too: then nothing is excepted, the Treasury is solvent, and the positions count every
  settlement the ledger has dropped; in the instances tried around the run's, TLC
  finds `SettledIsCounted` violated as soon as a sum reaches the grace, so they
  are not stronger than needed. No check of the code establishes them: it demands
  `Grace > MaxAge` only. The defaults (a grace of 5 s, or 2 s for snapshots of 1 s,
  quotes of 30 s) meet them when, with the grace of 5 s, a request, a load and the
  delay of a block take 3 s together, and so do a load, the delay of a block and a
  booking; with no bound on a request (`Held` is 29 s then) they meet them never.
  Types need none of this.
* **`SettlementIndexer_proofs`.** The invariant rests on hashes: a block that a reorg took
  away is of an older branch and never comes back (`Real`), so that what a run once
  learnt of a block stays true while the block is there, whoever holds the cursor by
  then (`RangeTrue`, `SealTrue`, `WindowTrue`). The block of a row is fixed when it is
  first written (`Bound`). Only what a run knows of the rows themselves needs that nobody
  has superseded it (`Fence`), and that part excepts the writers no lease
  fences. Theorems: types, the cursor keeps its checkpoint, rows agree, behind it, with
  the blocks whose logs were read, a rollback leaves no orphan. The last was found to be false as
  first stated, without `fresh`, while it was being proved.
* **`PostTrade_proofs`.** `PostTradeInv` follows the worker that owns the job at its
  newest revision (`OwnerTrue`): the events do not change before the next revision,
  so that what its passes have taken back and restored stays so, but for writes
  that come late. Every other write is mild: it writes what the job wants, or is
  named in `late`. A worker that kept the job past a new revision may write
  anything; then the job is not processed, and whoever takes the new revision starts
  over. Theorems: types, a processed job is a projected one but for what `late` names,
  one gateway past the reservation while no lease ran out at work, pointers agree.
* **`HedgeJob_proofs`.** `HedgeInv` relates the row, the venue and what each
  worker holds. `RowInv`: a row off the queue has no owner, a row not marked as
  submitted was never posted, and what a row claims of its order is so. `OrderInv`:
  nothing is at the venue or on the wire that was not posted. `GotTrue`: the answer a
  worker still carries is true of the order, and remains so if the order has
  ended. `LeaseInv` is why one order is enough: a worker that still holds the lease
  it claimed with an unsubmitted snapshot finds the row unsubmitted, for whoever
  submits has to take the lease; so nothing was posted when it is about to
  post, and nothing is at the venue when it fails the job. `OneSubmits`: two workers are
  never both about to post for one settlement. `InventoryExact` is inductive with
  `HedgeInv`: a step changes the share of one settlement in the sum, and the
  position by as much (`MovedByShare`); that rows are created and removed without
  fills is what makes the others neutral. Theorems: one order, recorded
  fills are real, a worker fails only what is settled, evidence is kept, the
  position is exact, types.

Only model-checked: liveness and everything else under fairness, which the prover
cannot do (`EveryRequestEnds`, `Converges`, `EveryReservationEnds`, `CatchesUp`,
`Settles`, `OrdersAreSettled`), and the violations, which are single behaviours.

## 5. Plan

Modelled so far, in the order of importance: issuance, projection, exposure, hedges,
the settlement indexer, post-trade reconciliation with the submit path, and the
handover from ledger to inventory; every safety property of a passing run is
proved. To come:

1. Theorems that runs do not state yet: abstract specifications of the exposure
   ledger and of the hedge of a settlement, with their refinements.
2. Opposite trades in `QuoteHandover`, with the double count during the grace.
3. Contracts: signer rotation, pause and withdrawals; the balance equation.
4. Quote control (versioned switches and their cached view), rate limits, the
   analytics outbox, toxic-flow snapshots, hedge fees, order books, the mirror of the
   exposure ledger; the Lua decimal arithmetic as operators against integers.

## 6. Not modelled

Market-data connections, pricing and routing arithmetic, API parsing, health,
metrics, authentication, the SDK, frontend, scripts and infrastructure: stateless, or pure
input and output. The rest of what is missing stands in the plan. Redis and PostgreSQL
are taken to be linearizable and durable; a script or a transaction is atomic.
