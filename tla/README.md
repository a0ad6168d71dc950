# A TLA+ model of MicroVern x402

MicroVern inspects unsigned Algorand transaction groups for a small payment: a
client sends a group and a policy, pays through x402, and receives a report with
a verdict, bound to the request by a hash. This directory models the service and
its clients in TLA+, checks small instances with TLC, and proves their
safety for every instance with TLAPS. Paths below are relative to the
root of the repository.

## Running it

    tlc -workers 2 -config PaidDurable.cfg MCPaidInspection.tla
    tlapm PaidInspectionProofs.tla

Each configuration names in its SPECIFICATION, INVARIANT and PROPERTY lines what
it checks; `PROJECT.json` lists the runs, for every definition the lines of the
source it stands for, and for every property a mutated definition that violates
it. The mutated definitions stand in the modules just before the ones they
mutate ("Mutant of ...") and nothing uses them otherwise.

## Inventory

### The server

| Part | State | Operations | What makes it correct |
|---|---|---|---|
| Startup: `server.ts`, `startup-retry.ts` | attempt, backoff; the table in the database | read configuration, migrate, initialize x402, retry, serve | ends; gives up late enough; never serves half initialized or, on MainNet, without a durable store |
| Unpaid limiter: `app.ts` 204-237 | a window for each client address, in memory | count, refuse with `Retry-After` | bounded bursts; refusals only when earned |
| Idempotency guard: `app.ts` 239-294 | none of its own | acquire, answer by the row, pass on, complete or release | one charge a key, replays only for the same request |
| Stores: `idempotency.ts` | the rows: state, hash, report, expiry | acquire (two queries in Postgres, one turn in memory), complete, release | atomic claim, expiry, no effect of a late holder |
| x402 middleware (library) | payments on chain | verify before the handler, settle after a 200 | no report without settlement |
| Inspection: `analyze.ts` | totals and findings of one group | decode, interpret each transaction, conclude | the verdict covers what the ledger would do |
| Account state: `account-state.ts` | the reads made so far | read accounts, then the round, under one timer | consented; all or nothing; no fact newer than its label; ends |
| Binding: `binding.ts` | none | hash the request, checksum the report, verify | equal requests and only those have equal hashes |
| Validation, profiles, configuration, registry | constants | pure functions | shape of requests and policies |
| Readiness: `app.ts` 160-186 | none | ask the facilitator | says the network that is quoted |
| Metrics, status routes, CORS | counters | count, read | no effect on the rest |

### The clients

| Part | State | Operations | What makes it correct |
|---|---|---|---|
| Agent client: `agent-client.ts` | none | validate, quote, pay, verify the report | signs only a trusted quote, returns only its own report |
| Recovery: `agent-integration.ts` | attempt, key | retry what may be retried | pays once; ends |
| MCP tools: `mcp-tools.ts`, `mcp-server.ts` | none | preview, quote, one paid call | recipients and amounts within the caller's |
| Webhook: `agent-webhook.ts` | none | one signed callback | its report can be verified |
| Browser payment: `docs/assets/microvern-payment.ts`, `browser-payment-policy.ts` | wallet session, displayed quote | restore, drop or make a pairing, re-check the quote, pay | signs only what was displayed; a fresh pairing on MainNet |
| Receipt, history, links: `docs/assets/microvern-verification.js`, `-history.js`, `-share.js` | saved reports in page storage | verify, save, remove, clear, share | copies verify; a save loses nothing but the oldest |
| Safeguards and intent: `microvern-policy-vault.js`, `microvern-intent.js` | contacts and policies in page storage, a draft | edit in several tabs, hand over, compare | a draft is what was saved; a match holds of the ledger |
| Decision panels: `microvern-review-summary.js` | none | mark findings and steps | a change of control is shown |
| Preflight: `mainnet-preflight.ts` | none | three requests | a pass is true of the service that answers |
| Command-line payer: `testnet-payer-client.ts` | none | one payment | within its cap |

### How they interact

A request for `POST /v1/inspect-transaction` passes the size limit, the unpaid
limiter, the idempotency guard, the x402 middleware and the handler, in this
order, and its response passes them back. Every process of the service has its
own limiter and, without a database, its own store; with one, all processes share
the rows, compare expiry with the database clock, and stamp it with their own. The
facilitator settles on chain after the handler and before the guard sees the
response. An agent that gets a 409 or a 5xx sends a new request under the same
key with a newly signed payment; each payment is a signed group of its own, which
the chain accepts once.

### What is hard

The awaits of the guard interleave with those of every other request in every
process. The rows have no owner. A handler may outlive the ten-minute lease it
stamped. A query may fail before or after its effect. The process may die between
the payment and the publication of the report. The chain may take a payment whose
answer never arrives. The database clock is not the clock that stamped the lease.
The agent retries on answers that may hide any of this. `PROJECT.json` lists each
such place under `hazards`, at its line, with the properties that cover it or the
reason why none does yet.

## Plan

1. `PaidInspection`, `KeyLease`: guard, stores and payment. *Done, proved.*
2. `AgentRecovery`: recovery against the guard. *Done, proved.*
3. `Analysis`: the verdict. *Done, proved.*
4. `ServiceProcess`: startup, limiter, readiness and preflight. *Done, proved.*
5. `Preview`: what callers conclude from a report. *Done, proved.*
6. `InspectionHandler`, `PayingClient`, `ReportCopies`, `PolicyVault`, composed in
   `Callers`. *Done, proved.*
7. `SumLemmas`: the inductions and the facts about sums that 3, 4 and 5 need. *Done.*

*Proved* is every safety property of the passing runs; liveness is checked by TLC alone.

What could come next: what the guard still promises of a key when handlers outlive their lease, as
an invariant weaker than `PromptInv`; and for startup the variant that `RecoveryNeverGoesBack`
is for the recovery.

Also to be looked at: `docs/PRD.md:119` says that paid requests "must use an
idempotency key in production"; the guard lets a paid request without one pass.

## The modules

### PaidInspection

One HTTP request is an element of `Requests`; its key, body hash and payment
proof are constants (`KeyOf`, `HashOf`, `ProofOf`), and requests may share any of
them. `pc[r]` is the await the request stands at:

| `pc` | stands before | action |
|---|---|---|
| `idle` | the guard | `Arrive`: no key or no proof passes; an unparsable body is a 400; else `expires_at` is stamped |
| `acquire` | `INSERT ... ON CONFLICT DO UPDATE WHERE expires_at <= NOW()`, or the map | `Claim`, `ClaimFails`; `AcquireInMemory` |
| `lookup` | the `SELECT` after a claim without a row | `Lookup`, `LookupFails`; both stores answer by `Refuse` |
| `verify`, `inspect`, `settle` | the facilitator, the handler, the settlement | `Verify`, `Inspect`, `Settle` |
| `finish` | `complete` or `release` | `Complete`, `CompleteFails`, `Release`, `ReleaseFails` |
| `done`, `lost` | | answered; its process died |

`rows[s][k]` is the row of key `k` in store `s`, one shared store or one for each
process. `by` is a history value in it: for a published row it identifies the report (the
code has the report itself there), for a processing row the claimant, which the code
does not record; no guard of an action reads it. `now` is the database clock and
`Skew[s]` what a process clock adds to it. `Crash(s)` kills the requests of a
process and, without a database, its map.

What is refused before the guard (413, 429, a malformed key) touches no row and
is left out; `HashOf[r] = NoHash` stands for every body that `validation.ts`
rejects. A body that parses may still be refused by the analysis, so `Inspect`
may answer 400 or 500 to any.

`KeyLease` is the abstract promise: a key is lent to one request at a time, and
only the borrower is charged, publishes or gives back, before the lease lapses.
`KeyIsLent` maps every row to a slot of it and every settlement of a keyed
request to a charge.

Parameters that choose the environment: `Durable`, `FaultyStore`,
`LossySettlement`, and `PromptHandlers`, the assumption that no handler outlives
its lease. The code has no timeout that would enforce it; it is stated as a
constraint on `Tick`, and every theorem that needs it has it as a hypothesis.

### AgentRecovery

Extends PaidInspection with the agents: the i-th attempt of an agent is a request
`AttemptOf[<<a, i>>]` with the agent's key and body and a payment of its own.
`Prepare` is `inspect` up to the payment (validation and quote, which do not touch
the guard), `Send` the arrival of the paid request, `Receive` what `inspect` makes
of the answer and the recovery of its error, `Disconnect` a fetch that throws.
`BadGateway` is the 502 of the proxy in front of the service, when there is no server or it has
died over the request: a status of at least 500 is "unavailable", which recovery retries. A
proxy that gives up on a handler that is still at work is not modelled. `MaxAttempts` is set by
each call, from one to three.

### Analysis

`inspectUnsignedTransaction` with the loop over the group as a state machine:
`Decode`, one `Interpret` for each transaction, `Conclude`. A transaction is a record of
the fields the code reads; findings are pairs of code and position. Amounts and
limits are atomic units (the code rounds a limit to those first). The properties
compare the report with `Source`, `Loss` and `Closes`, which say what the ledger
does and use none of the code's own helpers, and with a definition of the verdict
that has no loop (`VerdictUnder`). `OwnLoss` is what an account's own spending costs it; a clawback
is no spending, even from the account that sends it: the code counts it against no limit and
gives it a finding of its own. An asset is not called `"algo"`, the unit of the other limit.

### Preview

Extends Analysis with the callers that rely on the report it ends in: the profiles as
policies (`Profile`), the stricter of profile and caller under which the MCP tools
preview a group (`LocalPolicy`, `Prepared`), the comparison with a declared intent
(`Matched`, `IntentMatches`) and the marks of the review page (`ControlChanged`,
`Marked`). The service is asked under the profile alone, so `PreviewProtects` relates
two policies on one group, and both to what the ledger does.

### ServiceProcess

`main()` from `Launch` to `serving`: the three statements of the migration, the
payment server, the catch of the retry loop (`Fail`, `Delay`, `Retry`), crash and
restart; and `Unpaid`, the limiter, while it serves. The time slept is counted in
`waited`, not on the limiter's clock: a starting process serves nobody. A start reads
an `environment` (the fields `main()` tells apart, each with its accepted, refused and
missing class), and a restart may bring another. `schema` is what the database has of the
table, which outlives processes and may be of an earlier release.
`PreflightHealth`, `PreflightReady` and `PreflightQuote` are the three requests of
`verifyMainnetPreflight`, each to whichever process then serves; the last one passes
the limiter like every request without a payment.

### InspectionHandler

The service's side of one inspection, after the guard and the payment: `Receive` is the
handler up to its first await (`Parses`, `Decodes`, and the answers that need no read),
`ReadAccount` and `ReadStatus` the sequential reads of `account-state.ts`,
`ObservationFails` every way they end early, the shared abort timer included, `LedgerMoves` a
new round between two reads. `asOf` is a history value, the round an account was read at.
A digest is the record that is hashed, so equal digests are equal inputs; which fields
enter each digest is as in `binding.ts`. The reads go to one Algod node, whose rounds only
grow.

### PayingClient

One payment call at a time, of any payer: the page with Pera or Lute (`Wallets`), the agent
client, the MCP tool, the command line. `step` is the await a call stands at:

| `step` | action | code |
|---|---|---|
| `validate` | `Validate` | the free check of agents |
| `quote`, `quoted` | `ShowQuote`, `EditForm`, `Click` | the displayed quote, the form after it, the payment buttons |
| `restore`, `unpair`, `connect`, `recover`, `lute` | `Restore`, `Unpair`, `Connect`, `Recover`, `ConnectLute` | `restoreOrConnectPeraSession` and the fresh pairings |
| `paired` | `CheckPayer` | the checks after pairing |
| `unpaid` | `PostUnpaid` | the paying fetch's first request, the quote filters, the signature |
| `paid`, `waiting` | `PostPaid`, `GetAnswer` | the paid request and its answer |

`session` is the pairing stored in the browser, which outlives calls, and `unheard`
says that the page has given up on a pairing that the wallet may still complete
(`WalletCompletes`). The service may quote other terms on every request (`Offers`).

### ReportCopies, PolicyVault

`ReportCopies` has the fields that the webhook, the history and a share link copy of a
report (`Sanitized`, `SharePayload`), the receipt verifier of the pages
(`BrowserVerifies`), and the history store: `Save` (which drops an older copy, sorts and
cuts), `Remove`, `Clear`, and `Spoil` for a store that something else has written. `Filtered` is
JavaScript's `filter`, as a recursive function on the positions of the list. The
reports in a user's hands (`Pasted`) are ones that the service makes of some request
(`IsReportOf`): the history checks their shape and no more, and its properties are about
what it does with them.
`PolicyVault` has the stored safeguards and the tabs that have each read them once: every
edit writes the whole of what the tab knows (`Write`), so that tabs overwrite each
other; `UsePolicy` hands a boundary to the intent check. `saved` is a history value.
Nothing keeps a saved policy from being overwritten, and no doc promises it;
`OverwritesAreStale` says by whom: a tab that does not know the policy. `SafeguardsAreKept`
says that no draft is weakened by it.

### Callers

Composes the four: `PostPaid` of the client is `Receive` of the handler, and `GetAnswer`
its `Answer`. The pages share no state but what a user carries from one to the other, so
a behaviour is about one `page`; this bounds the state space and hides nothing, since no
action of one page reads a variable of another.

### The proof modules

`PaidInspectionProofs`, `AgentRecoveryProofs`, `AnalysisProofs`, `PreviewProofs`,
`ServiceProcessProofs`, `ReportCopiesProofs` and `CallersProofs` extend the module they are named
for, and `AgentRecoveryProofs`, `PreviewProofs` and `CallersProofs` also the proofs of
the module it is built on. `SumLemmas` is about no module of the system.

## What each run checks

| Run | Instance | Shows |
|---|---|---|
| `PaidDurable` | 2 processes, the second one's clock late; 2 paying requests with one body and one without proof; failing queries, lost settlements, a crash; lease 2, time to 4 | `TypeOK`, `SecondChargeOnlyAfterLapse`, `KeyIsLent` |
| `PaidThree` | 1 process, 3 paying requests, one key, two bodies; lost settlements; time to 4, so that two leases lapse | `EveryReportWasPaid`, `ConcurrentDuplicateIsRefused`, `ReplayIsBoundToRequest`, `RefusedByALease` |
| `PaidMemory` | in-memory store, 2 keyed payments, an unparsable body, a second delivery of a payment without a key; a crash | `SecondChargeOnlyAfterLapse` |
| `PaidSlow` | handlers may outlive their lease | *violates* `ReplayIsBoundToRequest` |
| `PaidLossy` | lost settlements | *violates* `KeyIsChargedOncePerLease` |
| `AgentRecovery` | 2 agents, one key, two bodies, the one with a single attempt and the other with two; slow handlers, failing queries, lost settlements, a crash, lost connections, a proxy's 502; lease 1, time to 1 | `AgentTypeOK`, `ReturnedReportIsOwn`, `RecoveryPaysOnce`, `RecoveryEnds`, `PublishedReportIsKept` |
| `AgentConflict` | two attempts each, without failures | *violates* `RejectedKeyIsNotRetried` |
| `Analysis` | every group of one or two of 18 sample transactions, some of three, four that are refused; every policy that sets at most two fields | `AnalysisTypeOK`, `LimitsHold`, `AllowKeepsAccounts`, `EveryBeneficiaryIsListed`, `EvaluationExplainsVerdict`, `StricterIsNoMilder`, `PrefixIsNoMilder`; with the profiles, callers' limits and eight intents: `PreviewProtects`, `IntentIsKept`, `ControlIsShown` |
| `AnalysisAllowlist` | the same | *violates* `EmptyAllowlistPermitsNoAsset` |
| `ServiceProcess` | 4 attempts with delays 1, 2, 3 (capped), a restart; 2 requests in a window of 3, time to 5; a preflight, started under any of the sample environments | `ServiceTypeOK`, `ServesOnlyReady`, `GivesUpOnlyAfterBackoff`, `BurstIsBounded`, `StartupEnds`, `RefusalIsEarned`, `PreflightTellsTruth` |
| `Callers` | 3 calls of any payer with 8 bodies and 7 quotes, 3 accounts; a group of two senders, the ledger to round 2; five reports in a history of 3, the clock to 2; two tabs, two contacts, two policies | `CallersTypeOK`, `SignsOnlyWhatWasQuoted`, `MainnetPayerIsFresh`, `ObservationIsAsOfItsRound`, `PlainCopiesVerify`, `SafeguardsAreKept`, `ReadsAreConsented`, `SavedReportStays`, `InspectionIsAnswered`, `OverwritesAreStale` |
| `CallersReceipt` | the same | *violates* `GenuineReportVerifies` |

**Why the bounds are enough.** Two requests are enough for one to hold a row and
another to disturb it; the late publication that `PaidSlow` finds takes three (the late
holder, the new claimant and the one that is misled), so `PaidThree` has three. A lease of
two units has an instant strictly inside it, and the time bound lets a second lease
begin and lapse. One key is enough, for no action of one key reads or writes another's
row. In `AgentRecovery` an agent that retries and another that disturbs it are enough,
so the other one makes a single attempt. In `Analysis` rules interact in pairs (a flag with an
allowlist, a limit with a limit), and a position matters as first, last or
between. In `ServiceProcess` a window of three has instants at its start,
inside and at its end, the clock runs through two windows, and the third delay meets the cap;
one identity is enough, since no window reads another. In `Callers` a third call is the first that
can meet a session left by one call and a pairing completed late from another; two senders have a
round between their reads and one after them; five reports overflow a history of three by more
than one; and a second tab is enough to overwrite the first one's edit. `MaxCalls`, `MaxRound` and
`MaxPolicies` occur only in guards, `MaxRecords` stands for the code's 40. `MaxCrashes`, `MaxTime`, `MaxRestarts`
and `MaxRefused` are bounds of the instances and occur only in guards. When a bounded
instance has run out, a step that changes nothing (`Quiescent`, `AllEnded`, `Returned`, `Done`)
stands for it, so that TLC still reports every other deadlock; `Callers` does not check deadlock,
for a page may rest and its calls run out.

**The five disagreements.** They are listed under `findings` in `PROJECT.json`
with the quoted lines.

1. `complete` has no owner check (`src/idempotency.ts:145`): a report published
   after its lease lapsed lands in the row another body has claimed and is replayed
   for that body. The agent's own check of the binding catches it: `ReturnedReportIsOwn`
   holds with slow handlers.
2. A 402 that hides a settlement gives the key up (`src/app.ts:281`), and the next
   payment under it is charged.
3. Every 409 is "in-progress" to the agent (`src/agent-client.ts:65`), so a key
   bound to another body is retried.
4. Only transfers count as touching an asset (`src/analyze.ts:143`): under an empty
   allowlist an asset configuration or freeze is called for review, not blocked.
5. The pages' receipt verifier hashes neither the consent to account-state checks nor the
   observation (`docs/assets/microvern-verification.js:51`), so a genuine report made with them
   fails it. `PlainCopiesVerify` shows that a report made with neither these nor a profile passes,
   and every copy of it.

## Fairness

`FairAgentSpec` has weak fairness for the next step of every request that has reached the
guard: the event loop resumes an await whose promise settles, and a query or a facilitator call
returns or throws in the end. The last is an assumption on what the code calls: the pool sets
a time for getting a connection (`idempotency.ts:85`), none for an answer. It also has weak
fairness for the steps of an agent, whose fetch settles and whose wait ends. There is no
fairness for time, for crashes, for a lost connection or for a 502. `FairSpec` of ServiceProcess has it for the steps of
`main()`. In `Callers` only the abort timer of the reads is fair (`AbortSignal.timeout`):
neither Algod, nor a wallet, nor a user need ever answer. No property needs strong fairness.

## What is proved

For any number of processes, requests, keys, any clock skew that leaves a stamped
lease in the future, and any bounds (`PaidInspectionProofs`):

- `PaidInvariance`: `PaidInv` is inductive. Besides the types it says how far each request
  has got (`Progress`: nothing is settled before `settle`, a 200 has settled) and that stored
  reports are paid for. `TypeCorrect` and `ReportsArePaid` follow, and
  `PublishedReportsStay` from the shape of the steps under it.
- `RefusalInvariance`: in `RefusalInv` every row carries the lease of a request past the guard
  (`LeasedTo`), also a row that a late completion filled or whose claim threw, and whoever
  stands before the second query or was refused met a lease that was live when it came. A live
  row blocks who meets it, and what blocked a request once does so for good, since a lease is only
  renewed. `RefusalsMeetLeases` follows, for either store and handlers however slow.
- `PromptInvariance`, assuming `PromptHandlers`: the difficulty is that rows have no
  owner, so the mutual exclusion of requests rests on time alone. `HolderOwnsRow` says
  that a request past the guard is still inside the lease it stamped and that the row is exactly the
  one it wrote; `PublishedIsBound` that a published row has the hash of its author;
  `ChargeIsGuarded` that a heard charge has its row until the lease lapses, whatever has become
  of the request. From this invariant follow `DuplicatesAreRefused`, `ReplaysAreBound` and
  `SecondChargeWaits`.
- `StoreKeepsPromise`, assuming `PromptHandlers` and `Durable`: initial states map to
  initial states of `KeyLease`, and each action to a step of it or a stutter.

`PaidSlow` shows that the assumption is needed. The assumptions on constants are stated in the module:
`NoneAssumption`, `RequestAssumption`, `ClockAssumption` (a stamped lease lies in the
future of the database clock) and `ModeAssumption`.

### Sums

The limits, the risk score, the backoff and the bursts are sums. The induction theorems of the
library take an operator as a parameter, which no installed prover instantiates; `SumLemmas`
states the two inductions it needs with the *set* of what has the property instead
(`CountingUp` over the naturals, `TakingAway` over the subsets of a finite set), both from
the well-foundedness of `<` on the naturals. `SumFunctionOnSet` of the community modules chooses a
recursive function; `SumsExist` builds it, and `SumByElement` shows that the sum does not depend
on the order in which it takes its elements. The other lemmas (a sum over less, an interval
one longer, one value raised by one) are what the proofs below cite. The same way
`ReportCopiesProofs` proves by induction what `Filtered` keeps, and in what order.

For groups of any length, any accounts, assets and policies (`AnalysisProofs`):

- `LoopInvariance`: `LoopInv` is inductive. Every finding and recipient of an interpreted
  transaction is kept (`SeenIsKept`), none is made up (`NothingElseIsKept`), the running
  totals are the sums of the amounts so far (`TotalsAddUp`), and the report is of
  the whole group. `AllowedGroupsKeepAccounts`, `BeneficiariesAreListed` and
  `VerdictIsExplained` follow from the first and the last part.
- `VerdictOnlyHardens`: no transaction makes the verdict so far milder. The sums grow, sets of
  findings and assets grow, so a blocker stays one.
- `LimitsAreKept`: what a transaction costs an account that spends its own is at most what the
  loop counts of it; so the sum over the account's own transactions is at most the total, and
  the total of a group that is not blocked at most the limit. The proof does not go through for
  a clawback that an account sends against itself, and rightly: the code does not count it. The
  property therefore speaks of spending, and the samples contain such a clawback.
- `StricterPoliciesAreNoMilder`: what blocks or flags a group in the loop's state is what
  `VerdictUnder` objects to in the group itself (`BlockedMeans`, `HasMeans`), and each objection of a
  policy is one of every stricter policy.
- `AnalysisIsTypeCorrect`: besides shapes and positions, a risk score of at most 100, which
  needs that the findings are finitely many.

For any profile, caller's caps, list of recipients and intent (`PreviewProofs`):

- `ControlChangesAreShown`: both directions of what `LoopInv` says of findings; the first
  marked step exists because positions are well-founded.
- `PreviewIsProtective`: the policy of the preview is stricter than the profile the service is sent
  (`LocalPolicyIsStricter`), so by the lemmas of `StricterPoliciesAreNoMilder` the service does not
  block what the preview lets through; recipients and caps come from
  `BeneficiariesAreListed` and the lemmas of `LimitsAreKept`.
- `IntentsAreKept`: the report's recipients, assets and totals are exactly the group's, both ways.

For any retry options, limit and window (`ServiceProcessProofs`):

- `StartInvariance` says which statements have taken effect at each point of a start, whatever
  earlier attempts and processes left behind; `ServingIsReady` follows, and with it
  `PreflightIsTruthful`: the last request of a preflight that passes is answered by a process
  whose start has checked what the preflight claims, so no redeployment between its requests
  can mislead it.
- `RetryInvariance`: what a start has slept is the sum of the delays of the attempts
  behind it, so one that gives up for a passing failure has slept all of them
  (`GivingUpIsLate`).
- `LimiterInvariance`: the difficulty is that a span as long as a window may lie across two
  windows, and across restarts, which forget them. `LimiterInv` bounds what every such span has let
  through by where the present window opened: before it, only `Earlier` counts, one full
  window less its first request and one for each restart; after it, the window's count without
  the request that opened it. `BurstsAreBounded` is the sum of both. `RefusalsAreEarned`
  uses the lower bound beside it: an active window that refuses has let `Limit` through since
  it opened, less than a window ago.
- `ServiceIsTypeCorrect` follows from the three invariants.

For any number of agents with one to three attempts each, over any store and handlers however slow
(`AgentRecoveryProofs`, which uses the lemmas of `PaidInspectionProofs`):

- `AgentInvariance`: `AgentInv` adds two facts to `PaidInv`. `Hidden` says that a report
  is attached only to a settlement that was heard of, and to none that was answered with a 402 or
  a 500. `Attempted` says that every attempt but the
  current one has not begun, or is over, its payment `Untold` if there was one: the process died
  over it, or a failed release put a 500 in place of the 402 of a lost settlement.
- `RecoveryChargesOnce` follows: a retry starts only after an answer no charge hides
  behind, but for these two cases. There the agent does pay again: in the double failure as soon as the
  key is free, which it is at once if the release did take effect; after a death not before the
  lease has lapsed, as long as handlers are prompt (`SecondChargeOnlyAfterLapse`, which
  `RecoveryKeepsPromise` carries over). `RecoveredReportsAreOwn` needs neither prompt handlers
  nor a sound replay, only the agent's own check of the binding. `AgentTypesCorrect` bounds the attempts.
- `RecoveryKeepsGuard`: a recovery is a behaviour of `PaidInspection`, each step of an agent being
  a step of the guard or a stutter. With `StoreKeepsPromise` and `SecondChargeWaits` this gives
  `RecoveryKeepsPromise`, about agents that retry under shared keys.
- `RecoveryNeverGoesBack`: each step of an agent raises `Reached`, which is at most
  `3 * MaxAttempts[a] + 3`, and nothing else touches it. What remains of `RecoveryEnds` is that the
  steps are taken, which is its fairness.

For any groups, quotes, accounts, contacts, tabs and saved reports (`CallersProofs`, which
uses the lemmas of `ReportCopiesProofs`):

- `CallersInvariance`: the conjunction of `HandlerInv`, `ClientInv` and `VaultInv`, which
  say how far an observation, a call and an edit have got; the step lemmas are by module,
  so the composition adds only that each step leaves the other parts alone.
- `PaymentsAreQuoted`: what a page has shown for a body is kept until the signature, since
  every step in between checks that the form has not changed, and the last filter compares the
  fresh quote with it. `MainnetPairingsAreFresh`: no MainNet call passes through a step that
  restores, and a pairing that completes late is never awaited again.
- `ObservationsAreHonest` (accounts read so far are the first targets, none newer than the
  ledger), `ReadsHaveConsent` and `DraftsAreSaved` (whatever a tab edits or the store holds, its
  policies are as they were saved).
- `OverwritesLoseTheUnseen`: every write stores what its tab then knows, so a policy that leaves
  was removed or is not among what the writing tab knew, and one that comes back was.

- `AnswerInvariance`: the service handles a body exactly while its caller waits, and what a caller
  is returned is a report of the request it sent (`IsReportOf`).
- `HistoryInvariance`: the store has one record of each report, newest first, at most
  `MaxRecords`, though the clock may go back: an insertion keeps the order because what is
  filtered from an ordered list is ordered. `CallersAreTypeCorrect` adds the types.
- `PlainCopiesAreGood`: nothing that the copies leave out enters the checksum of a
  report without profile and account state; and two requests with one hash have one report, so the
  history's identifier is enough.
- `SavedReportsStay`: a save loses only what `Cut` cuts, and that is older than all it keeps. The
  step that needs care is a save of a report that is there already: it replaces its older
  copy, so the list is no longer than before, and nothing is cut. The theorem counts reports,
  not positions; `OneOfEach` says that they are as many.

The further assumptions on constants are named in their modules: `AnalysisAssumption`,
`PreviewAssumption` (limits are natural numbers, intents have the shape that the page gives them),
`ServiceAssumption`, `AgentAssumption`, `HandlerAssumption`, `ClientAssumption` and
`CopiesAssumption` (the reports a user has come from the service). TLC evaluates each of them
in the runs.

TLC finds each of the inductive invariants (`PaidInv`, `RefusalInv`, `PromptInv`, `AgentInv`, `LoopInv`,
`StartInv`, `RetryInv`, `LimiterInv`, `HandlerInv`, `ClientInv`, `VaultInv`, `AnswerInv`,
`HistoryInv`) to hold on the instance of a run of its module, if it is added to the
configuration; the runs check what follows from them.

## What is only model-checked

`RecoveryEnds`, `StartupEnds` and `InspectionIsAnswered`: they are
liveness under fairness, which this prover does not reach. The five properties that a run
violates have nothing to prove. Every other property of a run is a theorem.

## What is not modelled

- Metrics, CORS, discovery metadata, the status and sample routes: nothing reads them back.
- The registry of applications, the wording of reports, the decision guide and the demo
  groups: constant texts.
- The outcome of a Bazaar lookup, tool schemas, the stdio transport, the webhook's signature
  and single POST: they keep no state and nothing of the program depends on them.
- The encoding of canonical JSON, of links and of transactions, and the shape of Algod's
  answers: a digest is the record of what is hashed, a readable answer is an observation.
- The generated bundle (its source `microvern-payment.ts` is modelled), markup, deployment.
- The limiter's map of windows is never emptied; the model has a fixed set of identities and
  says nothing about memory.
- Several inspections in one process at once: the handler keeps nothing between two of them, and
  their interleaving at the guard is the subject of `PaidInspection`.
