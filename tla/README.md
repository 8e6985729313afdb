# SaveTogether: a verification project

TLA+ modules, TLC configurations and TLAPS proofs for the confidential
prize-savings pool in `src/`.  Depositors keep their principal; the yield on it
is paid out as prizes to accounts drawn in proportion to their time-weighted
balance.  Balances are ciphertexts: the contract computes on them blindly, so an
error cannot revert and a wrong book is not visible from outside.  That is why
the properties below are about books, weights, orders and stale readings, and
not about secrecy.  Around the contract are a session contract that lets an
assistant spend within budgets, the SDK, the assistant's tools in a local and a
hosted deployment, a keeper, and a site; all of them are modelled too.

## 1. Inventory

| Component | State it keeps | Operations | What makes it correct |
|---|---|---|---|
| Balance record (`contracts/ConfidentialPrizePool.sol`, `_push`, `_indexAt`, `_cumulativeAt`) | per account, and for the total, a growing list of (timestamp, balance, cumulative) | append at the clock; read the cumulative at a past moment | lists stay sorted; a read at any past moment, the clock's own second included, never changes again |
| Prize pool, money (same file) | pending credits, winnings, reserve, keeper's pot, the token's balances | `deposit`, `withdraw`, `claim`, `fundReserve`, `fundFeePot`, `harvest` | every token is booked exactly once; an account's claim moves only with its own money and prizes |
| Prize pool, draws (same file) | `_draws`, `accrued`, `_cumAt` | `openDraw`, `revealDraw`, `cancelDraw`, `accrue`, `accrueMany` | windows tile time; weights are frozen at the snapshot and add up to the published total; one payment per account and draw |
| Prize pool, configuration (same file) | tiers, keeper fee, owner, source and its operator right | `setTiers`, `setKeeperFee`, `setYieldSource`, `renounceOwnership` | bounded changes; only the bound source may pull tokens |
| Steakhouse replica source and its batchers | principal, pot, amount in the vault, batches joined and unwound | `supply`, `redeem`, `harvest`, `fund`, `joinVault`, `claimShares`, `requestUnwind`, `claimUnwound` | pot and principal are covered by the tokens and what is in the vault, short of what the books lost; while the books show a buffer a permissionless call takes at most half of it; yield is earned by money that was there |
| Mock source, Zama vault source | principal and pot | the same interface | |
| Session contract (`SaveTogetherSession.sol`) | sessions, remaining budgets, allow list with an index map | `openSession`, `send`, `increaseBudget`, `addRecipient`, `removeRecipient`, `closeSession` | spending never exceeds the budgets; a key is used once; list and index agree |
| SDK, sessions (`packages/sdk`: `client`, `session`, `keystore`) | key records in an OS key store, live sessions, pending owner calls | open, prepare, adopt, resume, send, close, sweep | a crash between steps leaves nothing funded that cannot be recovered; reports say what the chain did |
| SDK, money (`pool`, `wrap`, `vault`, `fhe`, `amounts`) | none between calls | wrap, unwrap, deposit, withdraw, mint, vault status | each precondition is seen to before the step that needs it |
| Assistant (`packages/mcp-server`) | one unlocked vault key, one session, references to ciphertexts; two files of the owner's | every tool; `init`, `status`, the server | a vault signature needs an unlock; a reference names one reading; vaults and other servers' entries are lost in known ways only |
| Console (`packages/console`) | pending prompts, each with a timer | ask, resolve, stop | a prompt is settled once, and what the owner was shown is what the tool was told |
| Hosted server (`packages/hosted`) and the page that opens sessions with it (`Chat.tsx`) | an in-memory key store, tools per token; the page's token and panel | prepare, adopt, status, tool requests | every key in the clear has a reason: a request, or the tools of its own opened session; a closed session reaches no tool |
| Keeper (`scripts/keeper.ts`) | none between ticks; everything is read from the chain | reveal, accrue, harvest, open | every draw is settled in the end, also after a crash or a cancelled draw |
| Site, evidence (`lib/twab.ts`, `lib/draw.ts`, Position, Verify, Vault and the figures of Pool; `scripts/verify-draw.ts`) | query caches, decrypted records, audit rows | recompute weight, odds, prizes, thresholds; list batches | what it recomputes is what the contract computes, also from an older reading |
| Site, money (`Wrap`, `Pool`, `Balances`, `lib/tx.ts`, `lib/chain.ts`) | connected account, cached reads, permits, a pending unwrap in the browser's storage | connect, read, decrypt, press, confirm, dismiss | figures are the chain's and the account's own; a button does what it says, unless for a reason that is named |
| Break, Rubric, Activity, Solvency; deployment, measurement, spikes | presentation, one-off programs | | |

How they interact.  Users and the keeper call the pool; the pool calls the
ERC-7984 token and one yield source, synchronously; the source pulls deposits out
of the pool through an operator right the pool granted it, pays withdrawals
straight to the user, and sends half of its principal through two batchers that
settle on somebody else's clock.  The keeper opens a draw, obtains a decryption
of its randomness and its total from a key-management service, reveals, and
accrues the participants in batches.  A session key spends an owner's tokens
through the session contract within budgets; the SDK drives that contract, and
the assistant and the hosted server drive the SDK.  The site reads the same
chain, and moves the money of an account for which the assistant may be acting
at the same time.

What is hard.  Transactions of any number of parties interleave between a draw's
snapshot and its last accrual.  Failures are encrypted: a declined payment looks
like a made one and the code must gate every effect on an encrypted flag.  Draws
can be cancelled, which makes the window of the next one longer, and can be
accrued in any order through a cache.  Time matters to the second: a deposit and
a snapshot may share a block.  Off the chain everything is an `await`: tool
calls, prompts, prepares, audits and reads of the site interleave with each other
and with the chain, processes die between two writes, answers are lost after the
transaction took effect, and figures are stale when they are used.  The list with
its lines is `hazards` in `PROJECT.json`; every entry names the properties that
cover it.

## 2. Plan

Done: the pool and its record with the abstract `DrawRounds`; the replica source
and its batchers; the session contract with the abstract `Allowance` and the
SDK's client over it; the keeper's loop with liveness; console, vault, tools and
hosted server; the site's evidence and the site's money.  Proofs for the pool's
record, order and books, the session contract and its client, the assistant in
every deployment, the source and the evidence, the screens that recompute, and the
site's money.

Left: the mock source's own books, and a composition of `Replica` with `PrizePool`
in place of the pool's "source that pays all or nothing".

## 3. The modules

The pool.

| Module | What it is |
|---|---|
| `Twab` | The balance record.  `Push`, `IndexAt`, `CumulativeAt`, and the predicate `IsRecord` that appends keep. |
| `PrizePool` | The whole state machine of `ConfidentialPrizePool.sol`: one action per transaction. |
| `DrawRounds` | Abstract: time is covered by settled windows without gap or overlap. |
| `Replay` | What `twab.ts`, `draw.ts` and the audit script compute from a record read at some earlier time: weight, thresholds, the row of a past draw. |
| `Screens` | The figures the Pool, Position and Verify screens derive: clock, cadence, odds, quotes, participation, chart, tier table, and which buttons they offer. |
| `MCPrizePool`, `MCPool` | Instances for TLC: two users, two tiers, tables and initial pools. |
| `SumProofs`, `PrizePoolProofs`, `PrizePoolMoneyProofs`, `ScreensProofs` | The proofs (section 5): sums over a finite set, the record and the draws, the books, and what the screens recompute. |

Sessions.

| Module | What it is |
|---|---|
| `Allowance` | Abstract: an allowance granted once, spent one spend at a time, never raised after it ended. |
| `SessionModule` | `SaveTogetherSession.sol`, a send split at its external call: the token may call back. |
| `Keystore` | The three records of a key and what the secret stores answer. |
| `SessionClient` | The SDK's client over both: opening call by call or as a wallet's batch, adopting, resuming, sending, closing, sweeping, crashing. |
| `MCSession` | The instance. |
| `SessionProofs` | The refinement of the contract, its allow list; the client's openings, its cap, its reports, and that it is a user of the contract. |

The assistant.

| Module | What it is |
|---|---|
| `Console` | Prompts, clicks, timers, shutdown. |
| `Assistant` | The tools as calls that give way at every await; vault key, references, the live session.  Extends `Console`. |
| `Hosted` | The hosted server and the page: prepare, adopt, attach, restart; the wallet; the token, the status requests and the panel.  Extends `Assistant`. |
| `Custody` | The owner's machine: `init`, `status`, servers and the files they write, as processes that overlap and die.  Extends `Keystore`. |
| `Budget` | `remaining`, `can_afford`, amounts by reference, and the page's bisection, in two worlds that differ in the budget. |
| `Deployments` | Where these run: the owner's machine, one process with a vault and a console, or one hosted server with its page; a budget being spent. |
| `MCAssistant` | Its instance. |
| `AssistantProofs` | Its proofs. |

Keeper, source and evidence.

| Module | What it is |
|---|---|
| `KeeperLoop` | The keeper's tick over a pool that others use too, with fairness. |
| `Replica` | `SteakhouseReplicaSource.sol` with the batchers as environment, and the break-even the keeper logs. |
| `VaultViews` | The Vault screen and the assistant's vault tools over `Replica`. |
| `Audit` | The Verify screen's audit and `verify-draw.ts`, one read at a time. |
| `Evidence` | The last three side by side. |
| `MCEvidence` | Its instance. |
| `EvidenceProofs` | The proofs about the source, its lists and the audits. |

Money on the site.

| Module | What it is |
|---|---|
| `Wallets` | Accounts, ciphertext handles, transactions in nonce order, what others do. |
| `MoneyScreens` | One browser tab: what it has read, decrypted, asked for; its buttons. |
| `MoneyTools` | The assistant's tools through `WrapClient` and `PoolClient`. |
| `Site`, `MCSite` | Their composition, its properties, its instance. |
| `SiteProofs` | Its proofs. |

### State and code

`PrizePool`.  `userObs`/`totalObs` are `_userObs`/`_totalObs`; `draws` is
`_draws` with the per-draw mappings `accrued` and `_cumAt` inside each record (an
uninitialised cache entry is `Cold`); `pending`, `winnings`, `reserve`, `feePot`,
`keeperFee`, `yieldSource` are the contract's variables; `tiers` is `tierPrize`,
`tierK` and `tiersSetAt`; `renounced` stands for `owner = 0`; `grant` is the
expiry of each source's operator right at the token; `tokens` is the token's
ledger; `now` the block timestamp.  `lent` and the fields `cleared` and `paid` of
a draw are history: no action reads them.

`SessionModule`.  `session`, `remaining` are `_sessions`, `_remaining`;
`tokensOf` the tokens whose budget is initialised; `recipients` and
`recipientIndex` are apart as in the contract; `consent` are the openings keys
signed, `operatorUntil` and `funds` the token's, and `frame` is the call stack: a
send whose token is running.  `spent` is history.  `SessionClient` adds where an
opening stands (`flow`), which calls a wallet accepted as a batch (`batch`), the
process's live sessions (`live`), and one record per send (`op`).

`Assistant`, `Console`, `Hosted`.  `call` has one program counter per tool call,
between two of which the call holds the event loop; `cached` is the vault's
decrypted key; `live` the session each `SaveTogetherTools` acts for; `memory`,
`tokens` and `attached` the hosted key store, the sealed tokens and the tools
built for each; an attached instance holds its key decrypted (`mcp.ts`), so the
keys in the clear are those of `memory` and of `attached` together.  `page`,
`pageToken` and `status` are `Chat.tsx`'s, `fetches` its status requests between
the call and the answer, and `revoked` is history.

`KeeperLoop`.  `keeper.pc` is the place in `tick`; nothing else survives a tick.

`Replica`.  `principal`, `yield` (`_pending`), `inVault` and the lists of
batches `joins` and `unwinds` are the contract's; `balance` and `shares` are what
the token and the vault say the source has, `held` what the pool has.  `pot`,
`interest`, `harvested` and `unbooked` are history; `unbooked` is what the books
lost: a payment larger than the principal, which `tryDecrease` takes off nothing,
and a count of what is in the vault that overflowed.

`Wallets` and `MoneyScreens`.  `mempool` are the senders' queues, `seen` is the
query cache per account and field, `toRead` the reads asked for, `act` the button
that was pressed with the figures of the render it was pressed in, `stored` the
browser's storage.  `operator` and `sourceLive` say whether the grants to the pool
and to its source still run.  `unseen`, `overtaken` and `received` are history.

### Abstractions

The pool.
* A ciphertext is its cleartext.  ACL grants, events and input proofs are left out.
* `HasPending(u)` stands for "`_pending[u]` is initialised": accrual initialises
  it and nothing takes that back.
* The randomness is chosen when the draw opens, and a revealed draw's cleartexts
  are the frozen ones, which is what the signature check gives.
* `Keccak` and `OrderKey` are constants: any function of their arguments.  The
  rejection sampling in `_uniform` is folded into `Keccak`; the residue stays.
* The binary search is modelled by what it returns (`IsIndexAt`).  `IndexUnique`
  and `IndexFound` in `PrizePoolProofs` prove that this determines it, and
  `SearchFinds` that the loop arrives there.
* `claimMany` is several `Claim` steps: each fold is independent of the others.
* A yield source is a parameter of the step: what it sends on a withdrawal (all
  or nothing), and what it harvests.
* Widths: sums that overflow 64 bits become zero as `tryAdd` makes them
  (`MaxUint64`); 128-bit cumulatives cannot overflow in 2^40 seconds.
* `setTiers`' three tiers are a set `Tiers`; the instances use two.

Sessions.  A key store holds three records per key (`Keystore`); a record cut in
half by a crash is one that is not there, which is how both are read.  A batch of
wallet calls is atomic when the wallet says so, and the answer to it may be lost.

Assistant.  A call is a program counter: between two counters it holds the event
loop, as JavaScript does.  A reference is an id, the instance that minted it and
the reading it names.  A token opens iff it was sealed by this server.  On the
page a status request is sent, answered and shown in three steps, and nothing
cancels it.  `Budget` runs the same calls in two
worlds that differ in the budget only; the wallet's balance, public or asked for
elsewhere, is left out.

Keeper.  A draw is a status and a time.  A lost receipt, a failed call and a dead
process each cost one of `MaxFailures`.

Evidence.  The batchers settle on their own; a batch that was dispatched is taken
as settled.  Batches are listed without repetitions.  In `Audit` a block has at
most one deposit event, and thresholds computed from different inputs differ.

Site.  One tab, one action at a time; the reads a button asked for arrive
together; a wrong network is one of the ways a press fails.  A grant ends at any
time, as a timestamp would make it.  Behaviours are cut
after `MaxSteps` events: clicks, calls, faults, transactions mined, moves of
others; reads and decryptions arriving are not counted.

External, modelled from how the code uses them and marked so in the map: the
token and its wrapper, the batchers and the vault's price, the wallet, the
relayer, the clock.

## 4. The runs

Deadlock is not checked: every system may stop at its bounds, and the off-chain
ones have nothing to do when nobody asks.

| Run | What it shows |
|---|---|
| `pool` | `Inductive` (the invariant of the proofs), `CacheIsTransparent`, `WeightsAreFrozen`; `RoundsSpec`: the pool implements `DrawRounds`; `ScreensAgreeWithPool`: what the screens derive from a record read earlier is what the contract computes; `NeverOverbooked`, `OnlyBoundSourceMayPull`, `EntitlementMovesWithMoney` while the owner binds, rebinds and renounces and sources refuse or pay |
| `money` | `BooksBalance` (held equals owed, the total is the sum of the accounts, winnings add up), `WeightsSumToTotal`, `OnlyStakersWin`, `ReserveBuysOnlyPrizes`, `HistoryMatchesCredit`: the row of a past draw names the prize that was credited |
| `session` | `ImplementsAllowance`: the contract implements `Allowance`, with tokens that call back; `IndexMatchesList`, `SendsWithinCap`, `ReportsMatchChain`, `OpenedKeysLoadable`, `ReadersAreOpened` |
| `assistant` | console: `AnswersAreHonest`, `EveryPromptEnds`; tools: `ReferencesNameOneValue`, `KeyKeptOnlyByFailure`; hosted: `ClearKeysHaveReasons`, `ClosedIsRefused`, `PageTokenIsOpened`; set-up: `LossesAreTheKnownOnes`; budgets: `AnswersHideAndHold` |
| `keeper` | liveness: `EveryDrawResolved`, `EveryoneIsSettled`, `DrawsKeepComing` |
| `evidence` | source: `BufferIsWhatIsNotInVault`, `YieldFollowsPrincipal`, `JoinsSpareTheBuffer`; lists: `ListsAreComplete`; audits: `AuditIsOfOneDraw` |
| `site` | `FiguresAreCurrent`, `PressedMeansMoved`, `ToolRefusalsAreKnown`, `RequestsKeptUntilPaid` |
| `order`, `solvent`, `expiry`, `wedge`, `fee` | expected violations, below |

The three parts of `Deployments` (`about`: setting up, calls, budget) and of
`Evidence` (`studied`: the source, the lists, audits) share no state.  A variable
that no action changes says which of them a behaviour is about, so that one run
explores the sum of the parts and not their product; the theorems are about the
same specifications.

### Bounds, and why they are enough

Each bound is a guard of the actions that would exceed it or the size of a
constant set, and is named in the module or its `.cfg`.

* `pool` is two pools in one run (`owned` in `MCPool` says which, and no action
  changes it).  Renounced: two users, two tiers, time to 4, three draws, room for two
  observations in the total record.  Three draws give every pair of neighbours a
  third: a revealed or cancelled predecessor of a predecessor, all that
  `_windowStart` can see.  Two observations give a read before, between and after
  them, and two in the same second.  With an owner: one user, two sources (one
  bound, one that was), three tables of tiers, one draw, and a reserve filled from
  yield; its owner leaves once source and tiers are set and a draw was opened; the operator right of a source ends with the second it was granted in.
* `money`: time to 3, two draws, three observations; reserve 3 against a grand
  prize of 2, pot 1 against a fee of 1.  Two users give a winner and a loser, a
  payment order and its reverse, and a record another account could touch.  The
  reserve pays one grand prize and declines the second while an ordinary one still
  fits; the pot pays one keeper reward and declines the next.
* `fee`: the instance of `money`.
* `expiry`: one user, two sources, one draw.
* `session`: one owner, one key, amounts to 3 against a budget of 2 and a cap of
  1: two sends race for the cap and for the budget, and one can exceed it.  Three
  recipients are what swap-and-pop needs for a first, middle and last.  One upset
  (a crash, a lost answer, a batch reported as failed) can come between any two
  steps.  Sends are symmetric; no property of the run is about liveness.
* `assistant`: two calls of any two tools (left out are those
  that take the steps of one that is called: `unwrap` as `wrap` in a session,
  `pool_position` as `balance`, `pool_withdraw` and `vault_join` as a hosted `wrap`); two keys, two instances of
  the tools, one restart.  Setting up: two processes, two troubles (a death, or an
  edit by the owner), two keys a directory.  Budgets 5 and 7 share a bucket of 4, 3 and 8
  do not; a bisection from 16 ends.
* `keeper`: two users settled one per chunk, two draws, three seconds against a
  period of 1 and a cancellation delay of 2, two failures: every step can fail and
  its retry too.
* `evidence`: amounts of 1 and 3, prices of 1 and 2, so that the vault returns as
  much and more; two batches a direction, one gift.  Four tokens and a gift make a
  payment past the principal, and past what is outside the vault, possible.
  `MaxUnbooked` lets the first such loss happen.  Audits: two draws, three
  blocks in chunks of 2, two tables.
* `site`: two accounts of which the wallet has one or the other, four events,
  `Attempts` 2 instead of the code's 4: one retry after a lost answer shows what
  three do.  A press, a rival transaction or a switch of account, a confirmation
  and a transaction mined fit into four events.

### Fairness

* `KeeperLoop`: weak fairness of the keeper's steps and of new blocks.  The loop
  has no exit (`for (;;)` with every error caught and logged, `keeper.ts:310`) and the process is
  restarted; failures are finitely many because they are counted.  Cancelling,
  revealing and accruing by others are not fair.
* `Console`: weak fairness of each prompt's timer (`setTimeout`).  Neither the
  owner nor the server's shutdown is assumed to come.

No other run assumes fairness.

### What the expected violations show

* `order`: the payment order is sorted by hash inside one `accrueMany`.  A caller
  that accrues the later winner first, in a call of its own, empties a short
  reserve and the earlier winner is declined, although the comment at
  `accrueMany` says every caller produces the same result.
* `solvent`: the solvency bit is taken when a draw opens and sets nothing aside.
  When an earlier revealed draw is accrued afterwards, a draw that published
  "solvent" declines a winner, although the comment at `SOLVENCY_COVER` calls the
  first clamp impossible by construction.
* `expiry`: the operator right of the bound source ends with its window; only the
  owner renews it, and the contract's intended end state has no owner.  Deposits
  revert from then on; what tab and tools make of that is in `site`.
* `fee`: a settlement pays its caller out of the keeper's pot and the reserve stays
  what it was.  The Pool screen says, in a comment and to the reader, that the fee
  comes out of the reserve and competes with a prize; so it did before the contract
  had a pot for it.
* `wedge`: the keeper opens a draw only when the last one is revealed.  After one
  that was cancelled (anybody may, once it is old enough) it never opens another,
  although the pool would let it, and although the comment in `tick` calls an open
  draw the only thing that can wedge the machine.

### Claims that fail, without a run of their own

Each is a definition beside the properties of its module, and quotes the comment it
states.  The passing property about the same code names these cases and says that
there are no others; added to the configuration of the run named here, TLC shows the
case.

| Claim | Run | What the code does |
|---|---|---|
| `PotIsNeverJoined` (`SteakhouseReplicaSource.sol:280-282`, "the pot is never touched at all") | `evidence` | `redeem` pays from one balance, the pot included, so a withdrawal can take the principal below what is counted as in the vault.  `tryDecrease` then declines the difference, and `joinVault`, which anybody may call, moves half the principal each time, out of the pot.  With `Amounts = {3, 5}`, `Funds = 5`, `MaxGifts = 3`, `MaxUint64 = 64`, `Prices = {1}`, `MaxTime = MaxBatches = 1` and `MaxUnbooked = 0` it does so while the books lost nothing: principal 2, in the vault 3.  `JoinsSpareTheBuffer` is what holds before that. |
| `OfferedMeansAccepted` (`Keepable.tsx:24-25`, "a button that reverts would be worse than offering none") | `money` | "Settle me for round N" is offered whatever the draw's status, and `accrueMany` reverts on an open or cancelled one, or while no prize is set.  `ScreensAgreeWithPool` says so, and that opening and cancelling are offered rightly. |
| `KeystoreIsForRequests` (`keystore.ts:2`, `:42-46`, keys held "for the length of a request") | `assistant` | A hosted `prepare` that fails after it created its key, encrypting the budgets over the network, leaves it in the keystore.  Keys decrypted in attached tools outlive requests by design (`mcp.ts:57-58`); `ClearKeysHaveReasons` counts both. |
| `RevokedPanelIsGone` (`Chat.tsx:181`, "revoking on chain and leaving the credential on screen is the worst of both") | `assistant` | A status asked for before a revocation and answered after it puts the panel back, for a session whose token the page has dropped.  `PageTokenIsOpened` says that nothing else can be shown. |
| `OneVaultPerDirectory` (`vault.ts:53`, "Creates the vault key if there is not one already") | `assistant` | `ensure` lists and then creates, so two processes make two vaults, and each shows its own address to fund. |
| `FundedVaultsUnlock` (`cli.ts:150`, "stays on this machine, encrypted, and unlocks once per session") | `assistant` | A process that ends after labelling its key and before storing its passphrase leaves an address that is shown to be funded and cannot be unlocked. |
| `OtherServersKept` (`cli.ts:59-63`, "Merging rather than overwriting matters") | `assistant` | Claude's configuration reads as empty when it cannot be parsed (`:51`), and is written back without the other servers' entries.  `LossesAreTheKnownOnes` names this and the two before. |

### Observations without a run

No promise of the repository contradicts the first two.  After a source is
unbound, withdrawals are paid out of the pool's own tokens, and a liveness reward
can then debit the pot for tokens the pool does not have: with sources
`Held >= Owed` holds and equality does not.  And `setTiers` between a reveal and
an accrual changes the tables that judge the rest of that draw, which the
contract states itself.

Others are noted at their hazard in `PROJECT.json`, because the model has them as
actions or excludes them by name, but they are not stated as a property: revoking
on the page needs the calldata the server answered (`Chat.tsx:174` against
`:41-42`); `percent` of `can_afford` is taken as basis points (`tools.ts:1015`
against `:987`); a key cached by one tool signs for an overlapping one
(`tools.ts:905-908`); a lost answer to a
submission makes the SDK submit again, so that a deposit may run twice
(`pool.ts:186-198`); the receipt's status is not read (`tx.ts:108`); a cancelled
draw is shown as none; the page looks neither at whether the source may still pull
nor, before a deposit, at whether the
wallet holds the amount; a failed read of the
source makes the keeper open the first draw early (`keeper.ts:182-184`); percentages of an audit may be of newer tiers; the list of
batches never shrinks (`tools.ts:782`).

## 5. The proofs

`tlapm` proves the following for every value of the constants that the named
assumptions of the modules allow (`ConstantsAssumption`, `KeccakAssumption`,
`ScreensAssumption`, `SessionConstants`, `ClientConstants`, `ReplicaAssumption`,
`AuditAssumption`, `CalledAssumption`, `VaultAssumption`, `BudgetAssumption`,
`WalletsAssumption`, `TabAssumption`, `ToolsAssumption`:
finite sets of users, sources, sends and depositors, natural numbers, a hash that
orders users strictly, values such as `None` and `NoOne` that are no key and no
address).  Where a theorem needs more, the hypothesis is part of its statement
and is explained here.

Sums (`SumProofs`).  The sum of a function over a finite set is a recursive
definition.  The library's induction theorems take an operator as a parameter,
which the provers cannot instantiate; `LeastNatural`, a set of naturals with a
member has a least one, does the same work as a least counterexample.  It is used
for sums, and again for the chunks of an audit, for the bisection, for the search
in a record and for a balance held over a stretch of time.

The record (`PrizePoolProofs`).  `IsRecord` says a list is sorted, every past moment
has an index, cumulatives chain, and a positive one was earned.
* `PushIsRecord`: an append keeps it.  `PushKeepsThePast`: an append at the clock
  changes no cumulative up to and including the clock.  `StakeBehindWeight`:
  behind a positive cumulative stands a positive balance recorded strictly before.
* `SearchFinds`: the loop of `_indexAt` starts with the index bracketed, each turn
  keeps it bracketed and comes strictly closer, and where it stops is the index.

The pool (`PrizePoolProofs`, `PrizePoolMoneyProofs`).
* `InductiveHolds`: `Spec => []Inductive`.  Neither the cache nor the windows are
  inductive alone.  A cache entry stays right only because records keep their
  past; it is the right entry for the next window only because a revealed
  predecessor's snapshot is that window's start; that holds only because a draw
  cannot change its status once its successor exists, which follows from "only
  the last draw is open".  `Inductive` is the conjunction: types, `RecordsSound`,
  `WindowsInOrder`, `CacheMatchesRecord`.
* `CacheChangesNothing`, `FreezeHolds`, `WinnersStaked`: weights do not depend on
  the cache, never change after the draw was opened, and a winner had a balance
  strictly before the snapshot.  Each follows from `Inductive` and the lemma
  `RecordStep`, which says that every transaction only appends.
* `OldSourcesAreRevoked`: at most the bound source has an operator right.
* `DrawsAreRounds`: `Spec => RoundsSpec`, the refinement.
* `AlwaysCovered`: `Spec => []NeverOverbooked`.  Given `Inductive`, the inequality
  is inductive.  Each action adds to what is held at least what it adds to the
  books; an addition that overflows becomes zero and books less, so no bound on
  the supply is assumed.  The step that takes work is a batch of accruals: the
  places of its accounts are exactly one to its size (`TurnsRank`), so what it
  credits telescopes to what the reserve lost (`Telescope`, `SettlePays`).

The pool's books (`PrizePoolMoneyProofs`).  The equalities hold as long as no
sum overflows, since one that does becomes zero.
* The hypotheses are `[]HeldFits`, what the pool holds and has lent fits 64 bits,
  and, where single winnings matter, `[]WinningsFit`.  A source can make the pool
  hold more than the token ever issued, since its yield is its own, and so
  they are assumed when there are sources.  `NothingOverflows` discharges them
  for `Sources = {}` and `Issued <= MaxUint64`, and an ERC-7984 token keeps its
  supply in a `euint64`.
* The steps of the pool are of three kinds: one account's money moves
  (`AccountMoves`), no account's does (`NoAccountMoves`), a draw awards prizes
  (`FreshAward`).  Each of the following is three cases and not one per action.
* `ExactBooks`: the total record's balance is the sum of the accounts', and what
  draws credited is what accounts have pending or folded in.  It is inductive only
  with `NeverOverbooked` and `HeldFits`, which exclude the overflows.
* `WeightsAlwaysAddUp`: `WeightsSumToTotal`.  The invariant is `RecordsAgree`: at
  each moment up to the clock the total's cumulative is the sum of the accounts'.
  The next second adds each balance once (`NextSecond`), so `ExactBooks` carries it
  on.
* `ClaimsFollowMoney`, `ReserveIsForPrizes`: the two action properties of the money
  runs.
* `BooksAlwaysBalance`: held is owed.  Needs `Circulates`: what was issued is with
  the accounts, the keeper or in the pool's books, and winnings came out of it.

The screens (`ScreensProofs`).
* `SearchReturns`: the loop of `lib/twab.ts`, for every record and target, returns
  the last index at or before the target.  `PageWeights`: with an old reading too,
  as long as what it misses is later than the snapshot.
* `HistoryIsTrue`: `HistoryMatchesCredit`, under `[][TiersKept]_vars`: once set the
  tiers are not set again, as in the intended end state without an owner.  The row
  of a past draw shows the prize of the moment, so that without it the statement
  is wrong.  The invariant is `Credited`: a settled account was credited what its
  weight and the thresholds give now; the weights do not move (`WeightsStay`) and
  the tiers do not either.
* `ScreensAlwaysFollow`, with no hypothesis: weight, buttons, participation, quotes,
  aggregate and chart.  Of the buttons: opening is enabled only, and cancelling
  exactly, when the pool accepts it, and a settlement that is offered is refused only
  while the latest draw is not revealed or no prize is set.  A holder's cumulative climbs by the balance each second
  (`SecondBySecond`), so that one who sat still weighs balance times window
  (`Slope`, `SatWeight`), and a total above the average of an interval needs a
  balance above it.  The draws and records it relies on are in `OnlyRevealedSettle`,
  `LengthsAgree`, `DrawsHaveRecord` and `WeightsPublished`.
* `ScreensAgree`: all of `ScreensAgreeWithPool`, under `[]HeldFits`, which the odds
  need: they are shares of the published total.

Sessions (`SessionProofs`).
* `SessionImplementsAllowance`: every behaviour of the contract is one of
  `Allowance`, for any owners, keys, tokens and amounts, with tokens that call back
  into the contract in the middle of a send.  It needs `FrameInv`: while a token is
  running, what was clamped before it was called and what it was asked for still
  fit together into the remaining budget, whatever it called back.
* `AllowlistIsIndexed`: list and index map are inverse (`Indexed`) through every
  swap-and-pop, the removal of the last recipient among them.
* `OpenedKeysStayLoadable`, `ReadersHaveSessions`: the invariant is `OpeningInv`.
  A key signs its opening only once its records can be loaded, the contract opens
  only what a key signed, and the call that grants reading is left over, in a list
  or in a wallet's batch, only while the opening before it is still to come or the
  session exists.
* `CapHolds`: the invariant is `CountInv`: the sends that ran with a key are
  no more than its session counts, and the count never passes the cap, wherever
  the other sends stand.
* `SendsReportTheChain`: `ReportInv` says for each place of a send what its record
  knows; a send whose answer was lost, or whose block is still to come, is tied to
  what the contract did with it by `OnChain`.
* `ClientImplementsModule`, `ClientKeepsTheAllowance`: every step of the client is
  a step of the contract or changes none of its state, so what holds of the
  contract holds of the client's use of it.

The assistant (`AssistantProofs`), for every number of calls, keys, sessions,
processes and budgets, on every deployment.
* `ConsoleIsHonest`: who is listed waits, and no prompt is open without a call that
  asked it (`AskInv`).  `VaultIsLocked`: inductive with the types.
* `ReferencesAreNames`: every number handed out is at most the counter of its
  prefix, which only grows (`RefInv`).
* `ClearKeysAreKnown`: only what asks for a token prepares one (`HeldInv`), so a key
  in the keystore belongs to a request under way or to a prepare that failed; tools
  are attached to the token of the key they hold, by a request that found its session
  on chain.
* `ClosedStaysClosed`: a request that came late names a session that is closed, and
  stays so (`LateInv`).  `PageIsCertain`: the page keeps no token while it opens a
  session, what it waits for is the adoption it asked for, and one that was done
  found its session on chain (`PageInv`); a status on its way is of a token the page
  kept or has dropped, so that is what an answer, however late, can show.
* `LossesAreKnown`: a vault is doubled only after a race, dead only when its process
  has still to store its passphrase or ended before it did (`VaultInv`); what was read
  of an intact configuration is everything until it is written (`ClaudeInv`).  The
  three kinds of loss are in the statement; each happens (section 4).
* `AnswersHide`: what a call read is still the budget unless a send was mined since
  (`AskedInv`); a bisection is in the same bracket in both worlds.

The source and the evidence (`EvidenceProofs`).
* `BufferHolds`: the tokens, what is counted as in the vault and `unbooked` together
  are at least pot and principal, for every rate, price, payment and order of calls.
* `JoinsSpare`: as long as the books lost nothing and what is counted as in the vault
  is principal, a join moves at most half of what is there above the pot.  Outside
  that it is false: `PotIsNeverJoined` in section 4.
* `YieldIsInterest`: `YieldFollowsPrincipal`.  The invariant counts what rounding
  loses: accounted interest is at most the interest, and short of it by less than
  one token for each second in which the source settled.  It assumes
  `[]InterestFits` (no overflow) and `Rate # 0`; the constructor does not check the
  rate, and every deployment of the repository passes one that is not zero.
* `ListsNameWhatIsOut`: `ListInv`, for any number of batches and of reads.
* `AuditsAreOfOneDraw`: `AuditInv` says what the walk over the deposits has named
  at its place, that a table is of a draw that was revealed, and that the page is at
  the draw of its audit until it was turned away; for chains of any length and
  chunks of any size.

The site (`SiteProofs`), for every set of accounts, every amount, any number of
events and any length of the senders' queues.  `SiteInvariant` is `Spec => []IInv`;
the theorems below follow from its parts.
* `FiguresStayCurrent`: `FiguresFollow` adds the moments in between.  A figure that
  is not the chain's is being read, was changed by others, or is one the screen's
  `refresh` will read because the tab's own transaction is mined.  That an action
  stays on the screen of its button (`OnItsScreen`) makes that `refresh` the right one.
* `ButtonsKeepTheirWord`: `ButtonsHold` says that what a press was allowed on is
  still there when its transaction is mined, unless `overtaken` notes who took it or
  that the account's grant ran out;
  "Get 1,000" counts on what its own earlier transactions bring, which are ahead of
  the wrap in the same queue (`FundHolds`).  It needs `TheTabAwaitsOne`: the
  transaction waited for is the one of the action, from the account of the press or
  of one that the wallet was switched to.  `TakingIsNoted` is the lemma under it:
  whatever leaves an account with less is in `overtaken`; an approval takes only
  when it lowers the allowance.
* `ToolsSeeToIt`: `SeenTo` says for each place of a tool call what it has seen to:
  the faucet's call covers what was short, the approval is of the amount, the pool
  is operator once the proof is made.  It survives retries because a submission
  made again takes from the account, and is noted as such.  The end of the source's
  grant is the refusal nothing sees to.
* `RequestsStay`: `RecordsBacked` says that USDC comes in only as `received`, so
  that a balance above the baseline by the amount means that much came in since.

Only model-checked: `EveryPromptEnds` and the keeper's three properties, since
liveness under fairness and `ENABLED` are beyond the prover.  Nor is it proved that
the search of `_indexAt` stops: `SearchFinds` says that every turn comes closer; the
recursion of `lib/twab.ts` is proved with its result.

## 6. Not modelled

* Encryption, access control lists and what an observer learns; gas and the
  coprocessor's cost limits; events and the Activity feed.
* The mock source's own books (it stands behind the pool's "pays all or nothing")
  and `ZamaVaultSource`, an earlier adapter that is not deployed.
* The Solvency panel, the Break and Rubric screens and `windowSolve.ts`:
  presentation over figures that are modelled elsewhere, and a demonstration of
  known leaks.
* Calls into the relayer, ABIs and addresses; CORS, body parsing and the rate
  window of the hosted server; the protocol's framing and the wording of answers.
* Deployment and measurement scripts, spikes: programs that run once, and earlier
  pools.

`PROJECT.json` lists every component with its status and the reason.
