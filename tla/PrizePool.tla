------------------------------ MODULE PrizePool ------------------------------
(***************************************************************************)
(* contracts/ConfidentialPrizePool.sol: deposits and withdrawals over the  *)
(* time-weighted record, the draw life cycle, accrual of prizes, the       *)
(* keeper's pot and the seam to a yield source.                            *)
(*                                                                         *)
(* One action is one transaction.  Ciphertexts are their cleartexts.       *)
(* `tokens` is the external ERC-7984 ledger: a transfer moves the whole    *)
(* amount or nothing, except that an unauthorised transferFrom reverts.    *)
(* What a yield source answers is a parameter of the action, so a module   *)
(* that composes the pool with one source constrains it further.           *)
(***************************************************************************)
EXTENDS Twab, FiniteSets, Functions

CONSTANTS
  Users,              \* accounts that deposit
  Keeper,             \* the account that keeps the draws going and donates
  Pool,               \* the pool's own token account
  Sources, NoSource,  \* yield sources the owner may set; none
  MaxUint64,          \* type(uint64).max
  Tiers,              \* 0..TIERS-1, tier 0 is the grand prize
  TierTables,         \* argument pairs setTiers may be called with
  KeeperFees,         \* arguments of setKeeperFee
  Rand,               \* outcomes of FHE.randEuint64
  Keccak(_, _, _, _), \* keccak256(r, drawId, user, tier), already past _uniform's rejection
  OrderKey(_, _),     \* keccak256(drawId, user)
  MinPeriod, CancelAfter, LivenessRate, LivenessCap,
  SolvencyCover, FeeShareDivisor, TierChangeInterval, MaxPrizeMultiple,
  SourceOperatorWindow,
  Supply,             \* tokens each account starts with
  Amounts,            \* amounts a transaction may ask for
  MaxTime, MaxDraws, MaxObservations  \* bounds of the instance

VARIABLES
  now,          \* block.timestamp
  userObs, totalObs,
  draws,        \* _draws, with the per-draw mappings accrued and _cumAt inside
  pending, winnings, reserve, feePot,
  tiers,        \* tierPrize, tierK and tiersSetAt
  keeperFee, renounced, yieldSource,
  grant,        \* expiry of each source's operator right on the pool's tokens
  tokens,       \* ERC-7984 balances
  lent          \* history: what went to each source minus what it paid back

vars == <<now, userObs, totalObs, draws, pending, winnings, reserve, feePot,
          tiers, keeperFee, renounced, yieldSource, grant, tokens, lent>>

record   == <<userObs, totalObs>>
prizes   == <<pending, winnings, reserve>>
settings == <<tiers, keeperFee, renounced, yieldSource, grant>>

Genesis  == 1
Cold     == -1   \* an uninitialised _cumAt entry
Status   == {"Open", "Revealed", "Cancelled"}
Accounts == Users \cup Sources \cup {Keeper, Pool}

ASSUME ConstantsAssumption ==
  /\ IsFiniteSet(Users) /\ IsFiniteSet(Sources) /\ NoSource \notin Sources
  /\ Pool \notin Users \cup Sources \cup {Keeper} /\ Users \cap Sources = {}
  /\ Keeper \notin Users \cup Sources
  /\ Tiers \subseteq Nat /\ 0 \in Tiers
  /\ TierTables \subseteq [prize : [Tiers -> Nat], k : [Tiers -> Nat \ {0}]]
  /\ KeeperFees \subseteq Nat /\ Amounts \subseteq Nat /\ Rand \subseteq Nat
  /\ {MaxUint64, MinPeriod, CancelAfter, LivenessRate, LivenessCap, SolvencyCover,
      TierChangeInterval, MaxPrizeMultiple, SourceOperatorWindow, Supply,
      MaxTime, MaxDraws, MaxObservations} \subseteq Nat
  /\ FeeShareDivisor \in Nat \ {0}

ASSUME KeccakAssumption ==
  /\ \A r \in Rand, d \in 1..MaxDraws, u \in Users, t \in Tiers : Keccak(r, d, u, t) \in Nat
  /\ \A d \in 1..MaxDraws, u \in Users : OrderKey(d, u) \in Nat
  /\ \A d \in 1..MaxDraws, u, v \in Users : OrderKey(d, u) = OrderKey(d, v) => u = v

-----------------------------------------------------------------------------
(* Encrypted arithmetic (FHESafeMath) and the token.                       *)

TryAdd(a, b)      == IF a + b > MaxUint64 THEN 0 ELSE a + b
TrySub(a, b)      == IF b > a THEN 0 ELSE a - b
TryDecrease(a, b) == IF b > a THEN a ELSE a - b
MinOf(a, b)       == IF a < b THEN a ELSE b

\* What an all-or-nothing transfer of an amount moves out of an account.
Moved(from, amount) == IF tokens[from] >= amount THEN amount ELSE 0

After(from, to, sent) ==
  [a \in Accounts |-> tokens[a] - (IF a = from THEN sent ELSE 0) + (IF a = to THEN sent ELSE 0)]

-----------------------------------------------------------------------------
(* The record.                                                             *)

HasPending(u) == \E d \in DOMAIN draws : u \in draws[d].accrued

\* _drain: the account's record and the total with the pending credit folded in.
Drained(u) ==
  IF HasPending(u)
    THEN Push(userObs[u], TryAdd(BalanceOf(userObs[u]), pending[u]), now)
    ELSE userObs[u]

DrainedTotal(u) ==
  IF HasPending(u)
    THEN Push(totalObs, TryAdd(BalanceOf(totalObs), pending[u]), now)
    ELSE totalObs

\* Bound of the instance: room for what the transaction records.
Roomy(u, pushes) ==
  Len(totalObs) + pushes + (IF HasPending(u) THEN 1 ELSE 0) <= MaxObservations

\* The operator check of confidentialTransferFrom: an expired grant reverts.
MayPull(s) == now <= grant[s]

\* Mutant: the request is booked instead of what the token moved.
DepositBookingRequest(u, amount) ==
  LET received == Moved(u, amount)
      obs == Drained(u)
      total == DrainedTotal(u)
  IN
  /\ Roomy(u, 1)
  /\ yieldSource # NoSource => MayPull(yieldSource)
  /\ tokens' = After(u, IF yieldSource = NoSource THEN Pool ELSE yieldSource, received)
  /\ lent' = [s \in Sources |-> IF s = yieldSource THEN lent[s] + received ELSE lent[s]]
  /\ userObs' = [userObs EXCEPT ![u] = Push(obs, TryAdd(BalanceOf(obs), amount), now)]
  /\ totalObs' = Push(total, TryAdd(BalanceOf(total), amount), now)
  /\ pending' = [pending EXCEPT ![u] = 0]
  /\ UNCHANGED <<now, draws, winnings, reserve, feePot, settings>>

Deposit(u, amount) ==
  LET received == Moved(u, amount)
      obs == Drained(u)
      total == DrainedTotal(u)
  IN
  /\ Roomy(u, 1)
  /\ yieldSource # NoSource => MayPull(yieldSource)
  /\ tokens' = After(u, IF yieldSource = NoSource THEN Pool ELSE yieldSource, received)
  /\ lent' = [s \in Sources |-> IF s = yieldSource THEN lent[s] + received ELSE lent[s]]
  /\ userObs' = [userObs EXCEPT ![u] = Push(obs, TryAdd(BalanceOf(obs), received), now)]
  /\ totalObs' = Push(total, TryAdd(BalanceOf(total), received), now)
  /\ pending' = [pending EXCEPT ![u] = 0]
  /\ UNCHANGED <<now, draws, winnings, reserve, feePot, settings>>

\* What withdraw asks the holder of the principal for: the balance, drained
\* first, clamps the amount.
Request(u, amount) == MinOf(BalanceOf(Drained(u)), amount)

Holder == IF yieldSource = NoSource THEN Pool ELSE yieldSource

\* What may leave for a withdrawal.  The pool's own transfer pays in full when
\* it holds enough; a source pays in full or nothing.
Redeemed(request) ==
  IF yieldSource = NoSource
    THEN {Moved(Pool, request)}
    ELSE {sent \in {0, request} : sent <= tokens[yieldSource]}

RefundForgotten(balance, request, sent) == balance - request   \* mutant

\* The balance after a withdrawal: what the holder declined to send is returned.
Refunded(balance, request, sent) == TryAdd(balance - request, request - sent)

Withdraw(u, amount, sent) ==
  LET obs == Drained(u)
      total == DrainedTotal(u)
      request == Request(u, amount)
  IN
  /\ Roomy(u, 1)
  /\ sent \in Redeemed(request)
  /\ tokens' = After(Holder, u, sent)
  /\ lent' = [s \in Sources |-> IF s = yieldSource THEN lent[s] - sent ELSE lent[s]]
  /\ userObs' = [userObs EXCEPT ![u] =
       Push(obs, Refunded(BalanceOf(obs), request, sent), now)]
  /\ totalObs' = Push(total, TrySub(BalanceOf(total), sent), now)
  /\ pending' = [pending EXCEPT ![u] = 0]
  /\ UNCHANGED <<now, draws, winnings, reserve, feePot, settings>>

\* claim: anyone folds anyone's credit in.
Claim(u) ==
  /\ HasPending(u)
  /\ Roomy(u, 0)
  /\ userObs' = [userObs EXCEPT ![u] = Drained(u)]
  /\ totalObs' = DrainedTotal(u)
  /\ pending' = [pending EXCEPT ![u] = 0]
  /\ UNCHANGED <<now, draws, winnings, reserve, feePot, settings, tokens, lent>>

-----------------------------------------------------------------------------
(* The draw.                                                               *)

LastStatus == draws[Len(draws)].status

\* Mutant: a cancelled draw closes its window.
PreviousDroppingWindow == IF draws = <<>> THEN Genesis ELSE draws[Len(draws)].snapshotAt

\* Where the next window starts: a cancelled draw hands its window back.
Previous ==
  IF draws = <<>> THEN Genesis
  ELSE IF LastStatus = "Cancelled" THEN draws[Len(draws)].periodStart
  ELSE draws[Len(draws)].snapshotAt

\* _payLiveness: a reward that grows with lateness, out of the fee pot.
LivenessReward(due) ==
  IF now <= due THEN 0 ELSE MinOf((now - due) * LivenessRate, LivenessCap)

\* Mutant: the books decline, the tokens leave anyway.
PayFromPotUngated(caller, owed) ==
  /\ feePot' = TryDecrease(feePot, owed)
  /\ tokens' = After(Pool, caller, Moved(Pool, owed))

PayFromPot(caller, owed) ==
  LET paid == IF owed <= feePot THEN owed ELSE 0
  IN /\ feePot' = TryDecrease(feePot, owed)
     /\ tokens' = After(Pool, caller, Moved(Pool, paid))

OpenDraw(caller, r) ==
  /\ Len(draws) < MaxDraws
  /\ draws # <<>> => LastStatus \in {"Revealed", "Cancelled"}
  /\ totalObs # <<>>
  /\ now >= Previous + MinPeriod
  /\ PayFromPot(caller, LivenessReward(Previous + MinPeriod))
  /\ draws' = Append(draws,
       [periodStart |-> Previous,
        snapshotAt  |-> now,
        status      |-> "Open",
        r           |-> r,
        totalWeight |-> CumulativeAt(totalObs, now) - CumulativeAt(totalObs, Previous),
        solvent     |-> reserve >= tiers.prize[0] * SolvencyCover,
        accrued     |-> {},
        cumAt       |-> [u \in Users |-> Cold],
        cleared     |-> [u \in Users |-> 0],   \* history: the tier prize each user won
        paid        |-> [u \in Users |-> 0]])  \* history: what the reserve paid of it
  /\ UNCHANGED <<now, record, prizes, settings, lent>>

\* revealDraw with a proof the KMS signed: the cleartexts are those of the
\* handles frozen when the draw opened.
RevealDraw(caller, d) ==
  /\ d \in DOMAIN draws /\ draws[d].status = "Open"
  /\ draws' = [draws EXCEPT ![d].status = "Revealed"]
  /\ PayFromPot(caller, LivenessReward(draws[d].snapshotAt))
  /\ UNCHANGED <<now, record, prizes, settings, lent>>

CancelDraw(d) ==
  /\ d \in DOMAIN draws /\ draws[d].status = "Open"
  /\ now >= draws[d].snapshotAt + CancelAfter
  /\ draws' = [draws EXCEPT ![d].status = "Cancelled"]
  /\ UNCHANGED <<now, record, prizes, feePot, settings, tokens, lent>>

-----------------------------------------------------------------------------
(* Accrual.                                                                *)

\* Mutant: the cumulative of the moment accrual runs.
CumulativeOfTheMoment(u, d) ==
  IF draws[d].cumAt[u] # Cold THEN draws[d].cumAt[u] ELSE CumulativeAt(userObs[u], now)

\* _snapshotCumulative: the cached read, or the record.
SnapshotCumulative(u, d) ==
  IF draws[d].cumAt[u] # Cold THEN draws[d].cumAt[u]
  ELSE CumulativeAt(userObs[u], draws[d].snapshotAt)

StartsAtAnyPredecessor(d) == d > 1   \* mutant: also after a cancelled draw

\* _windowStart reads the predecessor's cache only where its snapshot is the
\* window's start.
StartsAtPredecessor(d) == d > 1 /\ draws[d - 1].status = "Revealed"

WindowStart(u, d) ==
  IF StartsAtPredecessor(d)
    THEN SnapshotCumulative(u, d - 1)
    ELSE CumulativeAt(userObs[u], draws[d].periodStart)

\* thresholdFor: a residue of the hash, with the tier table of the moment.
Uniform(entropy, upper) == IF upper = 0 THEN 0 ELSE entropy % upper

ThresholdFor(d, u, t) ==
  Uniform(Keccak(draws[d].r, d, u, t), draws[d].totalWeight * tiers.k[t])

\* The weight accrual compares with the thresholds.
AccrualWeight(u, d) == SnapshotCumulative(u, d) - WindowStart(u, d)

\* weightFor: the same weight read past the cache.
WeightFor(u, d) ==
  CumulativeAt(userObs[u], draws[d].snapshotAt) - CumulativeAt(userObs[u], draws[d].periodStart)

\* Mutant: a weight of zero clears a threshold of zero.
CreditNotStrict(u, d) ==
  LET won == {t \in Tiers : AccrualWeight(u, d) >= ThresholdFor(d, u, t)}
  IN IF won = {} THEN 0
     ELSE tiers.prize[CHOOSE t \in won : \A s \in won : t <= s]

\* The best tier cleared, never several.
Credit(u, d) ==
  LET won == {t \in Tiers : AccrualWeight(u, d) > ThresholdFor(d, u, t)}
  IN IF won = {} THEN 0
     ELSE tiers.prize[CHOOSE t \in won : \A s \in won : t <= s]

\* A user's turn in a batch: accrueMany sorts by the hash of draw and address.
Turn(d, batch, u) == Cardinality({v \in batch : OrderKey(d, v) <= OrderKey(d, u)})

\* The reserve after each accrual of a batch: a credit it cannot cover is
\* declined in full.
ReserveRuns(credit, turn) ==
  {left \in [0..Cardinality(DOMAIN credit) -> 0..reserve] :
     /\ left[0] = reserve
     /\ \A u \in DOMAIN credit : left[turn[u]] = TryDecrease(left[turn[u] - 1], credit[u])}

\* Mutant: the keeper's fee comes out of the prizes.
ReserveAfterFee(left, batch) == TryDecrease(left[Cardinality(batch)], keeperFee)

ReserveAfter(left, batch) == left[Cardinality(batch)]

\* accrue, for each account of a batch that the draw has not settled yet.
Settle(d, batch) ==
  LET credit == [u \in batch |-> Credit(u, d)]
      turn   == [u \in batch |-> Turn(d, batch, u)]
      warm(i) == [u \in Users |-> IF u \in batch THEN SnapshotCumulative(u, i)
                                                 ELSE draws[i].cumAt[u]]
  IN
  \E left \in ReserveRuns(credit, turn) :
    LET paidTo == [u \in batch |-> left[turn[u] - 1] - left[turn[u]]]
        paidInto(f) == [u \in Users |-> IF u \in batch THEN TryAdd(f[u], paidTo[u]) ELSE f[u]]
        settled == [draws[d] EXCEPT
          !.accrued = @ \cup batch,
          !.cumAt   = warm(d),
          !.cleared = [u \in Users |-> IF u \in batch THEN credit[u] ELSE @[u]],
          !.paid    = [u \in Users |-> IF u \in batch THEN paidTo[u] ELSE @[u]]]
    IN
    /\ draws' = [i \in DOMAIN draws |->
         IF i = d THEN settled
         ELSE IF i = d - 1 /\ StartsAtPredecessor(d)
           THEN [draws[i] EXCEPT !.cumAt = warm(i)]
           ELSE draws[i]]
    /\ reserve' = ReserveAfter(left, batch)
    /\ pending' = paidInto(pending)
    /\ winnings' = paidInto(winnings)

MayAccrue(d) ==
  /\ d \in DOMAIN draws /\ draws[d].status = "Revealed"
  /\ tiers.prize[0] # 0

Accrue(u, d) ==
  /\ MayAccrue(d)
  /\ u \notin draws[d].accrued
  /\ Settle(d, {u})
  /\ UNCHANGED <<now, record, feePot, settings, tokens, lent>>

Unsettled(batch, d) == batch \ draws[d].accrued

\* accrueMany: duplicates and accounts already settled do no work; a batch
\* that did some is paid one keeper fee, after every prize.
AccrueMany(caller, batch, d) ==
  LET fresh == Unsettled(batch, d)
  IN
  /\ MayAccrue(d)
  /\ fresh # {}
  /\ Settle(d, fresh)
  /\ PayFromPot(caller, keeperFee)
  /\ UNCHANGED <<now, record, settings, lent>>

-----------------------------------------------------------------------------
(* Money in, and configuration.                                            *)

\* A donation the token clamps to zero changes nothing.
FundReserve(from, amount) ==
  /\ Moved(from, amount) > 0
  /\ reserve' = TryAdd(reserve, Moved(from, amount))
  /\ tokens' = After(from, Pool, Moved(from, amount))
  /\ UNCHANGED <<now, record, draws, pending, winnings, feePot, settings, lent>>

FundFeePot(from, amount) ==
  /\ Moved(from, amount) > 0
  /\ feePot' = TryAdd(feePot, Moved(from, amount))
  /\ tokens' = After(from, Pool, Moved(from, amount))
  /\ UNCHANGED <<now, record, draws, prizes, settings, lent>>

\* harvest: a slice of what the source hands over funds the keeper.
Harvest(got) ==
  LET fee == got \div FeeShareDivisor
  IN
  /\ yieldSource # NoSource
  /\ got \in 0..tokens[yieldSource]
  /\ feePot' = TryAdd(feePot, fee)
  /\ reserve' = TryAdd(reserve, got - fee)
  /\ tokens' = After(yieldSource, Pool, got)
  /\ UNCHANGED <<now, record, draws, pending, winnings, settings, lent>>

\* Mutant: the source bound before keeps its operator right.
SetYieldSourceOnly(s) ==
  /\ ~renounced
  /\ yieldSource' = s
  /\ grant' = [x \in Sources |-> IF x = s THEN now + SourceOperatorWindow ELSE grant[x]]
  /\ UNCHANGED <<now, record, draws, prizes, feePot, tiers, keeperFee, renounced, tokens, lent>>

SetYieldSource(s) ==
  /\ ~renounced
  /\ yieldSource' = s
  /\ grant' = [x \in Sources |->
       IF x = s THEN now + SourceOperatorWindow
       ELSE IF x = yieldSource THEN 0
       ELSE grant[x]]
  /\ UNCHANGED <<now, record, draws, prizes, feePot, tiers, keeperFee, renounced, tokens, lent>>

WellShaped(table) ==
  /\ \A t \in Tiers : t + 1 \in Tiers => /\ table.k[t] > table.k[t + 1]
                                         /\ table.prize[t] > table.prize[t + 1]
  /\ \A t \in Tiers : t + 1 \notin Tiers => table.k[t] = 1

\* No prize moves by more than the multiple, in either direction.
NearEnough(table) ==
  \A t \in Tiers : tiers.prize[t] # 0 =>
    /\ table.prize[t] <= tiers.prize[t] * MaxPrizeMultiple
    /\ table.prize[t] * MaxPrizeMultiple >= tiers.prize[t]

SetTiers(table) ==
  /\ ~renounced
  /\ WellShaped(table)
  /\ tiers.setAt # 0 => /\ now >= tiers.setAt + TierChangeInterval
                        /\ NearEnough(table)
  /\ tiers' = [prize |-> table.prize, k |-> table.k, setAt |-> now]
  /\ UNCHANGED <<now, record, draws, prizes, feePot, keeperFee, renounced, yieldSource,
                 grant, tokens, lent>>

SetKeeperFee(fee) ==
  /\ ~renounced
  /\ keeperFee' = fee
  /\ UNCHANGED <<now, record, draws, prizes, feePot, tiers, renounced, yieldSource,
                 grant, tokens, lent>>

RenounceOwnership ==
  /\ ~renounced
  /\ renounced' = TRUE
  /\ UNCHANGED <<now, record, draws, prizes, feePot, tiers, keeperFee, yieldSource,
                 grant, tokens, lent>>

Tick ==
  /\ now < MaxTime
  /\ now' = now + 1
  /\ UNCHANGED <<record, draws, prizes, feePot, settings, tokens, lent>>

-----------------------------------------------------------------------------
Init ==
  /\ now = Genesis
  /\ userObs = [u \in Users |-> <<>>] /\ totalObs = <<>>
  /\ draws = <<>>
  /\ pending = [u \in Users |-> 0] /\ winnings = [u \in Users |-> 0]
  /\ reserve = 0 /\ feePot = 0
  /\ tiers = [prize |-> [t \in Tiers |-> 0], k |-> [t \in Tiers |-> 0], setAt |-> 0]
  /\ keeperFee = 0 /\ renounced = FALSE /\ yieldSource = NoSource
  /\ grant = [s \in Sources |-> 0] /\ lent = [s \in Sources |-> 0]
  /\ tokens = [a \in Accounts |-> IF a = Pool THEN 0 ELSE Supply]

Record ==
  \E u \in Users :
    \/ \E amount \in Amounts : Deposit(u, amount)
    \/ \E amount \in Amounts : \E sent \in {0, Request(u, amount)} : Withdraw(u, amount, sent)
    \/ Claim(u)

Drawing ==
  \/ \E r \in Rand : OpenDraw(Keeper, r)
  \/ \E d \in DOMAIN draws :
       \/ RevealDraw(Keeper, d)
       \/ CancelDraw(d)
       \/ \E u \in Users : Accrue(u, d)
       \/ \E batch \in SUBSET Users : AccrueMany(Keeper, batch, d)

Funding ==
  \/ \E amount \in Amounts : FundReserve(Keeper, amount) \/ FundFeePot(Keeper, amount)
  \/ \E got \in 0..MaxUint64 : Harvest(got)

Configuring ==
  \/ \E s \in Sources \cup {NoSource} : SetYieldSource(s)
  \/ \E table \in TierTables : SetTiers(table)
  \/ \E fee \in KeeperFees : SetKeeperFee(fee)
  \/ RenounceOwnership

Next == Tick \/ Record \/ Drawing \/ Funding \/ Configuring

Spec == Init /\ [][Next]_vars

-----------------------------------------------------------------------------
(* Properties.                                                             *)

DrawRecord ==
  [periodStart : Nat, snapshotAt : Nat, status : Status, r : Rand, totalWeight : Nat,
   solvent : BOOLEAN, accrued : SUBSET Users, cumAt : [Users -> Int],
   cleared : [Users -> Nat], paid : [Users -> Nat]]

\* Every variable holds what the contract's declarations allow it to hold.
TypeOK ==
  /\ now \in Nat
  /\ userObs \in [Users -> Seq(Observation)] /\ totalObs \in Seq(Observation)
  /\ draws \in Seq(DrawRecord)
  /\ pending \in [Users -> Nat] /\ winnings \in [Users -> Nat]
  /\ reserve \in Nat /\ feePot \in Nat
  /\ tiers \in [prize : [Tiers -> Nat], k : [Tiers -> Nat], setAt : Nat]
  /\ keeperFee \in Nat /\ renounced \in BOOLEAN
  /\ yieldSource \in Sources \cup {NoSource}
  /\ grant \in [Sources -> Nat] /\ lent \in [Sources -> Int]
  /\ tokens \in [Accounts -> Nat]

\* In every revealed draw the weights accrual compares with the thresholds add
\* up to the published total the thresholds are drawn from, whatever was
\* deposited, withdrawn, claimed, cancelled or cached since (_windowStart,
\* _snapshotCumulative, openDraw): otherwise odds are silently misstated.
WeightsSumToTotal ==
  \A d \in DOMAIN draws : draws[d].status = "Revealed" =>
    SumFunction([u \in Users |-> AccrualWeight(u, d)]) = draws[d].totalWeight

\* The cache changes no weight: accrual, with the cache warm or cold and draws
\* accrued in any order, compares what weightFor reads (_snapshotCumulative's "a
\* cost optimisation and never a correctness condition").
CacheIsTransparent ==
  \A d \in DOMAIN draws, u \in Users : AccrualWeight(u, d) = WeightFor(u, d)

\* An account's claim on the pool: its balance and its unfolded credit.
Entitled(u) == BalanceOf(userObs[u]) + pending[u]

\* What the pool owes: balances, credits not yet folded in, the prize reserve and
\* the keeper's pot.
Owed == SumFunction([u \in Users |-> Entitled(u)]) + reserve + feePot

\* What it holds, in its own account and out with the sources.
Held == tokens[Pool] + SumFunction(lent)

\* The total record is the sum of the accounts' balances: every clamp, credit,
\* fold and refund reaches both (the paired _push calls of deposit, withdraw and
\* _drain), because thresholds are drawn from the one and weights from the other.
TotalIsSumOfBalances ==
  BalanceOf(totalObs) = SumFunction([u \in Users |-> BalanceOf(userObs[u])])

\* What an account won is the sum of what its draws paid it: no draw pays an
\* account twice, and a prize is paid in full or not at all (accrue's flag and
\* its funded select).
WinningsAddUp ==
  \A u \in Users :
    /\ winnings[u] = SumFunction([d \in DOMAIN draws |-> draws[d].paid[u]])
    /\ \A d \in DOMAIN draws : draws[d].paid[u] \in {0, draws[d].cleared[u]}

\* Without a source the tokens in the pool are exactly what it owes, the total
\* record is the sum of the accounts' and what an account won the sum of what its
\* draws paid it: every effect is gated on the tryDecrease that books it, and
\* every refund reconciled (withdraw, accrue, _payKeeper, _payLiveness).
BooksBalance == TotalIsSumOfBalances /\ WinningsAddUp /\ Held = Owed

\* With sources bound, rebound, expiring and answering short, the pool still
\* never books more than it holds or has lent (deposit books what the token
\* reports as moved, withdraw what the source reports as sent).
NeverOverbooked == Held >= Owed

\* Nobody clears a tier without having held a balance before the snapshot, so
\* an address made after the randomness exists cannot win (the strict gt).
OnlyStakersWin ==
  \A d \in DOMAIN draws, u \in Users : draws[d].cleared[u] > 0 =>
    \E i \in DOMAIN userObs[u] :
      userObs[u][i].balance > 0 /\ userObs[u][i].timestamp < draws[d].snapshotAt

\* From its snapshot on, no transaction changes any account's weight in a draw:
\* the eligible set is fixed when the randomness is drawn, also within the
\* snapshot's own block (openDraw's freeze, _push appending at the clock).
SameWeights == \A d \in DOMAIN draws, u \in Users : AccrualWeight(u, d)' = AccrualWeight(u, d)
WeightsAreFrozen == [][SameWeights]_vars

\* An account's claim moves by exactly the tokens it paid in or took out and
\* the prizes awarded to it: no other account's transaction, fold or refund
\* touches it (deposit, withdraw, _drain, claim).
EntitlementMovesWithMoney ==
  [][\A u \in Users :
       Entitled(u)' - Entitled(u) = (tokens[u] - tokens'[u]) + (winnings'[u] - winnings[u])]_vars

\* The reserve is spent on prizes and on nothing else: keeper fees and liveness
\* rewards never touch it (_payKeeper, _payLiveness).
ReserveBuysOnlyPrizes ==
  [][reserve' < reserve =>
       reserve - reserve' = SumFunction(winnings') - SumFunction(winnings)]_vars

\* Only the source the pool is bound to may pull its tokens: no source bound
\* before keeps a live operator right (setYieldSource's revocation).
OnlyBoundSourceMayPull ==
  \A s \in Sources : grant[s] # 0 => s = yieldSource

-----------------------------------------------------------------------------
(* The inductive invariant.                                                *)

RecordsSound == (\A u \in Users : IsRecord(userObs[u], now)) /\ IsRecord(totalObs, now)

\* Windows lie in the past, one behind the other; only the last draw is unresolved.
WindowsInOrder ==
  /\ now >= Genesis /\ Len(draws) <= MaxDraws
  /\ \A d \in DOMAIN draws :
       /\ Genesis <= draws[d].periodStart /\ draws[d].periodStart <= draws[d].snapshotAt
       /\ draws[d].snapshotAt <= now
       /\ d # Len(draws) => draws[d].status # "Open"
       /\ StartsAtPredecessor(d) => draws[d].periodStart = draws[d - 1].snapshotAt

\* A cached cumulative is the one the record still gives.
CacheMatchesRecord ==
  \A d \in DOMAIN draws, u \in Users : draws[d].cumAt[u] # Cold =>
    draws[d].cumAt[u] = CumulativeAt(userObs[u], draws[d].snapshotAt)

\* Every type, every record as Push builds it, every window in order, every cache
\* entry right: kept by each transaction, and all the weight properties follow.
Inductive == TypeOK /\ RecordsSound /\ WindowsInOrder /\ CacheMatchesRecord

-----------------------------------------------------------------------------
(* What comments of the contract say and its steps do not.                 *)

\* "every caller and every permutation produce the same result" (accrueMany): a
\* winner of the draw's order is not passed over for a later winner of the same
\* prize.
PaidInDrawOrder ==
  \A d \in DOMAIN draws : \A u, v \in draws[d].accrued :
    /\ OrderKey(d, u) < OrderKey(d, v)
    /\ draws[d].cleared[u] = draws[d].cleared[v]
    => draws[d].paid[u] >= draws[d].paid[v]

\* "makes the FIRST clamp impossible by construction" (SOLVENCY_COVER): a draw
\* that opened solvent pays its winners when they are no more than it covers.
SolventDrawPays ==
  \A d \in DOMAIN draws :
    /\ draws[d].solvent
    /\ Cardinality({u \in Users : draws[d].cleared[u] > 0}) <= SolvencyCover
    => draws[d].paid = draws[d].cleared

\* "A year is long enough that a running deployment never notices"
\* (SOURCE_OPERATOR_WINDOW): the source in use can always be supplied.
BoundSourceMayPull == yieldSource # NoSource => MayPull(yieldSource)

-----------------------------------------------------------------------------
\* The draws are the rounds of DrawRounds: they cover time without gap or
\* overlap and a cancelled one hands its window on.
Frontier ==
  IF draws = <<>> THEN Genesis
  ELSE IF LastStatus = "Revealed" THEN draws[Len(draws)].snapshotAt
  ELSE draws[Len(draws)].periodStart

Upto == IF draws # <<>> /\ LastStatus = "Open" THEN draws[Len(draws)].snapshotAt ELSE 0

Rounds == INSTANCE DrawRounds WITH settledTo <- Frontier, openUpto <- Upto

RoundsSpec == Rounds!Spec

=============================================================================
