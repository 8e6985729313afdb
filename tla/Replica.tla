------------------------------ MODULE Replica ------------------------------
(***************************************************************************)
(* contracts/SteakhouseReplicaSource.sol: the yield source that keeps half  *)
(* of the pool's principal as a buffer and sends the rest through a pair of *)
(* batchers into a vault and back.  One action is one transaction; anybody  *)
(* may call all but supply and redeem.  The batchers are external: a batch  *)
(* is dispatched on their keeper's clock, shares come back at a price of    *)
(* the vault's, and a settled batch may be claimed for any account.         *)
(***************************************************************************)
EXTENDS Integers, Sequences

CONSTANTS
  Amounts,        \* amounts the pool supplies or redeems, and gifts to the pot
  Rate, Scale,    \* rateBps, and 10_000 * 365 days
  Period,         \* PERIOD_SECONDS of the keeper
  Prices,         \* tokens a share may return
  Funds,          \* tokens the pool starts with
  MaxUint64,
  MaxTime, MaxBatches, MaxGifts, MaxUnbooked  \* bounds of the instance

ASSUME ReplicaAssumption ==
  /\ Amounts \subseteq Nat /\ Prices \subseteq Nat
  /\ {Rate, Period, Funds, MaxUint64, MaxTime, MaxBatches, MaxGifts, MaxUnbooked} \subseteq Nat
  /\ Scale \in Nat \ {0}

VARIABLES
  now,
  balance,      \* the source's confidential token balance
  shares,       \* its vault share balance
  held,         \* the pool's tokens
  principal,    \* _principal
  yield,        \* _pending
  inVault,      \* _inVault
  lastAccrual,
  joins,        \* per deposit batch, what the source put in and has not claimed
  unwinds,      \* per redeem batch, the tokens that wait for the source
  pot,          \* history: gifts less what harvest paid out
  interest,     \* history: principal x rate, summed over every second
  harvested,    \* history: tokens harvest has paid
  unbooked      \* history: tokens the books lost: paid and taken off no principal, or
                \* dropped from inVault as it overflowed

books   == <<principal, yield, inVault, lastAccrual>>
vault   == <<shares, joins, unwinds>>
history == <<pot, interest, harvested, unbooked>>
vars    == <<now, balance, held, books, vault, history>>

TryAdd(a, b)      == IF a + b > MaxUint64 THEN 0 ELSE a + b
TryDecrease(a, b) == IF b > a THEN a ELSE a - b

\* A confidential transfer moves all of an amount or nothing.
Moved(have, amount) == IF have >= amount THEN amount ELSE 0

-----------------------------------------------------------------------------
(* Accrual.                                                                *)

Accrued(elapsed) == (principal * Rate * elapsed) \div Scale

\* _settle: what the principal earned until now, banked before it moves.
Settled == TryAdd(yield, Accrued(now - lastAccrual))

\* The keeper's log: the principal that earns the expected payout of a round, over
\* its length or the keeper's period if that is longer.
BreakEven(expected, elapsed) ==
  LET seconds == IF elapsed < Period THEN Period ELSE elapsed
  IN (expected * Scale) \div (Rate * seconds)

Settle == lastAccrual' = now /\ yield' = Settled

\* Mutant: the clock is rolled forward on a principal that has moved.
SupplyUnsettled(amount) ==
  LET supplied == Moved(held, amount)
  IN /\ held' = held - supplied /\ balance' = balance + supplied
     /\ principal' = TryAdd(principal, supplied)
     /\ UNCHANGED <<now, yield, inVault, lastAccrual, vault, history>>

Supply(amount) ==
  LET supplied == Moved(held, amount)
  IN /\ Settle
     /\ held' = held - supplied /\ balance' = balance + supplied
     /\ principal' = TryAdd(principal, supplied)
     /\ UNCHANGED <<now, inVault, vault, history>>

\* Pays out of all the source holds, the pot included.  The pool asks for prizes here
\* too, so a payment may pass the principal, which then stays what it was.
Redeem(amount) ==
  LET sent == Moved(balance, amount)
  IN /\ Settle
     /\ held' = held + sent /\ balance' = balance - sent
     /\ principal' = TryDecrease(principal, sent)
     /\ unbooked' = unbooked + (IF sent > principal THEN sent ELSE 0)
     /\ unbooked' <= MaxUnbooked
     /\ UNCHANGED <<now, inVault, vault, pot, interest, harvested>>

\* To the pool, for whoever calls.
Harvest ==
  LET sent == Moved(balance, Settled)
  IN /\ lastAccrual' = now
     /\ yield' = TryDecrease(Settled, sent)
     /\ held' = held + sent /\ balance' = balance - sent
     /\ pot' = pot - sent /\ harvested' = harvested + sent
     /\ UNCHANGED <<now, principal, inVault, vault, interest, unbooked>>

\* Tokens sent to the source to fund its yield.
Gift(amount) ==
  /\ balance' = balance + amount /\ pot' = pot + amount
  /\ pot + harvested + amount <= MaxGifts
  /\ UNCHANGED <<now, held, books, vault, interest, harvested, unbooked>>

-----------------------------------------------------------------------------
(* The vault.                                                              *)

HalfOfPrincipal == principal \div 2   \* mutant: half of the same number every time

\* Half of the principal that is not in the vault.
JoinAmount == TryDecrease(principal, inVault) \div 2

\* The amount is booked as joined whether or not the token moves it.
JoinVault ==
  LET sent == Moved(balance, JoinAmount)
  IN /\ inVault' = TryAdd(inVault, JoinAmount)
     /\ balance' = balance - sent
     /\ joins' = [joins EXCEPT ![Len(joins)] = @ + sent]
     /\ unbooked' = unbooked + (inVault + JoinAmount - inVault')
     /\ unbooked' <= MaxUnbooked
     /\ UNCHANGED <<now, held, principal, yield, lastAccrual, shares, unwinds, pot, interest, harvested>>

\* Claiming twice, or claiming a batch the source is not in, moves nothing.
ClaimShares(id) ==
  /\ id \in 1..(Len(joins) - 1)
  /\ shares' = shares + joins[id]
  /\ joins' = [joins EXCEPT ![id] = 0]
  /\ UNCHANGED <<now, balance, held, books, unwinds, history>>

\* Every share, into the redeem batch that is open.
RequestUnwind ==
  /\ unwinds' = [unwinds EXCEPT ![Len(unwinds)] = @ + shares]
  /\ shares' = 0
  /\ UNCHANGED <<now, balance, held, books, joins, history>>

NothingLeft(returned) == 0   \* mutant: any return ends the stay in the vault

\* What the vault still holds after a batch returned some of it.
LeftInVault(returned) == TryDecrease(inVault, returned)

\* What came back is the change of the source's own balance.
ClaimUnwound(id) ==
  /\ id \in 1..(Len(unwinds) - 1)
  /\ balance' = balance + unwinds[id]
  /\ inVault' = LeftInVault(unwinds[id])
  /\ unwinds' = [unwinds EXCEPT ![id] = 0]
  /\ UNCHANGED <<now, held, principal, yield, lastAccrual, shares, joins, history>>

\* Somebody claims the batch for the source at the batcher itself.
ClaimedByOthers(id) ==
  /\ id \in 1..(Len(unwinds) - 1)
  /\ balance' = balance + unwinds[id]
  /\ unwinds' = [unwinds EXCEPT ![id] = 0]
  /\ UNCHANGED <<now, held, books, shares, joins, history>>

DispatchJoins ==
  /\ Len(joins) < MaxBatches
  /\ joins' = Append(joins, 0)
  /\ UNCHANGED <<now, balance, held, books, shares, unwinds, history>>

\* The redeem batch settles at a price of the vault's.
DispatchUnwinds(price) ==
  /\ Len(unwinds) < MaxBatches
  /\ unwinds' = Append([unwinds EXCEPT ![Len(unwinds)] = @ * price], 0)
  /\ UNCHANGED <<now, balance, held, books, shares, joins, history>>

Tick ==
  /\ now < MaxTime
  /\ now' = now + 1
  /\ interest' = interest + principal * Rate
  /\ UNCHANGED <<balance, held, books, vault, pot, harvested, unbooked>>

-----------------------------------------------------------------------------
Init ==
  /\ now = 0 /\ lastAccrual = 0
  /\ balance = 0 /\ shares = 0 /\ held = Funds
  /\ principal = 0 /\ yield = 0 /\ inVault = 0
  /\ joins = <<0>> /\ unwinds = <<0>>
  /\ pot = 0 /\ interest = 0 /\ harvested = 0 /\ unbooked = 0

Next ==
  \/ \E amount \in Amounts : Supply(amount) \/ Redeem(amount) \/ Gift(amount)
  \/ Harvest \/ JoinVault \/ RequestUnwind \/ DispatchJoins \/ Tick
  \/ \E id \in DOMAIN joins : ClaimShares(id)
  \/ \E id \in DOMAIN unwinds : ClaimUnwound(id) \/ ClaimedByOthers(id)
  \/ \E price \in Prices : DispatchUnwinds(price)

Spec == Init /\ [][Next]_vars

-----------------------------------------------------------------------------
(* Properties.                                                             *)

\* Every variable holds what its declaration allows; the principal fits its width.
TypeOK ==
  /\ now \in Nat /\ lastAccrual \in Nat /\ balance \in Nat /\ shares \in Nat /\ held \in Nat
  /\ principal \in Nat /\ yield \in Nat /\ inVault \in Nat /\ interest \in Nat /\ harvested \in Nat
  /\ pot \in Int /\ unbooked \in Nat
  /\ joins \in Seq(Nat) /\ joins # <<>>
  /\ unwinds \in Seq(Nat) /\ unwinds # <<>>
  /\ lastAccrual <= now /\ principal <= MaxUint64

\* One balance serves the buffer, the pot and whatever the pool asks for: with what it
\* counts as in the vault it always comes to the pot and the principal, but for payments
\* the principal did not register, whatever batches returned, late, twice or past what
\* is counted, and whichever purpose a payment was drawn for (joinVault, claimUnwound,
\* redeem, harvest).
BufferIsWhatIsNotInVault == balance + inVault + unbooked >= pot + principal

\* While the books show a buffer, a join takes at most half of it: however often it
\* is called, none of the pot (tryDecrease and shr in joinVault).  Redeems may leave less
\* principal than is counted as in the vault; what joins do then, the next shows.
JoinsSpareTheBuffer ==
  [][inVault' > inVault /\ inVault <= principal /\ unbooked = 0 =>
       2 * (balance - balance') <= balance - pot]_vars

\* SteakhouseReplicaSource.sol of joinVault: "Bounded, repetition converges rather than
\* draining: each call moves half of what remains, so the buffer approaches zero without
\* reaching it, and the pot is never touched at all."
PotIsNeverJoined == [][inVault' > inVault /\ balance' < balance => balance' >= pot]_vars

\* The principal the keeper prints for a round is what a round of that length takes
\* ("the threshold is entirely public": more earns the expected payout, less does
\* not); shorter rounds need more than it prints.
BreakEvenIsTheThreshold ==
  \A expected \in 1..MaxUint64 \div Scale, elapsed \in 1..MaxTime : elapsed >= Period =>
    /\ principal > BreakEven(expected, elapsed) => Accrued(elapsed) >= expected
    /\ principal < BreakEven(expected, elapsed) => Accrued(elapsed) < expected

\* The yield banked, harvested and still running is the interest of the principal
\* second by second, short of the rounding of one division per settlement: none
\* is earned on money that had not arrived or had left, none is lost with it
\* (_settle before every move of the principal; the yield fits its 64 bits); and
\* the principal the keeper prints is the one that earns a round's prizes.
YieldFollowsPrincipal ==
  LET accounted == Scale * (yield + harvested) + principal * Rate * (now - lastAccrual)
  IN /\ accounted <= interest /\ interest <= accounted + Scale * now
     /\ BreakEvenIsTheThreshold

=============================================================================
