---------------------------- MODULE MCPrizePool ----------------------------
(***************************************************************************)
(* Instances of PrizePool for TLC.  Two tiers stand for the code's three.   *)
(***************************************************************************)
EXTENDS Screens, TLC

CONSTANTS u1, u2

\* With randomness 0 every staker clears the grand tier; with 1 a weight above
\* 3 does and a smaller one clears the ordinary tier.
MCKeccak(r, d, u, t) == 3 * r * (1 - t)

\* The order of a batch differs from draw to draw.
MCOrderKey(d, u) == IF u = u1 THEN d % 2 ELSE (d + 1) % 2

\* From the second table the first is in reach, but not the other way round; the odds
\* of the third are inverted.
Table(grand, small, k0) == [prize |-> (0 :> grand @@ 1 :> small), k |-> (0 :> k0 @@ 1 :> 1)]
MCTables == {Table(2, 1, 2), Table(1, 0, 2), Table(2, 1, 1)}

\* A pool that was deployed, given its tiers and keeper fee, funded by the keeper
\* and renounced in its first block.
Configured(prize, fee, inReserve, inPot) ==
  /\ now = Genesis
  /\ userObs = [u \in Users |-> <<>>] /\ totalObs = <<>>
  /\ draws = <<>>
  /\ pending = [u \in Users |-> 0] /\ winnings = [u \in Users |-> 0]
  /\ reserve = inReserve /\ feePot = inPot
  /\ tiers = [prize |-> prize, k |-> (0 :> 2 @@ 1 :> 1), setAt |-> Genesis]
  /\ keeperFee = fee /\ renounced = TRUE /\ yieldSource = NoSource
  /\ grant = [s \in Sources |-> 0] /\ lent = [s \in Sources |-> 0]
  /\ tokens = [a \in Accounts |-> IF a = Pool THEN inReserve + inPot
                                  ELSE IF a = Keeper THEN 0 ELSE Supply]

\* A reserve short of two grand prizes and a keeper's pot short of two rewards.
MoneyInit == Configured(0 :> 2 @@ 1 :> 1, 1, 3, 1)

\* Nobody configures a pool that is renounced, and nothing is harvested without a source.
MoneyNext ==
  \/ Tick \/ Record \/ Drawing
  \/ \E amount \in Amounts : FundReserve(Keeper, amount) \/ FundFeePot(Keeper, amount)

MoneyRun == MoneyInit /\ [][MoneyNext]_vars

\* A reserve that covers two grand prizes, no fees.
SolventInit == Configured(0 :> 2 @@ 1 :> 1, 0, 4, 0)
SolventRun == SolventInit /\ [][Next]_vars

=============================================================================
