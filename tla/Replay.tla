------------------------------- MODULE Replay -------------------------------
(***************************************************************************)
(* The second and third implementations of the draw rule: lib/twab.ts and  *)
(* lib/draw.ts, which the Position and Verify screens run in the holder's  *)
(* browser, and the scripts that audit a draw from outside.  Each computes *)
(* from what it read off the chain; none asks the contract for the answer. *)
(* A record is the holder's decrypted observation array, sorted by time,   *)
(* as of the moment it was read: later observations are missing from it.   *)
(***************************************************************************)
EXTENDS PrizePool

\* What the screen holds after reading n observations and decrypting them; it
\* shows nothing until every one is decrypted.
RecordRead(u, n) == SubSeq(userObs[u], 1, n)

\* The binary search, over 1..Len: the last index at or before target.  The
\* loop's `found` is always the index before `lo`, where it ends.
Search(obs, target) ==
  LET from[left \in (1..Len(obs) + 1) \X (0..Len(obs))] ==
        LET mid == (left[1] + left[2]) \div 2
        IN IF left[1] > left[2] THEN left[1] - 1
           ELSE IF obs[mid].timestamp <= target THEN from[<<mid + 1, left[2]>>]
           ELSE from[<<left[1], mid - 1>>]
  IN from[<<1, Len(obs)>>]

CumulativeAtLocal(obs, target) ==
  IF obs = <<>> \/ obs[1].timestamp > target
    THEN 0
    ELSE LET o == obs[Search(obs, target)]
         IN o.cumulative + o.balance * (target - o.timestamp)

\* The screens take the window from the draw's own published fields.
WeightForWindow(obs, d) ==
  LET end   == CumulativeAtLocal(obs, draws[d].snapshotAt)
      start == CumulativeAtLocal(obs, draws[d].periodStart)
  IN IF end > start THEN end - start ELSE 0

\* The script starts from the predecessor's snapshot when that was revealed.
ScriptWindowStart(d) ==
  IF d > 1 /\ draws[d - 1].status = "Revealed"
    THEN draws[d - 1].snapshotAt
    ELSE draws[d].periodStart

ScriptWeight(obs, d) ==
  CumulativeAtLocal(obs, draws[d].snapshotAt) - CumulativeAtLocal(obs, ScriptWindowStart(d))

Participated(obs, d) == obs # <<>> /\ obs[1].timestamp <= draws[d].snapshotAt

\* lib/draw.ts thresholdFor, recomputed from the published r and total weight.
UniformLocal(entropy, upperBound) == IF upperBound = 0 THEN 0 ELSE entropy % upperBound

ThresholdForLocal(d, u, t) ==
  UniformLocal(Keccak(draws[d].r, d, u, t), draws[d].totalWeight * tiers.k[t])

NoTier == -1

\* Mutant: the cheapest tier cleared instead of the best.
LastCleared(cleared) ==
  IF cleared = {} THEN NoTier ELSE CHOOSE t \in cleared : \A s \in cleared : s <= t

\* cleared.findIndex: the first tier that was cleared.
FirstCleared(cleared) ==
  IF cleared = {} THEN NoTier ELSE CHOOSE t \in cleared : \A s \in cleared : t <= s

\* The row of the Position screen for a draw; an unrevealed draw clears nothing.
HistoryRow(obs, u, d) ==
  LET weight == WeightForWindow(obs, d)
  IN [weight   |-> weight,
      inIt     |-> Participated(obs, d),
      bestTier |-> FirstCleared(IF draws[d].status = "Revealed"
                                  THEN {t \in Tiers : weight > ThresholdFor(d, u, t)}
                                  ELSE {}),
      accrued  |-> u \in draws[d].accrued]

\* What the row prints: "not revealed", "no", or the tier's prize.
PrizeShown(row) == IF row.bestTier = NoTier THEN 0 ELSE tiers.prize[row.bestTier]

\* The Verify screen's private half: the tiers its own thresholds say are
\* cleared, in a draw that was revealed.
ClearedOnVerify(obs, u, d) ==
  {t \in Tiers : WeightForWindow(obs, d) > ThresholdForLocal(d, u, t)}

\* verify(): one row per participant, matched against the contract.
AuditMatches(d) ==
  \A u \in Users : \A t \in Tiers : ThresholdForLocal(d, u, t) = ThresholdFor(d, u, t)

\* The audit script's verdict on its own signer: the first tier it cleared,
\* with the weight weightFor granted it.
ScriptVerdict(u, d) ==
  FirstCleared({t \in Tiers : WeightFor(u, d) > ThresholdForLocal(d, u, t)})

-----------------------------------------------------------------------------
(* Properties.                                                             *)

\* A record is good for a draw when all it misses came after the snapshot.
Covers(u, n, d) ==
  n = Len(userObs[u]) \/ userObs[u][n + 1].timestamp > draws[d].snapshotAt

\* The weight a holder's browser recomputes is the weight accrual compared,
\* also from a record read long ago, through the cache accrual warmed, and over
\* a window that begins at a cancelled draw; the script's window gives the same
\* (weightForWindow's "falls back to periodStart"; u3-verify-twab's check).
PageWeightIsAccrualWeight ==
  \A d \in DOMAIN draws, u \in Users : \A n \in 0..Len(userObs[u]) : Covers(u, n, d) =>
    LET obs == RecordRead(u, n)
    IN /\ WeightForWindow(obs, d) = AccrualWeight(u, d)
       /\ ScriptWeight(obs, d) = AccrualWeight(u, d)
       /\ AccrualWeight(u, d) > 0 => Participated(obs, d)

\* The prize a holder reads on the Position screen is the prize accrual found,
\* no more than one per draw; the Verify screen and the script name the same
\* tier; and once processed the holder was paid that prize or nothing
\* (Position.tsx "Cleared is not the same as paid").
HistoryMatchesCredit ==
  \A d \in DOMAIN draws : draws[d].status = "Revealed" =>
    /\ AuditMatches(d)
    /\ \A u \in Users :
         LET obs == RecordRead(u, Len(userObs[u]))
             row == HistoryRow(obs, u, d)
         IN /\ FirstCleared(ClearedOnVerify(obs, u, d)) = row.bestTier
            /\ ScriptVerdict(u, d) = row.bestTier
            /\ row.accrued => /\ PrizeShown(row) = draws[d].cleared[u]
                              /\ draws[d].paid[u] \in {0, PrizeShown(row)}

=============================================================================
