--------------------------- MODULE ScreensProofs ---------------------------
(***************************************************************************)
(* What a holder's browser recomputes is what the contract computed: the   *)
(* weight, from a record read long ago; the row of a past draw, as long as *)
(* the tiers are set once; and the figures and buttons of the screens, as  *)
(* long as what the pool holds fits the width of an amount.  For every set *)
(* of users, every length of record and every table of prizes.             *)
(***************************************************************************)
EXTENDS Screens, PrizePoolMoneyProofs

-----------------------------------------------------------------------------
(* The search of lib/twab.ts.                                              *)

\* The middle of what is left to search.
LEMMA Middle ==
  ASSUME NEW lo \in Nat, NEW hi \in Nat, lo <= hi
  PROVE  /\ (lo + hi) \div 2 \in Nat
         /\ lo <= (lo + hi) \div 2 /\ (lo + hi) \div 2 <= hi
OBVIOUS

\* Where the first k observations are at or before a moment and the others later, the
\* search returns k.
LEMMA SearchReturns ==
  ASSUME NEW obs \in Seq(Observation), NEW target \in Nat, NEW k \in 0..Len(obs),
         \A j \in 1..k : obs[j].timestamp <= target,
         \A j \in k + 1..Len(obs) : ~ (obs[j].timestamp <= target)
  PROVE  Search(obs, target) = k
<1> DEFINE n == Len(obs)
           A == 1..n + 1
           B == 0..n
           D == A \X B
           Next1(f, p, mid) == IF p[1] > p[2] THEN p[1] - 1
                           ELSE IF obs[mid].timestamp <= target THEN f[<<mid + 1, p[2]>>]
                           ELSE f[<<p[1], mid - 1>>]
           Eq(f) == f = [p \in D |-> Next1(f, p, (p[1] + p[2]) \div 2)]
           from == CHOOSE f : Eq(f)
           Stop(lo, hi) == IF lo > hi \/ k < lo - 1 THEN lo - 1 ELSE IF k > hi THEN hi ELSE k
<1>1. n \in Nat
  OBVIOUS
<1>2. Search(obs, target) = from[<<1, n>>]
  BY DEF Search
<1>3. ASSUME NEW lo \in A, NEW hi \in B, ~ (lo > hi), NEW mid, mid = (lo + hi) \div 2
      PROVE  /\ mid \in 1..n /\ lo <= mid /\ mid <= hi
             /\ mid + 1 \in A /\ mid - 1 \in B
             /\ obs[mid].timestamp <= target => Stop(lo, hi) = Stop(mid + 1, hi)
             /\ ~ (obs[mid].timestamp <= target) => Stop(lo, hi) = Stop(lo, mid - 1)
  <2>1. lo \in Nat /\ hi \in Nat /\ lo <= hi /\ mid \in Nat /\ lo <= mid /\ mid <= hi /\ lo >= 1 /\ hi <= n
    BY <1>1, <1>3, Middle
  <2>2. mid \in 1..n /\ mid + 1 \in A /\ mid - 1 \in B
    BY <1>1, <2>1
  <2>3. obs[mid].timestamp <= target <=> mid <= k
    <3>1. mid \in 1..k \/ mid \in k + 1..n
      BY <2>1
    <3>2. mid \in 1..k => mid <= k
      OBVIOUS
    <3>3. mid \in k + 1..n => ~ (mid <= k)
      OBVIOUS
    <3> QED BY <3>1, <3>2, <3>3
  <2>4. mid <= k => Stop(lo, hi) = Stop(mid + 1, hi)
    BY <2>1
  <2>5. ~ (mid <= k) => Stop(lo, hi) = Stop(lo, mid - 1)
    BY <2>1
  <2> HIDE DEF Stop
  <2> QED BY <2>1, <2>2, <2>3, <2>4, <2>5
<1>a. ASSUME NEW lo \in A, NEW hi \in B
      PROVE  <<lo, hi>> \in D /\ <<lo, hi>>[1] = lo /\ <<lo, hi>>[2] = hi
  OBVIOUS
<1>b. ASSUME NEW p \in D
      PROVE  p[1] \in A /\ p[2] \in B /\ p = <<p[1], p[2]>>
  OBVIOUS
<1> HIDE DEF A, B, D
<1> DEFINE g == [p \in D |-> Stop(p[1], p[2])]
<1>4. Eq(g)
  <2> HIDE DEF Stop
  <2>1. ASSUME NEW p \in D
        PROVE  Stop(p[1], p[2]) = Next1(g, p, (p[1] + p[2]) \div 2)
    <3>0. p[1] \in A /\ p[2] \in B
      BY <1>b
    <3>1. CASE p[1] > p[2]
      BY <3>1 DEF Stop
    <3>2. CASE ~ (p[1] > p[2])
      <4>1. PICK mid : mid = (p[1] + p[2]) \div 2
        OBVIOUS
      <4>2. /\ mid + 1 \in A /\ mid - 1 \in B
            /\ obs[mid].timestamp <= target => Stop(p[1], p[2]) = Stop(mid + 1, p[2])
            /\ ~ (obs[mid].timestamp <= target) => Stop(p[1], p[2]) = Stop(p[1], mid - 1)
        BY <1>3, <3>0, <3>2, <4>1
      <4>3. g[<<mid + 1, p[2]>>] = Stop(mid + 1, p[2])
        BY <1>a, <3>0, <4>2
      <4>4. g[<<p[1], mid - 1>>] = Stop(p[1], mid - 1)
        BY <1>a, <3>0, <4>2
      <4> HIDE DEF g
      <4>5. Stop(p[1], p[2]) = Next1(g, p, mid)
        BY <3>2, <4>2, <4>3, <4>4
      <4> HIDE DEF Next1
      <4> QED BY <4>1, <4>5
    <3> QED BY <3>1, <3>2
  <2> HIDE DEF Next1
  <2> QED BY <2>1
<1>5. Eq(from)
  <2> HIDE DEF Eq
  <2> QED BY <1>4
<1>6. ASSUME NEW lo \in A, NEW hi \in B, NEW mid, mid = (lo + hi) \div 2
      PROVE  from[<<lo, hi>>] = IF lo > hi THEN lo - 1
                           ELSE IF obs[mid].timestamp <= target THEN from[<<mid + 1, hi>>]
                           ELSE from[<<lo, mid - 1>>]
  <2>1. ASSUME NEW p \in D, NEW m2, m2 = (p[1] + p[2]) \div 2
        PROVE  from[p] = Next1(from, p, m2)
    <3> HIDE DEF from, Next1
    <3> QED BY <1>5, <2>1
  <2> HIDE DEF from
  <2>2. PICK p : p = <<lo, hi>>
    OBVIOUS
  <2>b. p \in D /\ p[1] = lo /\ p[2] = hi
    BY <1>a, <2>2
  <2>3. from[p] = Next1(from, p, mid)
    BY <1>6, <2>1, <2>b
  <2> QED BY <2>2, <2>b, <2>3
<1> HIDE DEF from, Eq, Stop, g, Next1
<1> DEFINE Bad == {m \in Nat : \E lo \in A, hi \in B : lo + m = hi + 1 /\ from[<<lo, hi>>] # Stop(lo, hi)}
<1>7. Bad = {}
  <2> SUFFICES ASSUME Bad # {} PROVE FALSE
    OBVIOUS
  <2>1. PICK m \in Bad : \A k2 \in Bad : m <= k2
    <3>1. Bad \subseteq Nat
      OBVIOUS
    <3> HIDE DEF Bad
    <3> QED BY <3>1, LeastNatural
  <2>2. PICK lo \in A, hi \in B : lo + m = hi + 1 /\ from[<<lo, hi>>] # Stop(lo, hi)
    BY <2>1
  <2>3. m \in Nat /\ lo \in Nat /\ hi \in Nat /\ lo >= 1 /\ hi <= n
    BY <1>1, <2>1, <2>2 DEF A, B
  <2>c. ASSUME NEW j \in Nat, j < m PROVE j \notin Bad
    <3> HIDE DEF Bad
    <3> QED BY <2>1, <2>3, <2>c
  <2>a. PICK mid : mid = (lo + hi) \div 2
    OBVIOUS
  <2>b. from[<<lo, hi>>] = IF lo > hi THEN lo - 1
                           ELSE IF obs[mid].timestamp <= target THEN from[<<mid + 1, hi>>]
                           ELSE from[<<lo, mid - 1>>]
    BY <1>6, <2>a
  <2>4. CASE lo > hi
    <3>1. from[<<lo, hi>>] = lo - 1
      BY <2>b, <2>4
    <3>2. Stop(lo, hi) = lo - 1
      BY <2>4 DEF Stop
    <3> QED BY <2>2, <3>1, <3>2
  <2>5. CASE ~ (lo > hi)
    <3>2. /\ mid \in 1..n /\ lo <= mid /\ mid <= hi
          /\ mid + 1 \in A /\ mid - 1 \in B
          /\ obs[mid].timestamp <= target => Stop(lo, hi) = Stop(mid + 1, hi)
          /\ ~ (obs[mid].timestamp <= target) => Stop(lo, hi) = Stop(lo, mid - 1)
      BY <1>3, <2>5, <2>a
    <3>3. from[<<mid + 1, hi>>] = Stop(mid + 1, hi)
      <4>1. PICK j \in Nat : mid + 1 + j = hi + 1 /\ j < m
        <5>1. hi - mid \in Nat /\ mid + 1 + (hi - mid) = hi + 1 /\ hi - mid < m
          BY <2>2, <2>3, <3>2
        <5> QED BY <5>1
      <4>2. j \notin Bad
        BY <2>c, <4>1
      <4> QED BY <3>2, <4>1, <4>2
    <3>4. from[<<lo, mid - 1>>] = Stop(lo, mid - 1)
      <4>1. PICK j \in Nat : lo + j = mid - 1 + 1 /\ j < m
        <5>1. mid - lo \in Nat /\ lo + (mid - lo) = mid - 1 + 1 /\ mid - lo < m
          BY <2>2, <2>3, <3>2
        <5> QED BY <5>1
      <4>2. j \notin Bad
        BY <2>c, <4>1
      <4> QED BY <3>2, <4>1, <4>2
    <3> QED BY <2>2, <2>5, <2>b, <3>2, <3>3, <3>4
  <2> QED BY <2>4, <2>5
<1>8. from[<<1, n>>] = Stop(1, n)
  <2>1. 1 \in A /\ n \in B /\ 1 + n = n + 1
    BY <1>1 DEF A, B
  <2>2. n \notin Bad
    BY <1>7
  <2> QED BY <1>1, <2>1, <2>2
<1>9. Stop(1, n) = k
  BY <1>1 DEF Stop
<1> QED BY <1>2, <1>8, <1>9

\* The first n observations of a record.
LEMMA PrefixShape ==
  ASSUME NEW obs \in Seq(Observation), NEW n \in 0..Len(obs)
  PROVE  /\ SubSeq(obs, 1, n) \in Seq(Observation) /\ Len(SubSeq(obs, 1, n)) = n
         /\ \A j \in 1..n : SubSeq(obs, 1, n)[j] = obs[j]
<1>1. Len(obs) \in Nat /\ n \in Int /\ n >= 0 /\ n <= Len(obs)
  OBVIOUS
<1>2. \A j \in 1..n : obs[j] \in Observation
  <2> SUFFICES ASSUME NEW j \in 1..n PROVE obs[j] \in Observation
    OBVIOUS
  <2>1. j \in DOMAIN obs
    BY <1>1
  <2> QED BY <2>1, ObservationFields
<1>3. /\ SubSeq(obs, 1, n) \in Seq(Observation)
      /\ Len(SubSeq(obs, 1, n)) = IF 1 <= n THEN n - 1 + 1 ELSE 0
      /\ \A j \in 1..n - 1 + 1 : SubSeq(obs, 1, n)[j] = obs[1 + j - 1]
  BY <1>1, <1>2, SubSeqProperties
<1>4. PICK pre : pre = SubSeq(obs, 1, n)
  OBVIOUS
<1>5. Len(pre) = n
  BY <1>1, <1>3, <1>4
<1>6. ASSUME NEW j \in 1..n PROVE pre[j] = obs[j]
  <2>1. j \in 1..n - 1 + 1 /\ 1 + j - 1 = j
    BY <1>1
  <2> QED BY <1>3, <1>4, <2>1
<1> QED BY <1>3, <1>4, <1>5, <1>6

\* A record read long ago still gives the cumulative of every moment before the first
\* observation it misses.
LEMMA OldReadReads ==
  ASSUME NEW obs, NEW at \in Nat, IsRecord(obs, at), NEW t \in 0..at,
         NEW n \in 0..Len(obs), n = Len(obs) \/ obs[n + 1].timestamp > t
  PROVE  /\ CumulativeAtLocal(SubSeq(obs, 1, n), t) = CumulativeAt(obs, t)
         /\ CumulativeAt(obs, t) # 0 =>
              SubSeq(obs, 1, n) # <<>> /\ SubSeq(obs, 1, n)[1].timestamp <= t
<1> DEFINE pre == SubSeq(obs, 1, n)
<1>1. obs \in Seq(Observation) /\ Timed(obs, at) /\ DOMAIN obs = 1..Len(obs) /\ Len(obs) \in Nat
  BY DEF IsRecord
<1>0. t \in Nat
  OBVIOUS
<1>2. pre \in Seq(Observation) /\ Len(pre) = n /\ \A j \in 1..n : pre[j] = obs[j]
  BY <1>1, PrefixShape
<1>3. \A j \in 1..Len(obs) : obs[j].timestamp \in Nat
  BY <1>1, ObservationFields
<1>4. pre # <<>> => n >= 1
  BY <1>2
<1> HIDE DEF pre
<1>5. ASSUME obs = <<>> \/ obs[1].timestamp > t
      PROVE  pre = <<>> \/ pre[1].timestamp > t
  <2>1. CASE obs = <<>>
    <3>1. n = 0
      BY <2>1
    <3> QED BY <1>4, <3>1
  <2>2. CASE obs # <<>> /\ obs[1].timestamp > t /\ pre # <<>>
    <3>1. 1 \in 1..n
      BY <1>4, <2>2
    <3> QED BY <1>2, <2>2, <3>1
  <2> QED BY <1>5, <2>1, <2>2
<1>6. CASE obs = <<>> \/ obs[1].timestamp > t
  <2>1. CumulativeAtLocal(pre, t) = 0
    BY <1>5, <1>6 DEF CumulativeAtLocal
  <2>2. CumulativeAt(obs, t) = 0
    BY <1>6 DEF CumulativeAt
  <2> QED BY <2>1, <2>2 DEF pre
<1>7. CASE obs # <<>> /\ ~ (obs[1].timestamp > t)
  <2>1. PICK i \in DOMAIN obs : /\ IsIndexAt(obs, t, i)
                               /\ CumulativeAt(obs, t) = CarryTo(obs[i], t)
                               /\ obs[i] \in Observation /\ obs[i].timestamp <= t
    BY <1>7, ReadCases
  <2>2. i \in 1..Len(obs) /\ i \in Nat /\ 1 <= i /\ i <= Len(obs)
    <3>1. i \in 1..Len(obs)
      BY <1>1
    <3>2. Len(obs) \in Nat
      BY <1>1
    <3> HIDE <1>1
    <3> QED BY <3>1, <3>2
  <2>3. \A j, k \in 1..Len(obs) : j <= k => obs[j].timestamp <= obs[k].timestamp
    BY <1>1 DEF Timed
  <2>4. i <= n
    <3> SUFFICES ASSUME ~ (i <= n) PROVE FALSE
      OBVIOUS
    <3>1. n \in Nat /\ n + 1 \in 1..Len(obs) /\ n + 1 <= i /\ n # Len(obs)
      BY <2>2
    <3>2. obs[n + 1].timestamp > t /\ obs[n + 1].timestamp <= obs[i].timestamp
      BY <2>2, <2>3, <3>1
    <3> QED BY <1>3, <2>1, <2>2, <3>1, <3>2
  <2>5. i \in 0..Len(pre) /\ i \in 1..n /\ n \in Nat
    BY <1>2, <2>2, <2>4
  <2>6. \A j \in 1..i : pre[j].timestamp <= t
    <3> SUFFICES ASSUME NEW j \in 1..i PROVE pre[j].timestamp <= t
      OBVIOUS
    <3>1. j \in 1..n /\ j \in 1..Len(obs) /\ j <= i
      BY <2>2, <2>5
    <3>2. obs[j].timestamp <= obs[i].timestamp /\ obs[i].timestamp <= t
      BY <2>1, <2>2, <2>3, <3>1
    <3> QED BY <1>2, <1>3, <2>2, <3>1, <3>2
  <2>7. \A j \in i + 1..Len(pre) : ~ (pre[j].timestamp <= t)
    <3> SUFFICES ASSUME NEW j \in i + 1..Len(pre) PROVE ~ (pre[j].timestamp <= t)
      OBVIOUS
    <3>1. j \in 1..n /\ j \in 1..Len(obs) /\ i + 1 <= j /\ i + 1 \in 1..Len(obs) /\ i # Len(obs)
      BY <1>2, <2>2, <2>5
    <3>2. obs[i + 1].timestamp > t /\ obs[i + 1].timestamp <= obs[j].timestamp
      BY <2>1, <2>3, <3>1 DEF IsIndexAt
    <3> QED BY <1>2, <1>3, <3>1, <3>2
  <2>8. Search(pre, t) = i
    BY <1>0, <1>2, <2>5, <2>6, <2>7, SearchReturns
  <2>9. pre # <<>> /\ pre[1] = obs[1] /\ ~ (pre[1].timestamp > t) /\ pre[i] = obs[i]
    BY <1>2, <1>7, <2>5
  <2>10. CumulativeAtLocal(pre, t) = CarryTo(obs[i], t)
    BY <2>8, <2>9 DEF CumulativeAtLocal, CarryTo
  <2>11. pre[1].timestamp <= t
    BY <1>3, <2>2, <2>9
  <2> QED BY <2>1, <2>9, <2>10, <2>11 DEF pre
<1> QED BY <1>6, <1>7

\* A moment's cumulative, from the whole record.
LEMMA FreshReadReads ==
  ASSUME NEW obs, NEW at \in Nat, IsRecord(obs, at), NEW t \in 0..at
  PROVE  CumulativeAtLocal(obs, t) = CumulativeAt(obs, t)
<1>1. obs \in Seq(Observation) /\ Len(obs) \in Nat
  BY DEF IsRecord
<1>2. SubSeq(obs, 1, Len(obs)) = obs
  BY <1>1
<1>3. Len(obs) \in 0..Len(obs)
  BY <1>1
<1> QED BY <1>2, <1>3, OldReadReads

\* The two cumulatives a browser subtracts are the ones accrual does.
LEMMA PageWeights ==
  ASSUME Inductive, NEW d \in DOMAIN draws, NEW u \in Users, NEW n \in 0..Len(userObs[u]),
         Covers(u, n, d)
  PROVE  LET obs == RecordRead(u, n)
         IN /\ WeightForWindow(obs, d) = AccrualWeight(u, d)
            /\ ScriptWeight(obs, d) = AccrualWeight(u, d)
            /\ AccrualWeight(u, d) > 0 => Participated(obs, d)
<1> DEFINE obs == RecordRead(u, n)
           s == CumulativeAt(userObs[u], draws[d].periodStart)
           e == CumulativeAt(userObs[u], draws[d].snapshotAt)
<1>1. TypeOK /\ WindowsInOrder /\ IsRecord(userObs[u], now)
  BY DEF Inductive, RecordsSound
<1>2. /\ now \in Nat /\ draws[d].periodStart \in 0..now /\ draws[d].snapshotAt \in 0..now
      /\ draws[d].periodStart <= draws[d].snapshotAt
  BY <1>1, DrawMoments
<1>3. AccrualWeight(u, d) = e - s /\ s \in Nat /\ e \in Nat
  BY CacheReads DEF WeightFor
<1>4. s <= e
  BY <1>1, <1>2, CumulativeMonotone
<1>5. userObs[u] \in Seq(Observation)
  BY <1>1 DEF IsRecord
<1>6. n = Len(userObs[u]) \/ userObs[u][n + 1].timestamp > draws[d].snapshotAt
  BY DEF Covers
<1>7. n = Len(userObs[u]) \/ userObs[u][n + 1].timestamp > draws[d].periodStart
  <2>1. CASE n = Len(userObs[u])
    BY <2>1
  <2>2. CASE n # Len(userObs[u])
    <3>1. n + 1 \in DOMAIN userObs[u]
      BY <1>5, <2>2
    <3>2. userObs[u][n + 1].timestamp \in Nat
      BY <1>5, <3>1, ObservationFields
    <3> QED BY <1>2, <1>6, <2>2, <3>2
  <2> QED BY <2>1, <2>2
<1>8. /\ CumulativeAtLocal(obs, draws[d].snapshotAt) = e
      /\ e # 0 => obs # <<>> /\ obs[1].timestamp <= draws[d].snapshotAt
  BY <1>1, <1>2, <1>6, OldReadReads DEF RecordRead
<1>9. CumulativeAtLocal(obs, draws[d].periodStart) = s
  BY <1>1, <1>2, <1>7, OldReadReads DEF RecordRead
<1>10. ScriptWindowStart(d) = draws[d].periodStart
  BY <1>1 DEF ScriptWindowStart, WindowsInOrder, StartsAtPredecessor
<1> HIDE DEF obs, s, e
<1>11. WeightForWindow(obs, d) = e - s
  <2>1. CASE e > s
    BY <1>8, <1>9, <2>1 DEF WeightForWindow
  <2>2. CASE ~ (e > s)
    <3>1. e - s = 0
      BY <1>3, <1>4, <2>2
    <3> QED BY <1>8, <1>9, <2>2, <3>1 DEF WeightForWindow
  <2> QED BY <2>1, <2>2
<1>12. ScriptWeight(obs, d) = e - s
  BY <1>8, <1>9, <1>10 DEF ScriptWeight
<1>13. e - s > 0 => Participated(obs, d)
  <2>1. e - s > 0 => e # 0
    BY <1>3
  <2> QED BY <1>8, <2>1 DEF Participated
<1> QED BY <1>3, <1>11, <1>12, <1>13 DEF obs

-----------------------------------------------------------------------------
(* The row of a past draw.                                                 *)

\* Once the owner has set the tiers they stay as set (a pool whose ownership is
\* renounced): the page knows no other table than the one of the moment.
TiersKept == tiers.setAt # 0 => tiers'.prize = tiers.prize /\ tiers'.k = tiers.k

\* What a draw wrote for an account it settled is what Credit still says.
Credited ==
  /\ tiers.setAt = 0 => tiers.prize[0] = 0
  /\ \A d \in DOMAIN draws : \A u \in draws[d].accrued :
       /\ tiers.setAt # 0
       /\ draws[d].cleared[u] = Credit(u, d)
       /\ draws[d].paid[u] \in {0, draws[d].cleared[u]}

\* Every step leaves the settlements alone, opens a draw or awards a batch.
LEMMA SettlementsMove ==
  ASSUME Inductive, [Next]_vars
  PROVE  SettlementsStay \/ OpenedNext \/ FreshAward
<1>1. CASE UNCHANGED draws
  BY <1>1 DEF SettlementsStay, SameSettlement
<1>2. CASE Drawing
  BY <1>2, DrawingMovesNoRecord DEF NoAccountMoves
<1>3. CASE Record
  <2>1. UNCHANGED draws
    BY <1>3 DEF Record, Deposit, Withdraw, Claim
  <2> QED BY <1>1, <2>1
<1>4. CASE Funding
  <2>1. UNCHANGED draws
    BY <1>4 DEF Funding, FundReserve, FundFeePot, Harvest
  <2> QED BY <1>1, <2>1
<1>5. CASE Configuring
  <2>1. UNCHANGED draws
    BY <1>5 DEF Configuring, SetYieldSource, SetTiers, SetKeeperFee, RenounceOwnership
  <2> QED BY <1>1, <2>1
<1>6. CASE Tick \/ UNCHANGED vars
  <2>1. UNCHANGED draws
    BY <1>6 DEF Tick, vars
  <2> QED BY <1>1, <2>1
<1> QED BY <1>2, <1>3, <1>4, <1>5, <1>6 DEF Next

\* A table is changed only by setting it, and the clock never reads zero.
LEMMA TiersMove ==
  ASSUME Inductive, [Next]_vars
  PROVE  tiers' = tiers \/ tiers'.setAt # 0
<1>1. ASSUME NEW table \in TierTables, SetTiers(table) PROVE tiers'.setAt # 0
  <2>1. tiers'.setAt = now
    BY <1>1 DEF SetTiers
  <2>2. now \in Nat /\ now >= 1
    BY DEF Inductive, TypeOK, WindowsInOrder, Genesis
  <2> QED BY <2>1, <2>2
<1>2. CASE Record
  BY <1>2 DEF Record, Deposit, Withdraw, Claim, settings
<1>3. CASE Drawing
  BY <1>3 DEF Drawing, OpenDraw, RevealDraw, CancelDraw, Accrue, AccrueMany, settings
<1>4. CASE Funding
  BY <1>4 DEF Funding, FundReserve, FundFeePot, Harvest, settings
<1>5. CASE Configuring
  BY <1>1, <1>5 DEF Configuring, SetYieldSource, SetKeeperFee, RenounceOwnership
<1>6. CASE Tick \/ UNCHANGED vars
  BY <1>6 DEF Tick, vars, settings
<1> QED BY <1>2, <1>3, <1>4, <1>5, <1>6 DEF Next

\* The tiers an account's weight in a draw clears.
TiersWon(u, d) == {t \in Tiers : AccrualWeight(u, d) > ThresholdFor(d, u, t)}

\* With the same table every account's credit in a draw stays what it was.
LEMMA CreditStays ==
  ASSUME Inductive, CacheIsTransparent, CacheIsTransparent', [Next]_vars,
         tiers'.prize = tiers.prize, tiers'.k = tiers.k,
         NEW d \in DOMAIN draws, NEW u \in Users
  PROVE  Credit(u, d)' = Credit(u, d)
<1>1. AccrualWeight(u, d)' = AccrualWeight(u, d) /\ SameWindow(draws'[d], draws[d])
  BY WeightsStay
<1>2. \A t \in Tiers : ThresholdFor(d, u, t)' = ThresholdFor(d, u, t)
  BY <1>1 DEF ThresholdFor, SameWindow
<1>3. TiersWon(u, d)' = TiersWon(u, d)
  BY <1>1, <1>2 DEF TiersWon
<1>4. Credit(u, d) = IF TiersWon(u, d) = {} THEN 0
                     ELSE tiers.prize[CHOOSE t \in TiersWon(u, d) : \A s \in TiersWon(u, d) : t <= s]
  BY DEF Credit, TiersWon
<1>5. Credit(u, d)' = IF TiersWon(u, d)' = {} THEN 0
                      ELSE tiers'.prize[CHOOSE t \in TiersWon(u, d)' : \A s \in TiersWon(u, d)' : t <= s]
  BY DEF Credit, TiersWon
<1> QED BY <1>3, <1>4, <1>5

LEMMA CreditedStep ==
  ASSUME Inductive, CacheIsTransparent, CacheIsTransparent', Credited, TiersKept, [Next]_vars
  PROVE  Credited'
<1>1. tiers'.setAt = 0 => tiers'.prize[0] = 0
  BY TiersMove DEF Credited
<1>2. tiers.setAt # 0 => tiers'.setAt # 0
  BY TiersMove
<1>3. ASSUME NEW d \in DOMAIN draws, NEW u \in draws[d].accrued,
             d \in DOMAIN draws', draws'[d].cleared[u] = draws[d].cleared[u],
             draws'[d].paid[u] = draws[d].paid[u]
      PROVE  /\ tiers'.setAt # 0
             /\ draws'[d].cleared[u] = Credit(u, d)'
             /\ draws'[d].paid[u] \in {0, draws'[d].cleared[u]}
  <2>1. /\ tiers.setAt # 0 /\ draws[d].cleared[u] = Credit(u, d)
        /\ draws[d].paid[u] \in {0, draws[d].cleared[u]}
    BY DEF Credited
  <2>2. u \in Users
    BY DrawFields DEF Inductive
  <2>3. Credit(u, d)' = Credit(u, d)
    BY <2>1, <2>2, CreditStays DEF TiersKept
  <2> QED BY <1>2, <1>3, <2>1, <2>3
<1> SUFFICES ASSUME NEW d \in DOMAIN draws', NEW u \in draws'[d].accrued
             PROVE  /\ tiers'.setAt # 0
                    /\ draws'[d].cleared[u] = Credit(u, d)'
                    /\ draws'[d].paid[u] \in {0, draws'[d].cleared[u]}
  BY <1>1 DEF Credited
<1>4. CASE SettlementsStay
  BY <1>3, <1>4 DEF SettlementsStay, SameSettlement
<1>5. CASE OpenedNext
  <2>1. CASE d \in DOMAIN draws
    BY <1>3, <1>5, <2>1 DEF OpenedNext
  <2>2. CASE d \notin DOMAIN draws
    <3>1. d = Len(draws) + 1
      <4>1. Len(draws) \in Nat /\ DOMAIN draws = 1..Len(draws)
        BY LenProperties DEF Inductive, TypeOK
      <4> QED BY <1>5, <2>2, <4>1 DEF OpenedNext
    <3>2. draws'[d].accrued = {}
      BY <1>5, <3>1 DEF OpenedNext, Opened
    <3> QED BY <3>2
  <2> QED BY <2>1, <2>2
<1>6. CASE FreshAward
  <2>1. PICK e \in DOMAIN draws, batch \in SUBSET Users, a \in [Users -> Nat] :
          MayAccrue(e) /\ tiers' = tiers /\ Awarded(e, batch, a)
    BY <1>6 DEF FreshAward
  <2>2. d \in DOMAIN draws
    BY <2>1 DEF Awarded
  <2>3. CASE d # e
    BY <1>3, <2>1, <2>2, <2>3 DEF Awarded
  <2>4. CASE d = e /\ u \in batch
    <3>1. tiers.setAt # 0
      BY <2>1 DEF MayAccrue, Credited
    <3>2. Credit(u, d)' = Credit(u, d)
      BY <2>1, <2>2, <2>4, CreditStays
    <3>3. draws'[d].cleared[u] = Credit(u, d) /\ draws'[d].paid[u] \in {0, draws'[d].cleared[u]}
      BY <2>1, <2>4 DEF Awarded
    <3> QED BY <1>2, <3>1, <3>2, <3>3
  <2>5. CASE d = e /\ u \notin batch
    <3>1. u \in draws[d].accrued
      BY <2>1, <2>5 DEF Awarded
    <3>2. u \in Users
      BY <2>2, <3>1, DrawFields DEF Inductive
    <3>3. draws'[d].paid[u] = draws[d].paid[u] /\ draws'[d].cleared[u] = draws[d].cleared[u]
      BY <2>1, <2>5, <3>2 DEF Awarded
    <3> QED BY <1>3, <2>2, <3>1, <3>3
  <2> QED BY <2>3, <2>4, <2>5
<1> QED BY <1>4, <1>5, <1>6, SettlementsMove

\* The first of the tiers cleared, as the page names it.
LEMMA FirstClearedNames ==
  ASSUME NEW cleared \in SUBSET Tiers
  PROVE  /\ cleared = {} => FirstCleared(cleared) = NoTier
         /\ cleared # {} => /\ FirstCleared(cleared) = CHOOSE t \in cleared : \A s \in cleared : t <= s
                            /\ FirstCleared(cleared) # NoTier
<1>1. cleared = {} => FirstCleared(cleared) = NoTier
  BY DEF FirstCleared
<1>2. ASSUME cleared # {}
      PROVE  /\ FirstCleared(cleared) = CHOOSE t \in cleared : \A s \in cleared : t <= s
             /\ FirstCleared(cleared) # NoTier
  <2>1. FirstCleared(cleared) = CHOOSE t \in cleared : \A s \in cleared : t <= s
    BY <1>2 DEF FirstCleared
  <2>2. cleared \subseteq Nat
    BY Parameters
  <2>3. \E t \in cleared : \A s \in cleared : t <= s
    BY <1>2, <2>2, LeastNatural
  <2>4. FirstCleared(cleared) \in Nat
    BY <2>1, <2>2, <2>3
  <2>5. FirstCleared(cleared) # NoTier
    BY <2>4 DEF NoTier
  <2> QED BY <2>1, <2>5
<1> QED BY <1>1, <1>2

LEMMA HistoryFollows ==
  ASSUME Inductive, Credited
  PROVE  HistoryMatchesCredit
<1> SUFFICES ASSUME NEW d \in DOMAIN draws, draws[d].status = "Revealed"
             PROVE  /\ AuditMatches(d)
                    /\ \A u \in Users :
                         LET obs == RecordRead(u, Len(userObs[u]))
                             row == HistoryRow(obs, u, d)
                         IN /\ FirstCleared(ClearedOnVerify(obs, u, d)) = row.bestTier
                            /\ ScriptVerdict(u, d) = row.bestTier
                            /\ row.accrued => /\ PrizeShown(row) = draws[d].cleared[u]
                                              /\ draws[d].paid[u] \in {0, PrizeShown(row)}
  BY DEF HistoryMatchesCredit
<1>1. \A u \in Users : \A t \in Tiers : ThresholdForLocal(d, u, t) = ThresholdFor(d, u, t)
  BY DEF ThresholdForLocal, ThresholdFor, UniformLocal, Uniform
<1>2. ASSUME NEW u \in Users, NEW obs, obs = RecordRead(u, Len(userObs[u])),
             NEW row, row = HistoryRow(obs, u, d)
      PROVE  /\ FirstCleared(ClearedOnVerify(obs, u, d)) = row.bestTier
             /\ ScriptVerdict(u, d) = row.bestTier
             /\ row.accrued => /\ PrizeShown(row) = draws[d].cleared[u]
                               /\ draws[d].paid[u] \in {0, PrizeShown(row)}
  <2>1. Len(userObs[u]) \in 0..Len(userObs[u])
    <3>1. Len(userObs[u]) \in Nat
      BY LenProperties DEF Inductive, TypeOK
    <3> QED BY <3>1
  <2>2. WeightForWindow(obs, d) = AccrualWeight(u, d) /\ WeightFor(u, d) = AccrualWeight(u, d)
    <3>1. Covers(u, Len(userObs[u]), d)
      BY DEF Covers
    <3> QED BY <1>2, <2>1, <3>1, PageWeights, CacheReads
  <2> DEFINE won == {t \in Tiers : AccrualWeight(u, d) > ThresholdFor(d, u, t)}
  <2>3. row.bestTier = FirstCleared(won) /\ (row.accrued <=> u \in draws[d].accrued)
    <3>1. {t \in Tiers : WeightForWindow(obs, d) > ThresholdFor(d, u, t)} = won
      BY <2>2
    <3> HIDE DEF won
    <3> QED BY <1>2, <3>1 DEF HistoryRow
  <2>4. ClearedOnVerify(obs, u, d) = won
    BY <1>1, <2>2 DEF ClearedOnVerify
  <2>5. ScriptVerdict(u, d) = FirstCleared(won)
    <3>1. {t \in Tiers : WeightFor(u, d) > ThresholdForLocal(d, u, t)} = won
      BY <1>1, <2>2
    <3> QED BY <3>1 DEF ScriptVerdict
  <2>6. PrizeShown(row) = Credit(u, d)
    <3>1. won \in SUBSET Tiers
      OBVIOUS
    <3>2. Credit(u, d) = IF won = {} THEN 0
                         ELSE tiers.prize[CHOOSE t \in won : \A s \in won : t <= s]
      BY DEF Credit
    <3> HIDE DEF won
    <3>3. CASE won = {}
      BY <2>3, <3>1, <3>2, <3>3, FirstClearedNames DEF PrizeShown
    <3>4. CASE won # {}
      BY <2>3, <3>1, <3>2, <3>4, FirstClearedNames DEF PrizeShown
    <3> QED BY <3>3, <3>4
  <2>7. u \in draws[d].accrued => /\ draws[d].cleared[u] = Credit(u, d)
                                  /\ draws[d].paid[u] \in {0, draws[d].cleared[u]}
    BY DEF Credited
  <2> HIDE DEF won
  <2> QED BY <2>3, <2>4, <2>5, <2>6, <2>7
<1> QED BY <1>1, <1>2 DEF AuditMatches

\* The prize the Position screen shows of a revealed draw, the tier the Verify screen
\* and the script name, and the prize accrual credited are one, and what was paid of it
\* is all or nothing (accrue, historyRow, verify), for as long as the tiers are set once.
THEOREM HistoryIsTrue == Spec /\ [][TiersKept]_vars => []HistoryMatchesCredit
<1>1. Init => Credited
  <2> SUFFICES ASSUME Init PROVE Credited
    OBVIOUS
  <2>1. DOMAIN draws = {} /\ tiers.prize[0] = 0
    BY Parameters DEF Init
  <2> QED BY <2>1 DEF Credited
<1>2. /\ Inductive /\ CacheIsTransparent /\ CacheIsTransparent' /\ Credited
      /\ [Next]_vars /\ [TiersKept]_vars
      => Credited'
  <2> SUFFICES ASSUME Inductive, CacheIsTransparent, CacheIsTransparent', Credited,
                      [Next]_vars, [TiersKept]_vars
               PROVE  Credited'
    OBVIOUS
  <2>1. TiersKept
    BY DEF TiersKept, vars
  <2> QED BY <2>1, CreditedStep
<1>3. Inductive /\ Credited => HistoryMatchesCredit
  BY HistoryFollows
<1> QED
  BY <1>1, <1>2, <1>3, InductiveHolds, CacheChangesNothing, PTL DEF Spec

-----------------------------------------------------------------------------
(* The record, second by second.                                           *)

\* Observations of one moment have one cumulative.
LEMMA SameMoment ==
  ASSUME NEW obs, NEW at \in Nat, IsRecord(obs, at),
         NEW i \in DOMAIN obs, NEW j \in DOMAIN obs, i <= j, obs[i].timestamp = obs[j].timestamp
  PROVE  obs[i].cumulative = obs[j].cumulative
<1>1. obs \in Seq(Observation) /\ DOMAIN obs = 1..Len(obs) /\ Len(obs) \in Nat
  BY DEF IsRecord
<1>2. \A k, l \in DOMAIN obs : k <= l => obs[k].timestamp <= obs[l].timestamp
  BY DEF IsRecord, Timed
<1>3. \A k \in DOMAIN obs : /\ k \in Nat /\ obs[k].timestamp \in Nat /\ obs[k].balance \in Nat
                            /\ obs[k].cumulative \in Nat
  BY <1>1, ObservationFields
<1> DEFINE Bad == {k \in DOMAIN obs : /\ i <= k /\ obs[k].timestamp = obs[i].timestamp
                                      /\ obs[k].cumulative # obs[i].cumulative}
<1> SUFFICES ASSUME Bad # {} PROVE FALSE
  OBVIOUS
<1>4. PICK k \in Bad : \A l \in Bad : k <= l
  <2>1. Bad \subseteq Nat
    BY <1>3
  <2> HIDE DEF Bad
  <2> QED BY <2>1, LeastNatural
<1>5. /\ k \in DOMAIN obs /\ i <= k /\ obs[k].timestamp = obs[i].timestamp
      /\ obs[k].cumulative # obs[i].cumulative
  BY <1>4
<1>6. k > i /\ k \in 1..Len(obs) /\ k > 1 /\ k - 1 \in DOMAIN obs /\ i <= k - 1 /\ k - 1 < k
  BY <1>1, <1>3, <1>5
<1>7. obs[k - 1].timestamp = obs[i].timestamp
  <2>1. obs[i].timestamp <= obs[k - 1].timestamp /\ obs[k - 1].timestamp <= obs[k].timestamp
    <3>1. k - 1 <= k
      BY <1>6
    <3> QED BY <1>2, <1>5, <1>6, <3>1
  <2> QED BY <1>3, <1>5, <1>6, <2>1
<1>8. k - 1 \notin Bad
  <2>1. ~ (k <= k - 1)
    BY <1>6
  <2> HIDE DEF Bad
  <2> QED BY <1>4, <2>1
<1>9. obs[k - 1].cumulative = obs[i].cumulative
  BY <1>6, <1>7, <1>8
<1>10. obs[k].cumulative = CarryTo(obs[k - 1], obs[k].timestamp)
  BY <1>5, <1>6 DEF IsRecord, Chained
<1>11. CarryTo(obs[k - 1], obs[k].timestamp) = obs[k - 1].cumulative
  <2>1. PICK b, c, x \in Nat : /\ b = obs[k - 1].balance /\ c = obs[k - 1].cumulative
                              /\ x = obs[k - 1].timestamp
    BY <1>3, <1>6
  <2>2. obs[k].timestamp = x
    BY <1>5, <1>7, <2>1
  <2>3. c + b * (x - x) = c
    OBVIOUS
  <2> QED BY <2>1, <2>2, <2>3 DEF CarryTo
<1> QED BY <1>5, <1>9, <1>10, <1>11

\* The balance a record shows for a moment.
BalanceAt(obs, t) ==
  IF obs = <<>> \/ obs[1].timestamp > t THEN 0 ELSE obs[IndexAt(obs, t)].balance

\* The balance of a moment is added in the second that follows.
LEMMA SecondBySecond ==
  ASSUME NEW obs, NEW at \in Nat, IsRecord(obs, at), NEW t \in Nat, t + 1 <= at
  PROVE  BalanceAt(obs, t) \in Nat /\ CumulativeAt(obs, t + 1) = CumulativeAt(obs, t) + BalanceAt(obs, t)
<1>1. obs \in Seq(Observation) /\ DOMAIN obs = 1..Len(obs) /\ Len(obs) \in Nat
  BY DEF IsRecord
<1>2. \A k, l \in DOMAIN obs : k <= l => obs[k].timestamp <= obs[l].timestamp
  BY DEF IsRecord, Timed
<1>3. \A k \in DOMAIN obs : /\ k \in Nat /\ obs[k].timestamp \in Nat /\ obs[k].balance \in Nat
                            /\ obs[k].cumulative \in Nat
  BY <1>1, ObservationFields
<1>4. t \in 0..at /\ t + 1 \in 0..at
  OBVIOUS
\* an index reached at the very moment adds nothing to what its observation says
<1>5. ASSUME NEW j \in DOMAIN obs, obs[j].timestamp = t + 1
      PROVE  CarryTo(obs[j], t + 1) = obs[j].cumulative
  <2>1. PICK b, c \in Nat : b = obs[j].balance /\ c = obs[j].cumulative
    BY <1>3
  <2>2. c + b * ((t + 1) - (t + 1)) = c
    OBVIOUS
  <2> QED BY <1>5, <2>1, <2>2 DEF CarryTo
<1>6. CASE obs = <<>> \/ obs[1].timestamp > t
  <2>1. BalanceAt(obs, t) = 0 /\ CumulativeAt(obs, t) = 0
    BY <1>6 DEF BalanceAt, CumulativeAt
  <2>2. CumulativeAt(obs, t + 1) = 0
    <3>1. CASE obs = <<>> \/ obs[1].timestamp > t + 1
      BY <3>1 DEF CumulativeAt
    <3>2. CASE obs # <<>> /\ ~ (obs[1].timestamp > t + 1)
      <4>1. PICK j \in DOMAIN obs : /\ CumulativeAt(obs, t + 1) = CarryTo(obs[j], t + 1)
                                   /\ obs[j].timestamp <= t + 1
        BY <1>4, <3>2, ReadCases
      <4>2. 1 \in DOMAIN obs /\ 1 <= j
        BY <1>1, <1>3, <4>1
      <4>3. obs[1].timestamp > t /\ obs[1].timestamp <= obs[j].timestamp
        BY <1>2, <1>6, <3>2, <4>2
      <4>4. obs[j].timestamp = t + 1 /\ obs[1].timestamp = t + 1
        BY <1>3, <4>1, <4>2, <4>3
      <4>5. obs[j].cumulative = 0
        <5>1. obs[1].cumulative = 0
          BY <3>2 DEF IsRecord, Chained
        <5> QED BY <4>2, <4>4, <5>1, SameMoment
      <4> QED BY <1>5, <4>1, <4>4, <4>5
    <3> QED BY <3>1, <3>2
  <2> QED BY <2>1, <2>2
<1>7. CASE obs # <<>> /\ ~ (obs[1].timestamp > t)
  <2>1. PICK i \in DOMAIN obs : /\ IsIndexAt(obs, t, i) /\ CumulativeAt(obs, t) = CarryTo(obs[i], t)
                               /\ obs[i].timestamp <= t
    BY <1>4, <1>7, ReadCases
  <2>2. BalanceAt(obs, t) = obs[i].balance
    <3>1. IndexAt(obs, t) = i
      BY <1>4, <2>1, IndexIs
    <3> QED BY <1>7, <3>1 DEF BalanceAt
  <2>3. PICK b, c, x \in Nat : b = obs[i].balance /\ c = obs[i].cumulative /\ x = t - obs[i].timestamp
    <3>1. t - obs[i].timestamp \in Nat
      BY <1>3, <2>1
    <3> QED BY <1>3, <3>1
  <2>4. CumulativeAt(obs, t) = c + b * x /\ CarryTo(obs[i], t + 1) = (c + b * x) + b
    <3>1. (t + 1) - obs[i].timestamp = x + 1
      BY <1>3, <2>1, <2>3
    <3>2. c + b * (x + 1) = (c + b * x) + b
      OBVIOUS
    <3>3. CarryTo(obs[i], t) = c + b * x
      BY <2>3 DEF CarryTo
    <3>4. CarryTo(obs[i], t + 1) = c + b * (x + 1)
      BY <2>3, <3>1, Zenon DEF CarryTo
    <3> QED BY <2>1, <3>2, <3>3, <3>4
  <2>5. CumulativeAt(obs, t + 1) = CarryTo(obs[i], t + 1)
    <3>1. CASE i = Len(obs) \/ obs[i + 1].timestamp > t + 1
      <4>1. obs[i].timestamp <= t + 1
        BY <1>3, <2>1
      <4>2. IsIndexAt(obs, t + 1, i)
        BY <3>1, <4>1 DEF IsIndexAt
      <4> QED BY <1>4, <4>2, IndexIs
    <3>2. CASE ~ (i = Len(obs) \/ obs[i + 1].timestamp > t + 1)
      <4>1. i + 1 \in DOMAIN obs /\ i + 1 > 1 /\ (i + 1) - 1 = i
        BY <1>1, <1>3, <3>2
      <4>2. obs[i + 1].timestamp = t + 1
        <5>1. obs[i + 1].timestamp > t
          BY <2>1, <3>2 DEF IsIndexAt
        <5> QED BY <1>3, <3>2, <4>1, <5>1
      <4>3. obs[i + 1].cumulative = CarryTo(obs[i], t + 1)
        BY <4>1, <4>2 DEF IsRecord, Chained
      <4>4. obs # <<>> /\ ~ (obs[1].timestamp > t + 1)
        <5>1. 1 \in DOMAIN obs
          BY <1>1, <1>7
        <5> QED BY <1>3, <1>7, <5>1
      <4>5. PICK j \in DOMAIN obs : /\ IsIndexAt(obs, t + 1, j)
                                   /\ CumulativeAt(obs, t + 1) = CarryTo(obs[j], t + 1)
                                   /\ obs[j].timestamp <= t + 1
        BY <1>4, <4>4, ReadCases
      <4>6. i + 1 <= j
        <5> SUFFICES ASSUME ~ (i + 1 <= j) PROVE FALSE
          OBVIOUS
        <5>1. j + 1 \in DOMAIN obs /\ j + 1 <= i + 1 /\ j # Len(obs)
          BY <1>1, <1>3, <4>1
        <5>2. obs[j + 1].timestamp > t + 1 /\ obs[j + 1].timestamp <= obs[i + 1].timestamp
          BY <1>2, <4>1, <4>5, <5>1 DEF IsIndexAt
        <5> QED BY <1>3, <4>2, <5>1, <5>2
      <4>7. obs[j].timestamp = t + 1
        <5>1. obs[i + 1].timestamp <= obs[j].timestamp
          BY <1>2, <4>1, <4>6
        <5> QED BY <1>3, <4>2, <4>5, <5>1
      <4>8. obs[j].cumulative = obs[i + 1].cumulative
        BY <4>1, <4>2, <4>6, <4>7, SameMoment
      <4> QED BY <1>5, <4>3, <4>5, <4>7, <4>8
    <3> QED BY <3>1, <3>2
  <2> QED BY <2>2, <2>3, <2>4, <2>5
<1> QED BY <1>6, <1>7

\* While the balance is b the cumulative climbs by b a second, and while it is at most b
\* by no more.
LEMMA Slope ==
  ASSUME NEW obs, NEW at \in Nat, IsRecord(obs, at), NEW s \in 0..at, NEW e \in 0..at, s <= e,
         NEW b \in Nat
  PROVE  /\ (\A t \in Nat : s <= t /\ t < e => BalanceAt(obs, t) = b) =>
              CumulativeAt(obs, e) = CumulativeAt(obs, s) + b * (e - s)
         /\ (\A t \in Nat : s <= t /\ t < e => BalanceAt(obs, t) <= b) =>
              CumulativeAt(obs, e) <= CumulativeAt(obs, s) + b * (e - s)
<1>1. s \in Nat /\ e \in Nat /\ e <= at
  OBVIOUS
<1>2. PICK c \in Nat : c = CumulativeAt(obs, s)
  BY CumulativeType
<1>3. PICK n \in Nat : n = e - s /\ e = s + n
  <2>1. e - s \in Nat /\ e = s + (e - s)
    BY <1>1
  <2> QED BY <2>1
<1>4. ASSUME NEW k \in Nat, k + 1 <= n
      PROVE  /\ s + k \in Nat /\ s <= s + k /\ s + k < e /\ s + (k + 1) \in 0..at
             /\ CumulativeAt(obs, s + k) \in Nat /\ BalanceAt(obs, s + k) \in Nat
             /\ CumulativeAt(obs, s + (k + 1)) = CumulativeAt(obs, s + k) + BalanceAt(obs, s + k)
  <2>1. s + k \in Nat /\ s <= s + k /\ s + k < e /\ (s + k) + 1 <= at /\ s + k \in 0..at
    BY <1>1, <1>3, <1>4
  <2>2. s + (k + 1) = (s + k) + 1
    OBVIOUS
  <2>3. CumulativeAt(obs, s + k) \in Nat
    BY <2>1, CumulativeType
  <2>4. /\ BalanceAt(obs, s + k) \in Nat
        /\ CumulativeAt(obs, (s + k) + 1) = CumulativeAt(obs, s + k) + BalanceAt(obs, s + k)
    BY <2>1, SecondBySecond
  <2> QED BY <2>1, <2>2, <2>3, <2>4
<1>5. s + 0 = s /\ b * 0 = 0
  OBVIOUS
<1>6. \A k \in Nat : b * k \in Nat /\ b * (k + 1) = b * k + b
  OBVIOUS
<1>7. ASSUME \A t \in Nat : s <= t /\ t < e => BalanceAt(obs, t) = b
      PROVE  CumulativeAt(obs, e) = c + b * n
  <2> DEFINE Bad == {k \in 0..n : CumulativeAt(obs, s + k) # c + b * k}
  <2>1. Bad = {}
    <3> SUFFICES ASSUME Bad # {} PROVE FALSE
      OBVIOUS
    <3>1. PICK k \in Bad : \A l \in Bad : k <= l
      <4>1. Bad \subseteq Nat
        OBVIOUS
      <4> HIDE DEF Bad
      <4> QED BY <4>1, LeastNatural
    <3>2. k \in 0..n /\ CumulativeAt(obs, s + k) # c + b * k
      BY <3>1
    <3>3. k # 0
      BY <1>2, <1>5, <3>2
    <3>4. PICK l \in Nat : k = l + 1 /\ l + 1 <= n /\ l \in 0..n /\ ~ (k <= l)
      <4>1. k - 1 \in Nat /\ k = (k - 1) + 1 /\ k <= n /\ ~ (k <= k - 1)
        BY <3>2, <3>3
      <4> QED BY <4>1
    <3>5. CumulativeAt(obs, s + l) = c + b * l
      <4>1. l \notin Bad
        <5> HIDE DEF Bad
        <5> QED BY <3>1, <3>4
      <4> QED BY <3>4, <4>1
    <3>6. CumulativeAt(obs, s + (l + 1)) = (c + b * l) + b
      BY <1>4, <1>7, <3>4, <3>5
    <3>7. (c + b * l) + b = c + b * (l + 1)
      BY <1>6
    <3> QED BY <3>2, <3>4, <3>6, <3>7
  <2>2. n \in 0..n
    OBVIOUS
  <2> QED BY <1>3, <2>1, <2>2
<1>8. ASSUME \A t \in Nat : s <= t /\ t < e => BalanceAt(obs, t) <= b
      PROVE  CumulativeAt(obs, e) <= c + b * n
  <2> DEFINE Bad == {k \in 0..n : ~ (CumulativeAt(obs, s + k) <= c + b * k)}
  <2>1. Bad = {}
    <3> SUFFICES ASSUME Bad # {} PROVE FALSE
      OBVIOUS
    <3>1. PICK k \in Bad : \A l \in Bad : k <= l
      <4>1. Bad \subseteq Nat
        OBVIOUS
      <4> HIDE DEF Bad
      <4> QED BY <4>1, LeastNatural
    <3>2. k \in 0..n /\ ~ (CumulativeAt(obs, s + k) <= c + b * k)
      BY <3>1
    <3>3. k # 0
      BY <1>2, <1>5, <3>2
    <3>4. PICK l \in Nat : k = l + 1 /\ l + 1 <= n /\ l \in 0..n /\ ~ (k <= l)
      <4>1. k - 1 \in Nat /\ k = (k - 1) + 1 /\ k <= n /\ ~ (k <= k - 1)
        BY <3>2, <3>3
      <4> QED BY <4>1
    <3>5. CumulativeAt(obs, s + l) <= c + b * l
      <4>1. l \notin Bad
        <5> HIDE DEF Bad
        <5> QED BY <3>1, <3>4
      <4> QED BY <3>4, <4>1
    <3>6. PICK v, x, p \in Nat :
            v = CumulativeAt(obs, s + l) /\ x = BalanceAt(obs, s + l) /\ p = b * l
      BY <1>4, <1>6, <3>4
    <3>7. CumulativeAt(obs, s + (l + 1)) = v + x /\ x <= b
      BY <1>4, <1>8, <3>4, <3>6
    <3>8. b * (l + 1) = p + b
      BY <1>6, <3>6
    <3>9. v + x <= c + (p + b)
      BY <3>5, <3>6, <3>7
    <3> QED BY <3>2, <3>4, <3>7, <3>8, <3>9
  <2>2. n \in 0..n
    OBVIOUS
  <2> QED BY <1>3, <2>1, <2>2
<1> QED BY <1>2, <1>3, <1>7, <1>8

-----------------------------------------------------------------------------
(* What the screens rely on beside the weights.                            *)

\* Who won something is marked as settled, and only a revealed draw settles anyone.
OnlyRevealedSettle ==
  \A d \in DOMAIN draws : \A u \in Users :
    /\ draws[d].cleared[u] # 0 => u \in draws[d].accrued
    /\ u \in draws[d].accrued => draws[d].status = "Revealed"

LEMMA SettleStepStatus ==
  ASSUME Inductive, OnlyRevealedSettle, [Next]_vars
  PROVE  OnlyRevealedSettle'
<1>1. \A d \in DOMAIN draws : \A u \in Users :
         /\ draws[d].cleared[u] # 0 => u \in draws[d].accrued
         /\ u \in draws[d].accrued => draws[d].status = "Revealed"
  BY DEF OnlyRevealedSettle
<1>2. Len(draws) \in Nat /\ DOMAIN draws = 1..Len(draws)
  BY LenProperties DEF Inductive, TypeOK
<1>3. CASE OpenedNext
  <2> SUFFICES ASSUME NEW d \in DOMAIN draws', NEW u \in Users
               PROVE  /\ draws'[d].cleared[u] # 0 => u \in draws'[d].accrued
                      /\ u \in draws'[d].accrued => draws'[d].status = "Revealed"
    BY DEF OnlyRevealedSettle
  <2>1. CASE d \in DOMAIN draws
    <3>1. draws'[d] = draws[d]
      BY <1>3, <2>1 DEF OpenedNext
    <3> QED BY <1>1, <2>1, <3>1
  <2>2. CASE d \notin DOMAIN draws
    <3>1. d = Len(draws) + 1
      BY <1>2, <1>3, <2>2 DEF OpenedNext
    <3>2. draws'[d].accrued = {} /\ draws'[d].cleared[u] = 0
      BY <1>3, <3>1 DEF OpenedNext, Opened
    <3> QED BY <3>2
  <2> QED BY <2>1, <2>2
<1>4. CASE KeptAll /\ ~ OpenedNext
  <2>1. DOMAIN draws' = DOMAIN draws
    BY <1>4 DEF KeptAll
  <2>2. \A d \in DOMAIN draws : draws[d].status = "Revealed" => draws'[d].status = "Revealed"
    BY <1>4 DEF KeptAll, KeptDraw
  <2> SUFFICES ASSUME NEW d \in DOMAIN draws, NEW u \in Users
               PROVE  /\ draws'[d].cleared[u] # 0 => u \in draws'[d].accrued
                      /\ u \in draws'[d].accrued => draws'[d].status = "Revealed"
    BY <2>1 DEF OnlyRevealedSettle
  <2>3. CASE SettlementsStay
    <3>1. draws'[d].accrued = draws[d].accrued /\ draws'[d].cleared = draws[d].cleared
      BY <2>3 DEF SettlementsStay, SameSettlement
    <3> QED BY <1>1, <2>2, <3>1
  <2>4. CASE FreshAward
    <3>1. PICK e \in DOMAIN draws, batch \in SUBSET Users, a \in [Users -> Nat] :
            MayAccrue(e) /\ Awarded(e, batch, a)
      BY <2>4 DEF FreshAward
    <3>2. draws[e].status = "Revealed"
      BY <3>1 DEF MayAccrue
    <3>3. CASE d # e
      <4>1. draws'[d].accrued = draws[d].accrued /\ draws'[d].cleared = draws[d].cleared
        BY <3>1, <3>3 DEF Awarded
      <4> QED BY <1>1, <2>2, <4>1
    <3>4. CASE d = e
      <4>1. draws'[d].accrued = draws[d].accrued \cup batch
        BY <3>1, <3>4 DEF Awarded
      <4>2. u \notin batch => draws'[d].cleared[u] = draws[d].cleared[u]
        BY <3>1, <3>4 DEF Awarded
      <4>3. draws'[d].status = "Revealed"
        BY <2>2, <3>2, <3>4
      <4> QED BY <1>1, <4>1, <4>2, <4>3
    <3> QED BY <3>3, <3>4
  <2> QED BY <1>4, <2>3, <2>4, SettlementsMove
<1> QED BY <1>3, <1>4, DrawsStep

\* The total record has one observation for each in the accounts' records.
LengthsAgree == Len(totalObs) = SumFunction([u \in Users |-> Len(userObs[u])])

\* An account's record and the total's grow by the same number of observations.
BothGrow(u) ==
  /\ \E n \in Nat : /\ Len(userObs'[u]) = Len(userObs[u]) + n
                    /\ Len(totalObs') = Len(totalObs) + n
  /\ \A v \in Users \ {u} : userObs'[v] = userObs[v]

LEMMA DrainedGrow ==
  ASSUME TypeOK, NEW u \in Users
  PROVE  \E n \in Nat : /\ Len(Drained(u)) = Len(userObs[u]) + n
                        /\ Len(DrainedTotal(u)) = Len(totalObs) + n
<1>1. userObs[u] \in Seq(Observation) /\ totalObs \in Seq(Observation)
  BY DEF TypeOK
<1>2. Len(userObs[u]) \in Nat /\ Len(totalObs) \in Nat
  BY <1>1, LenProperties
<1>3. CASE HasPending(u)
  <2>1. Len(Drained(u)) = Len(userObs[u]) + 1 /\ Len(DrainedTotal(u)) = Len(totalObs) + 1
    BY <1>1, <1>3, PushShape DEF Drained, DrainedTotal
  <2> QED BY <2>1
<1>4. CASE ~ HasPending(u)
  <2>1. Len(Drained(u)) = Len(userObs[u]) + 0 /\ Len(DrainedTotal(u)) = Len(totalObs) + 0
    BY <1>2, <1>4 DEF Drained, DrainedTotal
  <2> QED BY <2>1
<1> QED BY <1>3, <1>4

LEMMA RecordsGrow ==
  ASSUME TypeOK, RecordsSound, NEW u \in Users,
         \/ \E amount \in Amounts : Deposit(u, amount)
         \/ \E amount \in Amounts : \E sent : Withdraw(u, amount, sent)
         \/ Claim(u)
  PROVE  BothGrow(u)
<1>1. userObs \in [Users -> Seq(Observation)] /\ Len(userObs[u]) \in Nat /\ Len(totalObs) \in Nat
  BY LenProperties DEF TypeOK
<1>2. Drained(u) \in Seq(Observation) /\ DrainedTotal(u) \in Seq(Observation)
  BY DrainedExtends
<1>3. PICK n \in Nat : /\ Len(Drained(u)) = Len(userObs[u]) + n
                       /\ Len(DrainedTotal(u)) = Len(totalObs) + n
  BY DrainedGrow
<1>4. ASSUME NEW b, NEW c, userObs' = [userObs EXCEPT ![u] = Push(Drained(u), b, now)],
             totalObs' = Push(DrainedTotal(u), c, now)
      PROVE  BothGrow(u)
  <2>1. userObs'[u] = Push(Drained(u), b, now) /\ \A v \in Users \ {u} : userObs'[v] = userObs[v]
    BY <1>1, <1>4
  <2>2. /\ Len(Push(Drained(u), b, now)) = Len(Drained(u)) + 1
        /\ Len(Push(DrainedTotal(u), c, now)) = Len(DrainedTotal(u)) + 1
    BY <1>2, PushShape
  <2>3. n + 1 \in Nat /\ Len(userObs'[u]) = Len(userObs[u]) + (n + 1)
        /\ Len(totalObs') = Len(totalObs) + (n + 1)
    BY <1>1, <1>3, <1>4, <2>1, <2>2
  <2> QED BY <2>1, <2>3 DEF BothGrow
<1>5. ASSUME Claim(u) PROVE BothGrow(u)
  <2>1. userObs' = [userObs EXCEPT ![u] = Drained(u)] /\ totalObs' = DrainedTotal(u)
    BY <1>5 DEF Claim
  <2>2. userObs'[u] = Drained(u) /\ \A v \in Users \ {u} : userObs'[v] = userObs[v]
    BY <1>1, <2>1
  <2> QED BY <1>3, <2>1, <2>2 DEF BothGrow
<1>6. ASSUME NEW amount \in Amounts, Deposit(u, amount) PROVE BothGrow(u)
  BY <1>4, <1>6 DEF Deposit
<1>7. ASSUME NEW amount \in Amounts, NEW sent, Withdraw(u, amount, sent) PROVE BothGrow(u)
  BY <1>4, <1>7 DEF Withdraw
<1> QED BY <1>5, <1>6, <1>7

LEMMA LengthsStep ==
  ASSUME Inductive, Inductive', LengthsAgree, [Next]_vars
  PROVE  LengthsAgree' /\ (totalObs # <<>> => totalObs' # <<>>)
<1>1. TypeOK /\ RecordsSound /\ totalObs \in Seq(Observation) /\ totalObs' \in Seq(Observation)
  BY DEF Inductive, TypeOK
<1>2. CASE UNCHANGED record
  BY <1>2 DEF LengthsAgree, record
<1>3. ASSUME NEW u \in Users, BothGrow(u)
      PROVE  LengthsAgree' /\ (totalObs # <<>> => totalObs' # <<>>)
  <2>1. PICK n \in Nat : Len(userObs'[u]) = Len(userObs[u]) + n /\ Len(totalObs') = Len(totalObs) + n
    BY <1>3 DEF BothGrow
  <2>2. PICK f : f = [v \in Users |-> Len(userObs[v])]
    OBVIOUS
  <2>3. PICK g : g = [v \in Users |-> Len(userObs'[v])]
    OBVIOUS
  <2>4. f \in [Users -> Int] /\ g \in [Users -> Int] /\ f[u] \in Nat
    <3>1. \A v \in Users : Len(userObs[v]) \in Nat /\ Len(userObs'[v]) \in Nat
      BY LenProperties DEF Inductive, TypeOK
    <3> QED BY <2>2, <2>3, <3>1
  <2>5. DifferAt(u, f, g, Users) /\ g[u] = f[u] + n
    BY <1>3, <2>1, <2>2, <2>3, <2>4 DEF BothGrow, DifferAt
  <2>6. SumFunction(g) = SumFunction(f) - f[u] + g[u]
    BY <2>4, <2>5, Parameters, SumChange
  <2>7. Len(totalObs) = SumFunction(f)
    BY <2>2 DEF LengthsAgree
  <2>8. Len(totalObs) \in Nat
    BY <1>1, LenProperties
  <2>9. Len(totalObs') = SumFunction(g)
    BY <2>1, <2>4, <2>5, <2>6, <2>7, <2>8
  <2>10. LengthsAgree'
    BY <2>3, <2>9 DEF LengthsAgree
  <2>11. totalObs # <<>> => totalObs' # <<>>
    <3>1. totalObs # <<>> => Len(totalObs) > 0
      BY <1>1, <2>8, EmptySeq
    <3>2. totalObs' = <<>> => Len(totalObs') = 0
      OBVIOUS
    <3> QED BY <2>1, <2>8, <3>1, <3>2
  <2> QED BY <2>10, <2>11
<1>4. CASE Tick
  <2>1. UNCHANGED record
    BY <1>4 DEF Tick
  <2> QED BY <1>2, <2>1
<1> QED BY <1>1, <1>2, <1>3, <1>4, RecordFrame, RecordsGrow

\* A draw was opened over a record.
DrawsHaveRecord == draws # <<>> => totalObs # <<>>

LEMMA HaveRecordStep ==
  ASSUME Inductive, Inductive', LengthsAgree, DrawsHaveRecord, [Next]_vars
  PROVE  DrawsHaveRecord'
<1>1. totalObs # <<>> => totalObs' # <<>>
  BY LengthsStep
<1>2. CASE draws # <<>>
  BY <1>1, <1>2 DEF DrawsHaveRecord
<1>3. CASE draws = <<>>
  <2>1. CASE OpenedNext
    <3>1. ASSUME NEW r \in Rand, OpenDraw(Keeper, r) PROVE totalObs' # <<>>
      BY <3>1 DEF OpenDraw, record
    <3>2. ASSUME UNCHANGED draws PROVE DrawsHaveRecord'
      BY <1>3, <3>2 DEF DrawsHaveRecord
    <3>3. ASSUME NEW d \in DOMAIN draws PROVE FALSE
      BY <1>3, <3>3
    <3>4. CASE Drawing
      BY <3>1, <3>3, <3>4 DEF Drawing, DrawsHaveRecord
    <3>5. CASE ~ Drawing
      <4>1. UNCHANGED draws
        BY <3>5 DEF Next, vars, Tick, Record, Deposit, Withdraw, Claim, Funding, FundReserve,
             FundFeePot, Harvest, Configuring, SetYieldSource, SetTiers, SetKeeperFee,
             RenounceOwnership
      <4> QED BY <3>2, <4>1
    <3> QED BY <3>4, <3>5
  <2>2. CASE KeptAll
    <3>1. Len(draws') = 0 /\ draws' \in Seq(DrawRecord)
      BY <1>3, <2>2 DEF KeptAll, Inductive, TypeOK
    <3>2. draws' = <<>>
      BY <3>1, EmptySeq
    <3> QED BY <3>2 DEF DrawsHaveRecord
  <2> QED BY <2>1, <2>2, DrawsStep
<1> QED BY <1>2, <1>3

-----------------------------------------------------------------------------
(* The buttons.                                                            *)

\* A finite set of naturals with a member has a greatest one.
LEMMA GreatestOf ==
  ASSUME NEW T, T \subseteq Nat, T # {}, NEW bound \in Nat, \A x \in T : x <= bound
  PROVE  \E m \in T : \A x \in T : x <= m
<1> DEFINE Below == {bound - x : x \in T}
<1>1. Below \subseteq Nat /\ Below # {}
  <2>1. \A x \in T : bound - x \in Nat
    OBVIOUS
  <2> QED BY <2>1
<1>2. PICK l \in Below : \A k \in Below : l <= k
  <2> HIDE DEF Below
  <2> QED BY <1>1, LeastNatural
<1>3. PICK m \in T : l = bound - m
  BY <1>2
<1>4. ASSUME NEW x \in T PROVE x <= m
  <2>1. l <= bound - x
    BY <1>2
  <2>2. x \in Nat /\ m \in Nat
    OBVIOUS
  <2> QED BY <1>3, <2>1, <2>2
<1> QED BY <1>4

\* The gaps are naturals, one for each of finitely many snapshots.
LEMMA GapsType ==
  ASSUME Inductive
  PROVE  /\ IsFiniteSet(DOMAIN Gaps) /\ \A t \in DOMAIN Gaps : Gaps[t] \in 0..now
<1> DEFINE times == {draws[d].snapshotAt : d \in {e \in Recent : Round > 1}}
           Later(t) == {s \in times : s > t}
<1>1. now \in Nat /\ \A d \in DOMAIN draws : draws[d].snapshotAt \in 0..now
  BY DrawMoments DEF Inductive, TypeOK
<1>2. times \subseteq 0..now
  BY <1>1 DEF Recent
<1>3. IsFiniteSet(0..now)
  BY <1>1, FS_Interval
<1>4. Gaps = [t \in {s \in times : Later(s) # {}} |->
                (CHOOSE s \in Later(t) : \A r \in Later(t) : s <= r) - t]
  BY DEF Gaps
<1> HIDE DEF times
<1>5. DOMAIN Gaps \subseteq 0..now
  BY <1>2, <1>4
<1>6. ASSUME NEW t \in DOMAIN Gaps PROVE Gaps[t] \in 0..now
  <2>1. Later(t) # {} /\ t \in 0..now
    BY <1>2, <1>4
  <2>2. Later(t) \subseteq Nat
    <3>1. times \subseteq Nat
      BY <1>1, <1>2
    <3> QED BY <3>1
  <2>3. PICK l : l = CHOOSE s \in Later(t) : \A r \in Later(t) : s <= r
    OBVIOUS
  <2>4. l \in Later(t)
    <3>1. \E s \in Later(t) : \A r \in Later(t) : s <= r
      <4> HIDE DEF Later
      <4> QED BY <2>1, <2>2, LeastNatural
    <3> HIDE DEF Later
    <3> QED BY <2>3, <3>1
  <2>5. l \in 0..now /\ l > t
    BY <1>2, <2>4
  <2>6. Gaps[t] = l - t
    BY <1>4, <2>3
  <2> QED BY <1>1, <2>1, <2>5, <2>6
<1> QED BY <1>3, <1>5, <1>6, FS_Subset

\* The cadence is a natural or is not given.
LEMMA MedianGapType ==
  ASSUME Inductive
  PROVE  MedianGap = Unknown \/ MedianGap \in Nat
<1>1. PICK gaps : gaps = Gaps
  OBVIOUS
<1>2. PICK D : D = DOMAIN gaps
  OBVIOUS
<1>3. IsFiniteSet(D) /\ Cardinality(D) \in Nat /\ now \in Nat /\ \A t \in D : gaps[t] \in 0..now
  BY <1>1, <1>2, GapsType, FS_CardinalityType DEF Inductive, TypeOK
<1> DEFINE n == Cardinality(D)
           Enough == {x \in Range(gaps) : Cardinality({t \in D : gaps[t] <= x}) > n \div 2}
<1>4. CASE n < MinGaps
  BY <1>1, <1>2, <1>4 DEF MedianGap
<1>5. CASE ~ (n < MinGaps)
  <2>1. n > 0 /\ n > n \div 2
    <3>1. MinGaps \in Nat \ {0}
      BY ScreensAssumption
    <3>2. n \in Nat /\ n >= 1
      BY <1>3, <1>5, <3>1
    <3> HIDE DEF n
    <3> QED BY <3>2
  <2>2. Range(gaps) \subseteq 0..now /\ Range(gaps) # {} /\ Range(gaps) = {gaps[t] : t \in D}
    <3>1. D # {}
      BY <2>1, FS_EmptySet
    <3>2. Range(gaps) = {gaps[t] : t \in D}
      BY <1>2 DEF Range
    <3> QED BY <1>3, <3>1, <3>2
  <2>3. PICK m \in Range(gaps) : \A x \in Range(gaps) : x <= m
    <3>1. Range(gaps) \subseteq Nat /\ \A x \in Range(gaps) : x <= now
      BY <1>3, <2>2
    <3> QED BY <1>3, <2>2, <3>1, GreatestOf
  <2>4. m \in Enough
    <3>1. \A t \in D : gaps[t] <= m
      BY <2>2, <2>3
    <3>2. {t \in D : gaps[t] <= m} = D
      BY <3>1
    <3> QED BY <2>1, <2>3, <3>2
  <2>5. Enough \subseteq Nat
    BY <1>3, <2>2
  <2>6. MedianGap = CHOOSE x \in Enough : \A y \in Enough : x <= y
    BY <1>1, <1>2, <1>5, ZenonT(40) DEF MedianGap
  <2>7. \E x \in Enough : \A y \in Enough : x <= y
    <3> HIDE DEF Enough
    <3> QED BY <2>4, <2>5, LeastNatural
  <2> HIDE DEF Enough
  <2>8. MedianGap \in Enough
    BY <2>6, <2>7
  <2> QED BY <2>5, <2>8
<1> QED BY <1>4, <1>5

LEMMA ButtonsAgree ==
  ASSUME Inductive, DrawsHaveRecord
  PROVE  ButtonsAgreeWithPool
<1> SUFFICES ASSUME Round > 0
             PROVE  /\ Callable = "open" => OpenAccepted
                    /\ Callable = "harvest" /\ Phase = "revealed" => ~OpenAccepted
                    /\ ~OpenAccepted /\ Phase # "open" => ~Clock.readyNow /\ CountdownShown # 0
                    /\ Stale <=> CancelAccepted
                    /\ Stale => ~OpenAccepted
                    /\ SettleShown /\ ~SettleAccepted => Phase # "revealed" \/ tiers.prize[0] = 0
  BY DEF ButtonsAgreeWithPool
<1>1. Round \in Nat /\ Round # 0 /\ Round = Len(draws) /\ Round \in DOMAIN draws /\ draws # <<>>
  BY LenProperties DEF Inductive, TypeOK, Round
<1>2. Latest = draws[Round] /\ LastStatus = Latest.status
  BY <1>1 DEF Latest, LastStatus
<1>3. PICK n, p, s, m \in Nat : /\ n = now /\ p = Latest.periodStart /\ s = Latest.snapshotAt
                               /\ m = MinPeriod
  BY <1>1, <1>2, DrawFields, Parameters DEF Inductive, TypeOK
<1>4. p <= s /\ Latest.status \in Status
  BY <1>1, <1>2, <1>3, DrawMoments, DrawFields DEF Inductive
<1>5. Previous = IF Latest.status = "Cancelled" THEN p ELSE s
  BY <1>1, <1>2, <1>3 DEF Previous, LastStatus
<1>6. OpenAccepted <=> Latest.status \in {"Revealed", "Cancelled"} /\ n >= Previous + m
  BY <1>1, <1>2, <1>3 DEF OpenAccepted, DrawsHaveRecord
<1>7. Callable = "open" => OpenAccepted
  <2> SUFFICES ASSUME Callable = "open" PROVE OpenAccepted
    OBVIOUS
  <2>1. Latest.status # "Open" /\ ~ (n < s + m)
    BY <1>1, <1>3 DEF Callable
  <2>2. n >= Previous + m
    BY <1>4, <1>5, <2>1
  <2> QED BY <1>4, <1>6, <2>1, <2>2 DEF Status
<1>8. Callable = "harvest" /\ Phase = "revealed" => ~OpenAccepted
  <2> SUFFICES ASSUME Callable = "harvest", Phase = "revealed" PROVE ~OpenAccepted
    OBVIOUS
  <2>1. Latest.status = "Revealed"
    BY <1>1, <1>4 DEF Phase, Status
  <2>2. n < s + m
    BY <1>1, <1>3 DEF Callable
  <2>3. ~ (n >= Previous + m)
    BY <1>5, <2>1, <2>2
  <2> QED BY <1>6, <2>3
<1>9. ~OpenAccepted /\ Phase # "open" => ~Clock.readyNow /\ CountdownShown # 0
  <2> SUFFICES ASSUME ~OpenAccepted, Phase # "open" PROVE ~Clock.readyNow /\ CountdownShown # 0
    OBVIOUS
  <2>1. Latest.status \in {"Revealed", "Cancelled"}
    BY <1>1, <1>4 DEF Phase, Status
  <2>2. n < s + m
    <3>1. ~ (n >= Previous + m)
      BY <1>6, <2>1
    <3> QED BY <1>4, <1>5, <3>1
  <2>3. ~ Clock.readyNow
    <3>1. Clock.readyNow <=> n >= s + m
      BY <1>3 DEF Clock
    <3> QED BY <2>2, <3>1
  <2>4. CASE MedianGap = Unknown
    <3>1. Clock.expected = Unknown
      BY <2>4 DEF Clock
    <3> QED BY <2>3, <3>1 DEF CountdownShown, Unknown
  <2>5. CASE MedianGap # Unknown
    <3>1. PICK g \in Nat : g = MedianGap
      BY <2>5, MedianGapType
    <3>2. PICK e : e = LatestOf(s + m, s + g)
      OBVIOUS
    <3>3. e \in Nat /\ e >= s + m /\ e # Unknown
      BY <3>2 DEF LatestOf, Unknown
    <3>4. Clock.expected = e /\ Clock.overdueSeconds = LatestOf(0, n - e) /\ Clock.etaSeconds = LatestOf(0, e - n)
      BY <1>3, <2>5, <3>1, <3>2, <3>3 DEF Clock
    <3>5. LatestOf(0, n - e) = 0 /\ LatestOf(0, e - n) > 0
      BY <2>2, <3>3 DEF LatestOf
    <3>6. CountdownShown = LatestOf(0, e - n)
      BY <3>3, <3>4, <3>5 DEF CountdownShown
    <3>7. e - n > 0 /\ LatestOf(0, e - n) = e - n
      BY <2>2, <3>3 DEF LatestOf
    <3> QED BY <2>3, <3>3, <3>6, <3>7
  <2> QED BY <2>4, <2>5
<1>10. Stale => ~OpenAccepted
  BY <1>6 DEF Stale
<1>11. Stale <=> CancelAccepted
  BY DEF Stale, CancelAccepted
<1>12. SettleShown /\ ~SettleAccepted => Phase # "revealed" \/ tiers.prize[0] = 0
  <2> SUFFICES ASSUME Phase = "revealed", tiers.prize[0] # 0 PROVE SettleAccepted
    OBVIOUS
  <2>1. Latest.status = "Revealed"
    BY <1>1, <1>4 DEF Phase, Status
  <2> QED BY <1>1, <1>2, <2>1 DEF SettleAccepted, MayAccrue
<1> QED BY <1>7, <1>8, <1>9, <1>10, <1>11, <1>12

-----------------------------------------------------------------------------
(* Participation.                                                          *)

LEMMA ParticipationRight ==
  ASSUME Inductive, OnlyStakersWin, OnlyRevealedSettle
  PROVE  ParticipationIsRight
<1> SUFFICES ASSUME Round > 0, NEW u \in Users
             PROVE  /\ StatusBlock(u).inIt # "yes" => AccrualWeight(u, Round) = 0
                    /\ Latest.cleared[u] > 0 => StatusBlock(u) = [inIt |-> "yes", settled |-> "yes"]
  BY DEF ParticipationIsRight
<1>1. Round \in DOMAIN draws /\ Latest = draws[Round]
  BY LenProperties DEF Inductive, TypeOK, Round, Latest
<1>2. userObs[u] \in Seq(Observation) /\ Len(userObs[u]) \in Nat
  BY LenProperties DEF Inductive, TypeOK
<1>3. StatusBlock(u).inIt = "yes" <=> Participating(u)
  BY DEF StatusBlock
<1>4. ~ Participating(u) => AccrualWeight(u, Round) = 0
  <2> SUFFICES ASSUME ~ Participating(u) PROVE AccrualWeight(u, Round) = 0
    OBVIOUS
  <2>1. PICK p, s \in 0..now : p = Latest.periodStart /\ s = Latest.snapshotAt /\ p <= s
    BY <1>1, DrawMoments DEF Inductive
  <2>2. p \in Nat /\ s \in Nat
    BY DEF Inductive, TypeOK
  <2>3. userObs[u] = <<>> \/ userObs[u][1].timestamp > s
    <3>1. CASE userObs[u] # <<>>
      <4>1. 1 \in DOMAIN userObs[u]
        BY <1>2, <3>1
      <4>2. userObs[u][1].timestamp \in Nat
        BY <1>2, <4>1, ObservationFields
      <4> QED BY <2>1, <2>2, <3>1, <4>2 DEF Participating
    <3> QED BY <3>1
  <2>4. userObs[u] = <<>> \/ userObs[u][1].timestamp > p
    <3>1. CASE userObs[u] # <<>>
      <4>1. 1 \in DOMAIN userObs[u]
        BY <1>2, <3>1
      <4>2. userObs[u][1].timestamp \in Nat
        BY <1>2, <4>1, ObservationFields
      <4> QED BY <2>1, <2>2, <2>3, <3>1, <4>2
    <3> QED BY <3>1
  <2>5. CumulativeAt(userObs[u], s) = 0 /\ CumulativeAt(userObs[u], p) = 0
    BY <2>3, <2>4 DEF CumulativeAt
  <2>6. AccrualWeight(u, Round) = CumulativeAt(userObs[u], s) - CumulativeAt(userObs[u], p)
    BY <1>1, <2>1, CacheReads DEF WeightFor
  <2> QED BY <2>5, <2>6
<1>5. Latest.cleared[u] > 0 => StatusBlock(u) = [inIt |-> "yes", settled |-> "yes"]
  <2> SUFFICES ASSUME Latest.cleared[u] > 0 PROVE StatusBlock(u) = [inIt |-> "yes", settled |-> "yes"]
    OBVIOUS
  <2>1. u \in Latest.accrued
    <3>1. draws[Round].cleared[u] \in Nat
      BY <1>1, DrawFields DEF Inductive
    <3> QED BY <1>1, <3>1 DEF OnlyRevealedSettle
  <2>2. PICK i \in DOMAIN userObs[u] : userObs[u][i].timestamp < Latest.snapshotAt
    BY <1>1 DEF OnlyStakersWin
  <2>3. 1 \in DOMAIN userObs[u] /\ 1 <= i /\ userObs[u] # <<>>
    BY <1>2, <2>2
  <2>4. userObs[u][1].timestamp <= userObs[u][i].timestamp
    BY <2>2, <2>3 DEF Inductive, RecordsSound, IsRecord, Timed
  <2>5. /\ userObs[u][1].timestamp \in Nat /\ userObs[u][i].timestamp \in Nat
        /\ Latest.snapshotAt \in Nat
    BY <1>1, <1>2, <2>2, <2>3, ObservationFields, DrawFields DEF Inductive
  <2>6. Participating(u)
    BY <2>2, <2>3, <2>4, <2>5 DEF Participating
  <2> QED BY <2>1, <2>6 DEF StatusBlock
<1> QED BY <1>3, <1>4, <1>5

-----------------------------------------------------------------------------
(* The odds.                                                               *)

\* The draws the screens read are draws.
LEMMA RecentDraws ==
  ASSUME Inductive
  PROVE  /\ Round \in Nat /\ Recent \subseteq DOMAIN draws
         /\ \A d \in DOMAIN draws : /\ d \in Nat /\ d <= Round
                                    /\ Span(d) \in Nat /\ draws[d].totalWeight \in Nat
         /\ Round > 0 => Round \in DOMAIN draws
<1>1. Round \in Nat /\ DOMAIN draws = 1..Round
  BY LenProperties DEF Inductive, TypeOK, Round
<1>2. ASSUME NEW d \in DOMAIN draws PROVE Span(d) \in Nat /\ draws[d].totalWeight \in Nat
  <2>1. /\ draws[d].periodStart \in Nat /\ draws[d].snapshotAt \in Nat
        /\ draws[d].periodStart <= draws[d].snapshotAt /\ draws[d].totalWeight \in Nat
    BY DrawFields, DrawMoments DEF Inductive
  <2> QED BY <2>1 DEF Span
<1> QED BY <1>1, <1>2 DEF Recent

\* The draw Position shows is a revealed one.
LEMMA CurrentIs ==
  ASSUME Inductive, Current > 0
  PROVE  Current \in DOMAIN draws /\ draws[Current].status = "Revealed"
<1> DEFINE revealed == {d \in Recent : draws[d].status = "Revealed"}
<1>1. revealed # {} /\ Current = CHOOSE d \in revealed : \A e \in revealed : e <= d
  BY DEF Current
<1>2. Round \in Nat /\ revealed \subseteq DOMAIN draws /\ revealed \subseteq Nat /\ \A d \in revealed : d <= Round
  BY RecentDraws
<1>3. \E d \in revealed : \A e \in revealed : e <= d
  <2> HIDE DEF revealed
  <2> QED BY <1>1, <1>2, GreatestOf
<1>4. Current \in revealed
  <2> HIDE DEF revealed
  <2> QED BY <1>1, <1>3
<1> QED BY <1>2, <1>4

\* The draw whose aggregate the Pool screen shows is one that published it.
LEMMA AggregateIs ==
  ASSUME Inductive, AggregateDraw > 0
  PROVE  /\ AggregateDraw \in DOMAIN draws /\ Published(AggregateDraw)
         /\ Span(AggregateDraw) \in Nat /\ Span(AggregateDraw) > 0
<1> DEFINE done == {d \in Recent : Round > 1 /\ Published(d)}
<1>1. ASSUME LastRevealed > 0 PROVE LastRevealed \in DOMAIN draws /\ Published(LastRevealed)
  <2>1. /\ done # {}
        /\ LastRevealed = CHOOSE d \in done : \A e \in done : draws[e].snapshotAt <= draws[d].snapshotAt
    BY <1>1 DEF LastRevealed
  <2>2. done \subseteq DOMAIN draws /\ \A d \in done : Published(d)
    BY RecentDraws
  <2> HIDE DEF done
  <2> DEFINE times == {draws[d].snapshotAt : d \in done}
  <2>3. times # {} /\ times \subseteq Nat /\ now \in Nat /\ \A x \in times : x <= now
    <3>1. \A d \in done : draws[d].snapshotAt \in 0..now /\ now \in Nat
      BY <2>2, DrawMoments DEF Inductive
    <3> QED BY <2>1, <3>1
  <2>4. PICK m \in times : \A x \in times : x <= m
    <3> HIDE DEF times
    <3> QED BY <2>3, GreatestOf
  <2>5. \E d \in done : \A e \in done : draws[e].snapshotAt <= draws[d].snapshotAt
    BY <2>4
  <2>6. LastRevealed \in done
    BY <2>1, <2>5
  <2> QED BY <2>2, <2>6
<1>2. PICK pick : pick = IF Round > 0 /\ Published(Round) THEN Round ELSE LastRevealed
  OBVIOUS
<1>3. AggregateDraw = pick /\ pick > 0 /\ Span(pick) > 0
  BY <1>2 DEF AggregateDraw
<1>4. pick \in DOMAIN draws /\ Published(pick)
  BY <1>1, <1>2, <1>3, RecentDraws
<1> QED BY <1>3, <1>4, RecentDraws

\* What Verify reads from the whole record is the weight, a natural number.
LEMMA WholeWeight ==
  ASSUME Inductive, NEW d \in DOMAIN draws, NEW u \in Users
  PROVE  WeightForWindow(userObs[u], d) = AccrualWeight(u, d) /\ AccrualWeight(u, d) \in Nat
<1>1. userObs[u] \in Seq(Observation) /\ Len(userObs[u]) \in Nat
  BY LenProperties DEF Inductive, TypeOK
<1>2. RecordRead(u, Len(userObs[u])) = userObs[u]
  BY <1>1 DEF RecordRead
<1>3. WeightForWindow(userObs[u], d) = AccrualWeight(u, d)
  <2>1. Len(userObs[u]) \in 0..Len(userObs[u])
    BY <1>1
  <2> QED BY <1>2, <2>1, PageWeights DEF Covers
<1>4. IsRecord(userObs[u], now)
  BY DEF Inductive, RecordsSound
<1>5. /\ now \in Nat /\ draws[d].periodStart \in 0..now /\ draws[d].snapshotAt \in 0..now
      /\ draws[d].periodStart <= draws[d].snapshotAt
  BY DrawMoments DEF Inductive
<1>6. PICK c, e \in Nat : /\ c = CumulativeAt(userObs[u], draws[d].periodStart)
                         /\ e = CumulativeAt(userObs[u], draws[d].snapshotAt)
  BY <1>4, <1>5, CumulativeType
<1>7. c <= e
  BY <1>4, <1>5, <1>6, CumulativeMonotone
<1>8. AccrualWeight(u, d) = e - c
  BY <1>6, CacheReads DEF WeightFor
<1> QED BY <1>3, <1>6, <1>7, <1>8

\* No account's weight is more than the published total.
LEMMA WeightWithinTotal ==
  ASSUME Inductive, WeightsSumToTotal, NEW d \in DOMAIN draws, draws[d].status = "Revealed"
  PROVE  \A u \in Users : AccrualWeight(u, d) <= draws[d].totalWeight
<1>1. PICK f : f = [u \in Users |-> AccrualWeight(u, d)]
  OBVIOUS
<1>2. f \in [Users -> Nat] /\ \A u \in Users : f[u] = AccrualWeight(u, d)
  BY <1>1, WholeWeight
<1>3. SumFunction(f) = draws[d].totalWeight
  BY <1>1 DEF WeightsSumToTotal
<1> QED BY <1>2, <1>3, Parameters, SumTerm

\* Who held one balance from before the window weighs it times the window.
LEMMA SatWeight ==
  ASSUME Inductive, NEW d \in DOMAIN draws, NEW u \in Users, SatStill(u, d)
  PROVE  AccrualWeight(u, d) = BalanceOf(userObs[u]) * Span(d)
<1>1. IsRecord(userObs[u], now)
  BY DEF Inductive, RecordsSound
<1>2. PICK obs : obs = userObs[u]
  OBVIOUS
<1>3. /\ obs \in Seq(Observation) /\ Len(obs) \in Nat /\ DOMAIN obs = 1..Len(obs)
      /\ IsRecord(obs, now) /\ obs # <<>>
  BY <1>1, <1>2 DEF IsRecord, SatStill
<1>4. /\ now \in Nat /\ draws[d].periodStart \in 0..now /\ draws[d].snapshotAt \in 0..now
      /\ draws[d].periodStart <= draws[d].snapshotAt
  BY DrawMoments DEF Inductive
<1>5. PICK s, e \in 0..now : s = draws[d].periodStart /\ e = draws[d].snapshotAt /\ s <= e
  BY <1>4
<1>6. PICK i \in DOMAIN obs : /\ obs[i].timestamp <= s
                             /\ \A j \in i..Len(obs) : obs[j].balance = obs[i].balance
  BY <1>2, <1>5 DEF SatStill
<1>7. \A k \in DOMAIN obs : k \in Nat /\ obs[k].timestamp \in Nat /\ obs[k].balance \in Nat
  BY <1>3, ObservationFields
<1>8. \A k, l \in DOMAIN obs : k <= l => obs[k].timestamp <= obs[l].timestamp
  BY <1>3 DEF IsRecord, Timed
<1>9. PICK b \in Nat : b = BalanceOf(obs) /\ b = obs[i].balance
  <2>1. Len(obs) \in i..Len(obs)
    BY <1>3, <1>7
  <2>2. BalanceOf(obs) = obs[i].balance
    BY <1>3, <1>6, <2>1 DEF BalanceOf
  <2> QED BY <1>7, <2>2
<1>10. ASSUME NEW t \in Nat, s <= t, t < e PROVE BalanceAt(obs, t) = b
  <2>1. t \in 0..now /\ s \in Nat
    BY <1>4, <1>5, <1>10
  <2>2. ~ (obs[1].timestamp > t)
    <3>1. 1 \in DOMAIN obs /\ 1 <= i
      BY <1>3, <1>7
    <3>2. obs[1].timestamp <= obs[i].timestamp
      BY <1>8, <3>1
    <3> QED BY <1>6, <1>7, <1>10, <2>1, <3>1, <3>2
  <2>3. PICK k \in DOMAIN obs : IsIndexAt(obs, t, k)
    BY <1>3, <1>4, <2>1, <2>2, ReadCases
  <2>4. IndexAt(obs, t) = k
    BY <1>3, <1>4, <2>1, <2>3, IndexIs
  <2>5. i <= k
    <3> SUFFICES ASSUME ~ (i <= k) PROVE FALSE
      OBVIOUS
    <3>1. k + 1 \in DOMAIN obs /\ k + 1 <= i /\ k # Len(obs)
      BY <1>3, <1>7
    <3>2. obs[k + 1].timestamp > t /\ obs[k + 1].timestamp <= obs[i].timestamp
      BY <1>8, <2>3, <3>1 DEF IsIndexAt
    <3> QED BY <1>6, <1>7, <1>10, <2>1, <3>1, <3>2
  <2>6. k \in i..Len(obs)
    BY <1>3, <1>7, <2>5
  <2>7. BalanceAt(obs, t) = obs[k].balance
    BY <1>3, <2>2, <2>4 DEF BalanceAt
  <2> QED BY <1>6, <1>9, <2>6, <2>7
<1>11. CumulativeAt(obs, e) = CumulativeAt(obs, s) + b * (e - s)
  BY <1>3, <1>4, <1>5, <1>10, Slope, ZenonT(40)
<1>12. PICK c, w \in Nat : c = CumulativeAt(obs, s) /\ w = b * (e - s)
  <2>1. e - s \in Nat
    BY <1>4, <1>5
  <2>2. b * (e - s) \in Nat
    <3>1. \A x \in Nat : b * x \in Nat
      OBVIOUS
    <3> QED BY <2>1, <3>1
  <2> QED BY <1>3, <1>4, <2>2, CumulativeType
<1>13. AccrualWeight(u, d) = CumulativeAt(obs, e) - CumulativeAt(obs, s)
  BY <1>2, <1>5, CacheReads DEF WeightFor
<1>14. AccrualWeight(u, d) = w
  BY <1>11, <1>12, <1>13
<1>15. w = BalanceOf(userObs[u]) * Span(d)
  BY <1>2, <1>5, <1>9, <1>12 DEF Span
<1> QED BY <1>14, <1>15

LEMMA SameItself ==
  ASSUME NEW x \in Nat, NEW y \in Nat
  PROVE  SameFraction(<<x, y>>, <<x, y>>)
<1>1. x * y = y * x
  OBVIOUS
<1> QED BY <1>1 DEF SameFraction

LEMMA OddsExact ==
  ASSUME Inductive, WeightsSumToTotal
  PROVE  OddsAreExactForWhoSatStill
<1> SUFFICES ASSUME NEW u \in Users, NEW obs, obs = userObs[u]
             PROVE  /\ ExactOddsShown(u) /\ SatStill(u, Round) => \A t \in Tiers :
                         /\ SameFraction(ExactOdds(u)[t], VerifyOdds(obs, Round)[t])
                         /\ MyOddsShown(u) => SameFraction(MyOdds(u)[t], VerifyOdds(obs, Round)[t])
                    /\ PositionHasOdds(obs) /\ SatStill(u, Current) =>
                         /\ Share(obs)[1] <= Share(obs)[2]
                         /\ \A t \in Tiers :
                              SameFraction(NowOdds(obs)[t], VerifyOdds(obs, Current)[t])
  BY DEF OddsAreExactForWhoSatStill
<1>0. ASSUME NEW d \in DOMAIN draws, NEW t \in Tiers
      PROVE  BalanceOf(obs) * Span(d) \in Nat /\ draws[d].totalWeight * tiers.k[t] \in Nat
  <2>1. obs \in Seq(Observation) /\ tiers.k[t] \in Nat
    BY DEF Inductive, TypeOK
  <2>2. \A v, w \in Nat : v * w \in Nat
    OBVIOUS
  <2> QED BY <2>1, <2>2, BalanceType, RecentDraws
<1>1. ASSUME NEW d \in DOMAIN draws, SatStill(u, d), NEW t \in Tiers, draws[d].totalWeight > 0
      PROVE  VerifyOdds(obs, d)[t] = <<BalanceOf(obs) * Span(d), draws[d].totalWeight * tiers.k[t]>>
  <2>1. WeightForWindow(obs, d) = BalanceOf(obs) * Span(d)
    BY <1>1, WholeWeight, SatWeight
  <2>2. draws[d].totalWeight # 0
    BY <1>1, RecentDraws
  <2> QED BY <2>1, <2>2 DEF VerifyOdds, TierOdds
<1>2. ASSUME ExactOddsShown(u), SatStill(u, Round), NEW t \in Tiers
      PROVE  /\ SameFraction(ExactOdds(u)[t], VerifyOdds(obs, Round)[t])
             /\ MyOddsShown(u) => SameFraction(MyOdds(u)[t], VerifyOdds(obs, Round)[t])
  <2>1. Round \in DOMAIN draws /\ Published(Round) /\ Round > 0
    BY <1>2, RecentDraws DEF ExactOddsShown
  <2>2. PICK x, y \in Nat : /\ x = BalanceOf(obs) * Span(Round)
                           /\ y = draws[Round].totalWeight * tiers.k[t]
    BY <1>0, <2>1
  <2>3. VerifyOdds(obs, Round)[t] = <<x, y>>
    BY <1>1, <1>2, <2>1, <2>2 DEF Published
  <2>4. CASE Span(Round) > 0
    <3>1. ExactOdds(u)[t] = <<x, y>>
      BY <2>2, <2>4 DEF ExactOdds, Latest
    <3>2. AggregateDraw = Round
      BY <2>1, <2>4 DEF AggregateDraw
    <3>3. MyOdds(u)[t] = <<x, y>>
      BY <2>2, <3>2 DEF MyOdds, AvgAggregate
    <3> QED BY <2>3, <3>1, <3>3, SameItself
  <2>5. CASE ~ (Span(Round) > 0)
    <3>1. ExactOdds(u)[t] = <<0, 1>>
      BY <2>5 DEF ExactOdds
    <3>2. x = 0
      <4>1. Span(Round) = 0
        BY <2>1, <2>5, RecentDraws
      <4>2. PICK b \in Nat : b = BalanceOf(obs)
        <5>1. obs \in Seq(Observation)
          BY DEF Inductive, TypeOK
        <5> QED BY <5>1, BalanceType
      <4>3. b * 0 = 0
        OBVIOUS
      <4> QED BY <2>2, <4>1, <4>2, <4>3
    <3>4. SameFraction(ExactOdds(u)[t], VerifyOdds(obs, Round)[t])
      <4>1. 0 * y = 1 * x
        BY <3>2
      <4> QED BY <2>3, <3>1, <3>2, <4>1 DEF SameFraction
    <3>5. ~ MyOddsShown(u)
      <4>1. AggregateDraw = 0
        BY <2>1, <2>5 DEF AggregateDraw
      <4> QED BY <4>1 DEF MyOddsShown, InThePoolShown
    <3> QED BY <3>4, <3>5
  <2> QED BY <2>4, <2>5
<1>3. ASSUME PositionHasOdds(obs), SatStill(u, Current)
      PROVE  /\ Share(obs)[1] <= Share(obs)[2]
             /\ \A t \in Tiers : SameFraction(NowOdds(obs)[t], VerifyOdds(obs, Current)[t])
  <2>1. /\ Current \in DOMAIN draws /\ draws[Current].status = "Revealed"
        /\ draws[Current].totalWeight > 0
    BY <1>3, CurrentIs DEF PositionHasOdds
  <2>2. Share(obs)[1] <= Share(obs)[2]
    <3>1. AccrualWeight(u, Current) <= draws[Current].totalWeight
      BY <2>1, WeightWithinTotal
    <3>2. AccrualWeight(u, Current) = BalanceOf(obs) * Span(Current)
      BY <1>3, <2>1, SatWeight
    <3> QED BY <3>1, <3>2 DEF Share
  <2>3. ASSUME NEW t \in Tiers
        PROVE  SameFraction(NowOdds(obs)[t], VerifyOdds(obs, Current)[t])
    <3>1. PICK x, y \in Nat : /\ x = BalanceOf(obs) * Span(Current)
                              /\ y = draws[Current].totalWeight * tiers.k[t]
      BY <1>0, <2>1
    <3>2. VerifyOdds(obs, Current)[t] = <<x, y>>
      BY <1>1, <1>3, <2>1, <3>1
    <3>3. NowOdds(obs)[t] = <<x, y>>
      <4>1. draws[Current].totalWeight # 0
        BY <2>1, RecentDraws
      <4> QED BY <3>1, <4>1 DEF NowOdds, TierOdds
    <3> QED BY <3>2, <3>3, SameItself
  <2> QED BY <2>2, <2>3
<1> QED BY <1>2, <1>3

-----------------------------------------------------------------------------
(* The quotes.                                                             *)

\* A larger part of a whole that grew by as much.
LEMMA QuoteGrows ==
  ASSUME NEW p \in Nat, NEW q \in Nat, NEW w \in Nat, NEW k \in Nat, p <= w
  PROVE  (p + q) * (w * k) >= p * ((w + q) * k)
<1>1. PICK r \in Nat : w = p + r
  <2>1. w - p \in Nat /\ w = p + (w - p)
    OBVIOUS
  <2> QED BY <2>1
<1>2. q * k \in Nat /\ \A x \in Nat : (q * k) * x \in Nat
  OBVIOUS
<1>3. (p + q) * (w * k) = p * (w * k) + (q * k) * p + (q * k) * r
  BY <1>1
<1>4. p * ((w + q) * k) = p * (w * k) + (q * k) * p
  OBVIOUS
<1>5. PICK a, b, c \in Nat : a = p * (w * k) /\ b = (q * k) * p /\ c = (q * k) * r
  <2>1. w * k \in Nat
    OBVIOUS
  <2>2. \A x \in Nat : p * x \in Nat
    OBVIOUS
  <2> QED BY <1>2, <2>1, <2>2
<1>6. a + b + c >= a + b
  BY <1>5
<1> QED BY <1>3, <1>4, <1>5, <1>6

LEMMA QuotesRight ==
  ASSUME Inductive
  PROVE  QuotesAgree
<1> SUFFICES ASSUME NEW n \in Amounts, QuotedShown(n), NEW u \in Users, MyOddsShown(u), NEW t \in Tiers
             PROVE  /\ AggregateDraw = Current =>
                         SameFraction(Quoted(u, n)[t], QuoteOdds(userObs[u], n)[t])
                    /\ BalanceOf(userObs[u]) * AvgAggregate[2] <= AvgAggregate[1] =>
                         Quoted(u, n)[t][1] * MyOdds(u)[t][2] >= MyOdds(u)[t][1] * Quoted(u, n)[t][2]
  BY DEF QuotesAgree
<1>1. /\ AggregateDraw \in DOMAIN draws /\ Span(AggregateDraw) \in Nat /\ Span(AggregateDraw) > 0
      /\ draws[AggregateDraw].totalWeight \in Nat
  BY AggregateIs, RecentDraws DEF MyOddsShown, InThePoolShown
<1>2. PICK s, w, m, k, b \in Nat :
        /\ s = Span(AggregateDraw) /\ w = draws[AggregateDraw].totalWeight /\ m = n
        /\ k = tiers.k[t] /\ b = BalanceOf(userObs[u])
  <2>1. n \in Nat
    BY Parameters
  <2>2. tiers.k[t] \in Nat /\ userObs[u] \in Seq(Observation)
    BY DEF Inductive, TypeOK
  <2> QED BY <1>1, <2>1, <2>2, BalanceType
<1>3. s > 0 /\ m > 0
  BY <1>1, <1>2 DEF QuotedShown
<1>4. PICK p, q \in Nat : p = b * s /\ q = m * s /\ (b + m) * s = p + q /\ q # 0
  <2>1. b * s \in Nat /\ m * s \in Nat /\ (b + m) * s = b * s + m * s
    OBVIOUS
  <2>2. m * s # 0
    BY <1>3
  <2> QED BY <2>1, <2>2
<1>5. AvgAggregate = <<w, s>>
  BY <1>2 DEF AvgAggregate
<1>6. Quoted(u, n)[t] = <<p + q, (w + q) * k>>
  <2>1. Quoted(u, n)[t] = <<(b + m) * s, (w + m * s) * k>>
    BY <1>2, <1>5 DEF Quoted
  <2> QED BY <1>4, <2>1
<1>7. MyOdds(u)[t] = <<p, w * k>>
  BY <1>2, <1>4, <1>5 DEF MyOdds
<1>8. ASSUME AggregateDraw = Current
      PROVE  QuoteOdds(userObs[u], n)[t] = <<p + q, (w + q) * k>>
  <2>1. QuoteOdds(userObs[u], n)[t] = TierOdds((b + m) * s, w + m * s, t)
    BY <1>2, <1>8 DEF QuoteOdds
  <2>2. QuoteOdds(userObs[u], n)[t] = TierOdds(p + q, w + q, t)
    BY <1>4, <2>1
  <2>3. w + q # 0
    BY <1>4
  <2> QED BY <1>2, <2>2, <2>3 DEF TierOdds
<1>9. ASSUME p <= w
      PROVE  (p + q) * (w * k) >= p * ((w + q) * k)
  BY <1>9, QuoteGrows
<1>10. AggregateDraw = Current => SameFraction(Quoted(u, n)[t], QuoteOdds(userObs[u], n)[t])
  <2>1. p + q \in Nat /\ (w + q) * k \in Nat
    OBVIOUS
  <2>2. SameFraction(<<p + q, (w + q) * k>>, <<p + q, (w + q) * k>>)
    BY <2>1, SameItself
  <2> QED BY <1>6, <1>8, <2>2
<1>11. BalanceOf(userObs[u]) * AvgAggregate[2] = p /\ AvgAggregate[1] = w
  BY <1>2, <1>4, <1>5
<1>12. /\ Quoted(u, n)[t][1] = p + q /\ Quoted(u, n)[t][2] = (w + q) * k
       /\ MyOdds(u)[t][1] = p /\ MyOdds(u)[t][2] = w * k
  BY <1>6, <1>7
<1> QED BY <1>9, <1>10, <1>11, <1>12, Zenon

-----------------------------------------------------------------------------
(* One winner every k draws.                                               *)

LEMMA WinnersAddUp ==
  ASSUME Inductive, WeightsSumToTotal, OnlyRevealedSettle
  PROVE  OneWinnerEvery
<1>1. ASSUME NEW d \in Recent, Published(d), NEW t \in Tiers
      PROVE  SumFunction([u \in Users |-> VerifyOdds(userObs[u], d)[t][1]]) * ToolSays.every[t]
               = draws[d].totalWeight * tiers.k[t]
  <2>1. d \in DOMAIN draws /\ draws[d].status = "Revealed" /\ draws[d].totalWeight # 0
    BY <1>1, RecentDraws DEF Published
  <2>2. ASSUME NEW u \in Users PROVE VerifyOdds(userObs[u], d)[t][1] = AccrualWeight(u, d)
    <3>1. VerifyOdds(userObs[u], d)[t] =
            <<WeightForWindow(userObs[u], d), draws[d].totalWeight * tiers.k[t]>>
      BY <2>1 DEF VerifyOdds, TierOdds
    <3> QED BY <2>1, <3>1, WholeWeight
  <2>3. [u \in Users |-> VerifyOdds(userObs[u], d)[t][1]] = [u \in Users |-> AccrualWeight(u, d)]
    BY <2>2
  <2>4. SumFunction([u \in Users |-> AccrualWeight(u, d)]) = draws[d].totalWeight
    BY <2>1 DEF WeightsSumToTotal
  <2>5. ToolSays.every[t] = tiers.k[t]
    <3>1. PoolStatus.tiers = TierTable
      BY DEF PoolStatus
    <3>2. TierTable[t].every = tiers.k[t]
      BY DEF TierTable
    <3> QED BY <3>1, <3>2 DEF ToolSays
  <2> QED BY <2>3, <2>4, <2>5
<1>2. ASSUME ToolSays.draws, ToolSays.outcome = "nobody knows yet"
      PROVE  /\ \A u \in Users : Latest.cleared[u] = 0 /\ u \notin Latest.accrued
             /\ ToolSays.frozen <= now
  <2>1. ToolSays.draws <=> PoolStatus.round > 0
    BY DEF ToolSays
  <2>2. Round > 0
    BY <1>2, <2>1 DEF PoolStatus
  <2>3. Round # 0 /\ Round \in DOMAIN draws /\ Latest = draws[Round]
    BY <2>2, RecentDraws DEF Latest
  <2>4. PoolStatus.state = "open"
    <3>1. PICK st : st = PoolStatus.state
      OBVIOUS
    <3>2. ToolSays.outcome = CASE st = "open" -> "nobody knows yet"
                               [] st = "revealed" -> "credits reach everybody"
                               [] OTHER -> "not said"
      BY <3>1 DEF ToolSays
    <3> QED BY <1>2, <3>1, <3>2
  <2>5. Latest.status = "Open"
    <3>1. PoolStatus.state = IF Latest.status = "Cancelled" THEN "none"
                             ELSE IF Latest.status = "Open" THEN "open" ELSE "revealed"
      BY <2>3 DEF PoolStatus
    <3> QED BY <2>4, <3>1
  <2>6. ASSUME NEW u \in Users PROVE Latest.cleared[u] = 0 /\ u \notin Latest.accrued
    BY <2>3, <2>5 DEF OnlyRevealedSettle
  <2>7. ToolSays.frozen = Latest.snapshotAt
    BY <2>3 DEF ToolSays, PoolStatus
  <2>8. Latest.snapshotAt \in 0..now /\ now \in Nat
    BY <2>3, DrawMoments DEF Inductive
  <2> QED BY <2>6, <2>7, <2>8
<1> QED BY <1>1, <1>2 DEF OneWinnerEvery

-----------------------------------------------------------------------------
(* The aggregate and the chart.                                            *)

\* Division leaves less than the divisor.
LEMMA Divided ==
  ASSUME NEW c \in Nat, NEW h \in Nat, h > 0
  PROVE  c \div h \in Nat /\ (c \div h) * h <= c /\ c < (c \div h + 1) * h
OBVIOUS

LEMMA AverageRight ==
  ASSUME Inductive, WeightsPublished
  PROVE  AggregateIsAnAverage
<1> SUFFICES ASSUME InThePoolShown,
                    \A i \in DOMAIN totalObs :
                      totalObs[i].timestamp < draws[AggregateDraw].snapshotAt =>
                        ~ (totalObs[i].balance * AvgAggregate[2] >= AvgAggregate[1])
             PROVE  FALSE
  BY DEF AggregateIsAnAverage
<1>1. /\ AggregateDraw \in DOMAIN draws /\ Published(AggregateDraw)
      /\ Span(AggregateDraw) \in Nat /\ Span(AggregateDraw) > 0
  BY AggregateIs DEF InThePoolShown
<1>2. /\ now \in Nat /\ draws[AggregateDraw].periodStart \in 0..now
      /\ draws[AggregateDraw].snapshotAt \in 0..now
      /\ draws[AggregateDraw].periodStart <= draws[AggregateDraw].snapshotAt
  BY <1>1, DrawMoments DEF Inductive
<1>3. PICK p, e \in 0..now : /\ p = draws[AggregateDraw].periodStart
                            /\ e = draws[AggregateDraw].snapshotAt /\ p <= e
  BY <1>2
<1>4. PICK w, s \in Nat : /\ w = draws[AggregateDraw].totalWeight /\ s = Span(AggregateDraw)
                         /\ w > 0 /\ s > 0 /\ s = e - p
  BY <1>1, <1>3, RecentDraws DEF Published, Span
<1>5. IsRecord(totalObs, now) /\ totalObs \in Seq(Observation)
  BY DEF Inductive, RecordsSound, TypeOK
<1>6. PICK q \in Nat : q * s <= w - 1 /\ w - 1 < (q + 1) * s
  <2>1. w - 1 \in Nat
    BY <1>4
  <2> QED BY <1>4, <2>1, Divided
<1>7. \A i \in DOMAIN totalObs :
        totalObs[i].timestamp < e => totalObs[i].balance \in Nat /\ totalObs[i].balance <= q
  <2> SUFFICES ASSUME NEW i \in DOMAIN totalObs, totalObs[i].timestamp < e
               PROVE  totalObs[i].balance \in Nat /\ totalObs[i].balance <= q
    OBVIOUS
  <2>1. PICK b \in Nat : b = totalObs[i].balance
    BY <1>5, ObservationFields
  <2>2. AvgAggregate = <<w, s>>
    BY <1>4 DEF AvgAggregate
  <2>3. ~ (b * s >= w)
    BY <1>3, <2>1, <2>2
  <2>4. b <= q
    <3> SUFFICES ASSUME ~ (b <= q) PROVE FALSE
      OBVIOUS
    <3>1. PICK r \in Nat : b = (q + 1) + r
      <4>1. b - (q + 1) \in Nat /\ b = (q + 1) + (b - (q + 1))
        OBVIOUS
      <4> QED BY <4>1
    <3>2. PICK x, y \in Nat : x = (q + 1) * s /\ y = r * s /\ b * s = x + y
      <4>1. (q + 1) * s \in Nat /\ r * s \in Nat /\ ((q + 1) + r) * s = (q + 1) * s + r * s
        OBVIOUS
      <4> QED BY <3>1, <4>1
    <3> QED BY <1>4, <1>6, <2>3, <3>2
  <2> QED BY <2>1, <2>4
<1>8. ASSUME NEW t \in Nat, p <= t, t < e PROVE BalanceAt(totalObs, t) <= q
  <2>1. t \in 0..now /\ e \in Nat
    BY <1>2, <1>3, <1>8
  <2>2. CASE totalObs = <<>> \/ totalObs[1].timestamp > t
    BY <2>2 DEF BalanceAt
  <2>3. CASE ~ (totalObs = <<>> \/ totalObs[1].timestamp > t)
    <3>1. PICK k \in DOMAIN totalObs : IsIndexAt(totalObs, t, k) /\ totalObs[k].timestamp <= t
      BY <1>2, <1>5, <2>1, <2>3, ReadCases
    <3>2. BalanceAt(totalObs, t) = totalObs[k].balance
      <4>1. IndexAt(totalObs, t) = k
        BY <1>2, <1>5, <2>1, <3>1, IndexIs
      <4> QED BY <2>3, <4>1 DEF BalanceAt
    <3>3. totalObs[k].timestamp < e
      <4>1. totalObs[k].timestamp \in Nat
        BY <1>5, ObservationFields
      <4> QED BY <1>8, <2>1, <3>1, <4>1
    <3> QED BY <1>7, <3>2, <3>3
  <2> QED BY <2>2, <2>3
<1>9. CumulativeAt(totalObs, e) <= CumulativeAt(totalObs, p) + q * s
  <2>1. CumulativeAt(totalObs, e) <= CumulativeAt(totalObs, p) + q * (e - p)
    BY <1>2, <1>3, <1>5, <1>8, Slope
  <2> QED BY <1>4, <2>1
<1>10. PICK c, d, x \in Nat : /\ c = CumulativeAt(totalObs, p) /\ d = CumulativeAt(totalObs, e)
                             /\ x = q * s
  <2>1. q * s \in Nat
    OBVIOUS
  <2> QED BY <1>2, <1>5, <2>1, CumulativeType
<1>11. w = d - c
  BY <1>1, <1>3, <1>4, <1>10 DEF WeightsPublished
<1> QED BY <1>4, <1>6, <1>9, <1>10, <1>11

LEMMA ChartRight ==
  ASSUME Inductive, LengthsAgree
  PROVE  ChartIsTheRecord
<1> SUFFICES ASSUME NEW u \in Users, NEW obs, obs = userObs[u], obs # <<>>,
                    NEW end, end = AccrualSeries(obs)[Len(AccrualSeries(obs))],
                    NEW held, held = now - obs[1].timestamp
             PROVE  /\ end.cumulative = CumulativeAt(obs, now) /\ end.balance = BalanceOf(obs)
                    /\ held > 0 => /\ Average(obs) * held <= end.cumulative
                                   /\ end.cumulative < (Average(obs) + 1) * held
  BY DEF ChartIsTheRecord, LengthsAgree, ObservationsShown
<1>1. IsRecord(obs, now) /\ now \in Nat /\ now \in 0..now
  BY DEF Inductive, RecordsSound, TypeOK
<1>2. obs \in Seq(Observation) /\ Len(obs) \in Nat /\ DOMAIN obs = 1..Len(obs)
  BY <1>1 DEF IsRecord
<1>3. Len(obs) \in DOMAIN obs /\ 1 \in DOMAIN obs /\ 1 <= Len(obs)
  BY <1>2, EmptySeq
<1>4. \A k \in DOMAIN obs : /\ obs[k].timestamp \in Nat /\ obs[k].balance \in Nat
                            /\ obs[k].cumulative \in Nat /\ obs[k].timestamp <= now
  BY <1>1, <1>2, ObservationFields DEF IsRecord, Timed
<1>5. BalanceOf(obs) = obs[Len(obs)].balance
  BY DEF BalanceOf
<1>6. end.cumulative = CumulativeAt(obs, now) /\ end.balance = BalanceOf(obs)
  <2>1. CASE now > obs[Len(obs)].timestamp
    <3>1. PICK x : x = [timestamp |-> now, balance |-> obs[Len(obs)].balance,
                        cumulative |-> CumulativeAtLocal(obs, now)]
      OBVIOUS
    <3>2. AccrualSeries(obs) = obs \o <<x>>
      BY <2>1, <3>1 DEF AccrualSeries
    <3>3. CumulativeAtLocal(obs, now) = CumulativeAt(obs, now)
      BY <1>1, FreshReadReads
    <3>4. x.cumulative = CumulativeAt(obs, now) /\ x.balance = BalanceOf(obs)
      BY <1>5, <3>1, <3>3
    <3>5. Len(obs \o <<x>>) = Len(obs) + 1 /\ (obs \o <<x>>)[Len(obs) + 1] = x
      BY <1>2
    <3> QED BY <3>2, <3>4, <3>5
  <2>2. CASE ~ (now > obs[Len(obs)].timestamp)
    <3>1. AccrualSeries(obs) = obs
      <4>1. AccrualSeries(obs) = obs \o <<>>
        BY <2>2 DEF AccrualSeries
      <4> QED BY <1>2, <4>1, ConcatEmptySeq
    <3>2. end = obs[Len(obs)]
      BY <3>1
    <3>3. obs[Len(obs)].timestamp = now
      BY <1>1, <1>3, <1>4, <2>2
    <3>4. IsIndexAt(obs, now, Len(obs))
      BY <1>1, <1>3, <3>3 DEF IsIndexAt
    <3>5. CumulativeAt(obs, now) = CarryTo(obs[Len(obs)], now)
      BY <1>1, <3>4, IndexIs
    <3>6. CarryTo(obs[Len(obs)], now) = obs[Len(obs)].cumulative
      <4>1. PICK b, c \in Nat : b = obs[Len(obs)].balance /\ c = obs[Len(obs)].cumulative
        BY <1>3, <1>4
      <4>2. c + b * (now - now) = c
        BY <1>1
      <4> QED BY <3>3, <4>1, <4>2 DEF CarryTo
    <3> QED BY <1>5, <3>2, <3>5, <3>6
  <2> QED BY <2>1, <2>2
<1>7. ASSUME held > 0
      PROVE  Average(obs) * held <= end.cumulative /\ end.cumulative < (Average(obs) + 1) * held
  <2>1. PICK s \in 0..now : s = obs[1].timestamp
    BY <1>1, <1>3, <1>4
  <2>2. s \in Nat /\ held \in Nat /\ held = now - s /\ ~ (now <= s)
    BY <1>1, <1>7, <2>1
  <2>3. CumulativeAt(obs, s) = 0
    <3>1. ~ (obs = <<>> \/ obs[1].timestamp > s)
      BY <2>1, <2>2
    <3>2. PICK i \in DOMAIN obs : /\ IsIndexAt(obs, s, i) /\ CumulativeAt(obs, s) = CarryTo(obs[i], s)
                                 /\ obs[i].timestamp <= s
      BY <1>1, <3>1, ReadCases
    <3>3. 1 <= i /\ i \in Nat
      BY <1>2
    <3>4. obs[i].timestamp = s
      <4>1. obs[1].timestamp <= obs[i].timestamp
        BY <1>1, <1>3, <3>3 DEF IsRecord, Timed
      <4> QED BY <1>4, <2>1, <2>2, <3>2, <4>1
    <3>5. obs[i].cumulative = 0
      <4>1. obs[1].cumulative = 0
        BY <1>1 DEF IsRecord, Chained
      <4> QED BY <1>1, <1>3, <2>1, <3>3, <3>4, <4>1, SameMoment
    <3>6. PICK b \in Nat : b = obs[i].balance
      BY <1>4
    <3>7. 0 + b * (s - s) = 0
      BY <2>2
    <3> QED BY <3>2, <3>4, <3>5, <3>6, <3>7 DEF CarryTo
  <2>4. PICK c \in Nat : c = CumulativeAt(obs, now)
    BY <1>1, CumulativeType
  <2>5. CumulativeAtLocal(obs, now) = c /\ CumulativeAtLocal(obs, s) = 0
    BY <1>1, <2>3, <2>4, FreshReadReads
  <2>6. Average(obs) = c \div held
    <3>1. Average(obs) = (CumulativeAtLocal(obs, now) - CumulativeAtLocal(obs, s)) \div (now - s)
      BY <2>1, <2>2 DEF Average, AverageBalance
    <3>2. c - 0 = c
      OBVIOUS
    <3> QED BY <2>2, <2>5, <3>1, <3>2
  <2>7. (c \div held) * held <= c /\ c < (c \div held + 1) * held
    BY <1>7, <2>2, Divided
  <2> QED BY <1>6, <2>4, <2>6, <2>7
<1> QED BY <1>6, <1>7

-----------------------------------------------------------------------------
(* The screens.                                                            *)

LEMMA InitScreens ==
  ASSUME Init
  PROVE  OnlyRevealedSettle /\ LengthsAgree /\ DrawsHaveRecord /\ WeightsPublished
<1>1. draws = <<>> /\ DOMAIN draws = {}
  BY DEF Init
<1>2. LengthsAgree
  <2>1. Len(totalObs) = 0 /\ \A u \in Users : Len(userObs[u]) = 0
    BY DEF Init
  <2>2. [u \in Users |-> Len(userObs[u])] = [u \in Users |-> 0]
    BY <2>1
  <2> QED BY <2>1, <2>2, Parameters, SumZero DEF LengthsAgree
<1> QED BY <1>1, <1>2, InitAgrees DEF OnlyRevealedSettle, DrawsHaveRecord

\* The weight on the holder's screens is the one accrual compared.
LEMMA PageWeightRight ==
  ASSUME Inductive
  PROVE  PageWeightIsAccrualWeight
BY PageWeights DEF PageWeightIsAccrualWeight

\* What needs no bound on what the pool holds: the weights, the buttons, who is told
\* they take part, the quotes, the aggregate and the chart of the Pool, Position and
\* Verify screens (lib/twab.ts weightForWindow, lib/pool.ts, Keepable.tsx).
ScreensFollow ==
  /\ PageWeightIsAccrualWeight
  /\ ButtonsAgreeWithPool
  /\ ParticipationIsRight
  /\ QuotesAgree
  /\ AggregateIsAnAverage
  /\ ChartIsTheRecord

LEMMA ScreensBooks == Spec => [](OnlyRevealedSettle /\ LengthsAgree /\ DrawsHaveRecord /\ WeightsPublished)
<1>1. Init => OnlyRevealedSettle /\ LengthsAgree /\ DrawsHaveRecord /\ WeightsPublished
  BY InitScreens
<1>2. /\ Inductive /\ Inductive' /\ [Next]_vars
      /\ OnlyRevealedSettle /\ LengthsAgree /\ DrawsHaveRecord /\ WeightsPublished
      => OnlyRevealedSettle' /\ LengthsAgree' /\ DrawsHaveRecord' /\ WeightsPublished'
  BY SettleStepStatus, LengthsStep, HaveRecordStep, PublishedStep
<1> QED
  BY <1>1, <1>2, InductiveHolds, PTL DEF Spec

\* Whatever is deposited, lent or lost, the screens recompute the holder's weight, show
\* who takes part, quote, average and chart as the pool does, enable opening and
\* cancelling a draw when it would accept them, and offer a settlement that it refuses
\* only while the latest draw is not revealed or no prize is set.
THEOREM ScreensAlwaysFollow == Spec => []ScreensFollow
<1>1. Inductive /\ OnlyStakersWin /\ OnlyRevealedSettle /\ LengthsAgree /\ DrawsHaveRecord
        /\ WeightsPublished => ScreensFollow
  BY PageWeightRight, ButtonsAgree, ParticipationRight, QuotesRight, AverageRight, ChartRight
     DEF ScreensFollow
<1> QED
  BY <1>1, InductiveHolds, WinnersStaked, ScreensBooks, PTL

\* And while what the pool holds fits the width of an amount, the odds too are the
\* weight over the total that the draw published, and those of a tier add up to one
\* winner every k draws.
THEOREM ScreensAgree == Spec /\ []HeldFits => []ScreensAgreeWithPool
<1>1. Inductive /\ WeightsSumToTotal /\ OnlyRevealedSettle
        => OddsAreExactForWhoSatStill /\ OneWinnerEvery
  BY OddsExact, WinnersAddUp
<1>2. ScreensFollow /\ OddsAreExactForWhoSatStill /\ OneWinnerEvery => ScreensAgreeWithPool
  BY DEF ScreensFollow, ScreensAgreeWithPool
<1> QED
  BY <1>1, <1>2, InductiveHolds, ScreensAlwaysFollow, ScreensBooks, WeightsAlwaysAddUp, PTL

=============================================================================
