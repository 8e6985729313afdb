------------------------------- MODULE Screens -------------------------------
(***************************************************************************)
(* What the Pool, Position and Verify screens derive from the draws and    *)
(* from the holder's own record: clock, odds, aggregate, participation,    *)
(* chart, and the permissionless buttons.  A reader's clock is the         *)
(* block's, and a screen has just read the chain; how an old reading of    *)
(* the record misleads is Replay's subject.  A percentage is kept as the   *)
(* fraction it prints, a pair <<numerator, denominator>>.                  *)
(***************************************************************************)
EXTENDS Replay

CONSTANTS
  MinGaps,      \* MIN_GAPS: gaps below which no cadence is claimed
  RecentMax     \* how many of the last draws the Pool screen reads

ASSUME ScreensAssumption == MinGaps \in Nat \ {0} /\ RecentMax \in Nat \ {0}

Unknown == -1   \* a figure the screen declines to give

Round == Len(draws)

Latest == draws[Round]

Span(d) == draws[d].snapshotAt - draws[d].periodStart

-----------------------------------------------------------------------------
(* The Pool screen: public facts.                                          *)

\* STATUS has no entry for a cancelled draw: it reads "none".
Phase ==
  IF Round = 0 THEN "none"
  ELSE CASE Latest.status = "Open" -> "open"
         [] Latest.status = "Revealed" -> "revealed"
         [] OTHER -> "none"

\* recentDraws: the last few ids, the first one repeated while there are fewer.
Recent == {d \in DOMAIN draws : d > Round - RecentMax}

Published(d) == draws[d].status = "Revealed" /\ draws[d].totalWeight > 0

LastRevealed ==
  LET done == {d \in Recent : Round > 1 /\ Published(d)}
  IN IF done = {} THEN 0
     ELSE CHOOSE d \in done : \A e \in done : draws[e].snapshotAt <= draws[d].snapshotAt

\* The draw whose aggregate the screen divides by, 0 when it has none.
AggregateDraw ==
  LET pick == IF Round > 0 /\ Published(Round) THEN Round ELSE LastRevealed
  IN IF pick > 0 /\ Span(pick) > 0 THEN pick ELSE 0

\* avgAggregate: balance-seconds by seconds.
AvgAggregate == <<draws[AggregateDraw].totalWeight, Span(AggregateDraw)>>

\* "In the pool": shown with the draw it is the average of.
InThePoolShown == AggregateDraw > 0

\* Each snapshot read that has a later one, with the gap to the next; equal times
\* make none.
Gaps ==
  LET times == {draws[d].snapshotAt : d \in {e \in Recent : Round > 1}}
      Later(t) == {s \in times : s > t}
  IN [t \in {s \in times : Later(s) # {}} |->
        (CHOOSE s \in Later(t) : \A r \in Later(t) : s <= r) - t]

\* cadence: the median gap, the least that more than half are within, or a refusal
\* to guess.
MedianGap ==
  LET gaps == Gaps
      samples == Cardinality(DOMAIN gaps)
      Enough == {x \in Range(gaps) :
                   Cardinality({t \in DOMAIN gaps : gaps[t] <= x}) > samples \div 2}
  IN IF samples < MinGaps THEN Unknown ELSE CHOOSE x \in Enough : \A y \in Enough : x <= y

LatestOf(a, b) == IF a > b THEN a ELSE b

\* clock: the floor, and the estimate the floor only ever pushes later.
Clock ==
  LET earliest == Latest.snapshotAt + MinPeriod
      median   == MedianGap
      expected == IF median = Unknown THEN Unknown
                  ELSE LatestOf(earliest, Latest.snapshotAt + median)
  IN [earliestNext   |-> earliest,
      readyNow       |-> now >= earliest,
      sinceFrozen    |-> LatestOf(0, now - Latest.snapshotAt),
      expected       |-> expected,
      overdueSeconds |-> IF expected = Unknown THEN 0 ELSE LatestOf(0, now - expected),
      etaSeconds     |-> IF expected = Unknown THEN Unknown ELSE LatestOf(0, expected - now)]

\* The clock panel: a countdown only when there is something to count down to.
CountdownShown ==
  IF Clock.expected = Unknown THEN Unknown
  ELSE IF Clock.overdueSeconds > 0 THEN 0 ELSE Clock.etaSeconds

\* stale: a draw nobody revealed, past the point anyone may abandon it.
Stale == Round > 0 /\ Latest.status = "Open" /\ now >= Latest.snapshotAt + CancelAfter

\* Mutant: the floor measured from the window's start.
CallableFromWindowStart ==
  IF Round = 0 THEN "unknown"
  ELSE IF Latest.status = "Open" THEN "none"
  ELSE IF now < Latest.periodStart + MinPeriod THEN "harvest"
  ELSE "open"

\* Keepable: what "Run the pool yourself" says is callable right now.
Callable ==
  IF Round = 0 THEN "unknown"
  ELSE IF Latest.status = "Open" THEN "none"
  ELSE IF now < Latest.snapshotAt + MinPeriod THEN "harvest"
  ELSE "open"

\* "Settle me for round N" is offered with any draw, whatever its status.
SettleShown == Round > 0

\* PoolAge: the observations recorded, on the aggregate's own record.
ObservationsShown == Len(totalObs)

\* The tier table: "one winner every k draws".
TierTable == [t \in Tiers |-> [prize |-> tiers.prize[t], every |-> tiers.k[t]]]

\* PoolClient.status: its STATES have no entry for a cancelled draw either.
PoolStatus ==
  IF Round = 0 THEN [round |-> 0, state |-> "none", tiers |-> TierTable, snapshotAt |-> 0]
  ELSE [round |-> Round, tiers |-> TierTable, snapshotAt |-> Latest.snapshotAt,
        state |-> IF Latest.status = "Cancelled" THEN "none"
                  ELSE IF Latest.status = "Open" THEN "open" ELSE "revealed"]

\* pool_status, in the conversation: how each prize is won, once there is a draw,
\* and whether the outcome is known.
ToolSays ==
  LET status == PoolStatus
  IN [draws   |-> status.round > 0,
      frozen  |-> status.snapshotAt,
      outcome |-> CASE status.state = "open" -> "nobody knows yet"
                    [] status.state = "revealed" -> "credits reach everybody"
                    [] OTHER -> "not said",
      every   |-> [t \in Tiers |-> status.tiers[t].every]]

-----------------------------------------------------------------------------
(* The holder's own figures.                                               *)

\* participating, from the first observation.
Participating(u) == userObs[u] # <<>> /\ userObs[u][1].timestamp <= Latest.snapshotAt

\* The block "Round / You in it / Settled for you".
StatusBlock(u) ==
  [inIt    |-> IF Participating(u) THEN "yes"
               ELSE IF userObs[u] = <<>> THEN "nothing deposited yet"
               ELSE "joined after the snapshot",
   settled |-> IF ~Participating(u) THEN "not shown"
               ELSE IF u \in Latest.accrued THEN "yes" ELSE "not yet"]

\* tierOddsPct and oddsPct: weight / (totalWeight * k).
TierOdds(weight, total, t) ==
  IF total = 0 THEN <<0, 1>> ELSE <<weight, total * tiers.k[t]>>

\* myOdds: the decrypted balance over the average aggregate, per tier.
MyOdds(u) ==
  [t \in Tiers |-> <<BalanceOf(userObs[u]) * AvgAggregate[2], AvgAggregate[1] * tiers.k[t]>>]

\* "Your odds per draw": a permit, a position and an aggregate.
MyOddsShown(u) == InThePoolShown /\ userObs[u] # <<>>

\* "Your exact odds for this round": the same over the current draw's own window.
ExactOdds(u) ==
  [t \in Tiers |-> IF Span(Round) > 0
                     THEN <<BalanceOf(userObs[u]) * Span(Round), Latest.totalWeight * tiers.k[t]>>
                     ELSE <<0, 1>>]

\* They are shown once the draw has published its aggregate.
ExactOddsShown(u) == Round > 0 /\ Published(Round) /\ userObs[u] # <<>>

\* quoted: the odds with n more, n also added to the pool.
Quoted(u, n) ==
  [t \in Tiers |-> <<(BalanceOf(userObs[u]) + n) * AvgAggregate[2],
                     (AvgAggregate[1] + n * AvgAggregate[2]) * tiers.k[t]>>]

\* "If you deposit n more": an amount and an aggregate; no position counts as zero.
QuotedShown(n) == InThePoolShown /\ n > 0

\* The Position screen's `current`: the newest revealed draw it read.
Current ==
  LET revealed == {d \in Recent : draws[d].status = "Revealed"}
  IN IF revealed = {} THEN 0 ELSE CHOOSE d \in revealed : \A e \in revealed : e <= d

PositionHasOdds(obs) ==
  Current > 0 /\ draws[Current].totalWeight > 0 /\ Span(Current) > 0 /\ obs # <<>>

NowOdds(obs) ==
  [t \in Tiers |-> TierOdds(BalanceOf(obs) * Span(Current), draws[Current].totalWeight, t)]

QuoteOdds(obs, n) ==
  [t \in Tiers |-> TierOdds((BalanceOf(obs) + n) * Span(Current),
                            draws[Current].totalWeight + n * Span(Current), t)]

\* share: "your x of y".
Share(obs) == <<BalanceOf(obs) * Span(Current), draws[Current].totalWeight>>

\* averageBalance, in whole units, since the first observation.
AverageBalance(obs, from, to) ==
  IF to <= from THEN 0
  ELSE (CumulativeAtLocal(obs, to) - CumulativeAtLocal(obs, from)) \div (to - from)

Average(obs) == AverageBalance(obs, obs[1].timestamp, now)

\* accrualSeries: the points of the chart, one per observation and one for now.
AccrualSeries(obs) ==
  IF obs = <<>> THEN <<>>
  ELSE LET last == obs[Len(obs)]
       IN obs \o (IF now > last.timestamp
                    THEN <<[timestamp |-> now, balance |-> last.balance,
                            cumulative |-> CumulativeAtLocal(obs, now)]>>
                    ELSE <<>>)

\* The Verify screen's private half: odds beside the tier cleared.
VerifyOdds(obs, d) ==
  [t \in Tiers |-> TierOdds(WeightForWindow(obs, d), draws[d].totalWeight, t)]

-----------------------------------------------------------------------------
(* Properties.                                                             *)

SameFraction(a, b) == a[1] * b[2] = a[2] * b[1]

\* What openDraw, cancelDraw and accrueMany require of the draws, the clock and the
\* tiers.
OpenAccepted ==
  /\ draws # <<>> => LastStatus \in {"Revealed", "Cancelled"}
  /\ totalObs # <<>>
  /\ now >= Previous + MinPeriod

CancelAccepted == Latest.status = "Open" /\ now >= Latest.snapshotAt + CancelAfter

SettleAccepted == MayAccrue(Round)

\* The open button, when enabled, is one the pool accepts, and after a revealed
\* draw it is greyed exactly as long as the pool refuses; an estimate never
\* precedes the floor.  Cancel is offered exactly when cancelDraw would run, and
\* never beside an open the pool would accept.  Settle is offered always, and
\* refused while the draw it names is not revealed or no prize was ever set (the
\* refusals OfferedMeansAccepted is about): never on a revealed draw with a prize.
ButtonsAgreeWithPool ==
  Round > 0 =>
    /\ Callable = "open" => OpenAccepted
    /\ Callable = "harvest" /\ Phase = "revealed" => ~OpenAccepted
    /\ ~OpenAccepted /\ Phase # "open" => ~Clock.readyNow /\ CountdownShown # 0
    /\ Stale <=> CancelAccepted
    /\ Stale => ~OpenAccepted
    /\ SettleShown /\ ~SettleAccepted => Phase # "revealed" \/ tiers.prize[0] = 0

\* Who is told the round is not theirs had no weight in it, and whose weight
\* earned a prize is told they are in it, whatever they did since.
ParticipationIsRight ==
  Round > 0 =>
    \A u \in Users :
      /\ StatusBlock(u).inIt # "yes" => AccrualWeight(u, Round) = 0
      /\ Latest.cleared[u] > 0 => StatusBlock(u) = [inIt |-> "yes", settled |-> "yes"]

\* Held the same balance from before a window until now.
SatStill(u, d) ==
  userObs[u] # <<>> /\ \E i \in DOMAIN userObs[u] :
    /\ userObs[u][i].timestamp <= draws[d].periodStart
    /\ \A j \in i..Len(userObs[u]) : userObs[u][j].balance = userObs[u][i].balance

\* The odds of a round are the holder's weight over the published total (Pool
\* "Exact, because totalWeight is published"), on all three screens, for a
\* holder who sat still since before the window.
OddsAreExactForWhoSatStill ==
  \A u \in Users :
    LET obs == userObs[u]
    IN /\ ExactOddsShown(u) /\ SatStill(u, Round) => \A t \in Tiers :
            /\ SameFraction(ExactOdds(u)[t], VerifyOdds(obs, Round)[t])
            /\ MyOddsShown(u) => SameFraction(MyOdds(u)[t], VerifyOdds(obs, Round)[t])
       /\ PositionHasOdds(obs) /\ SatStill(u, Current) =>
            /\ Share(obs)[1] <= Share(obs)[2]
            /\ \A t \in Tiers : SameFraction(NowOdds(obs)[t], VerifyOdds(obs, Current)[t])

\* More money is quoted better odds, and both screens quote the same.
QuotesAgree ==
  \A n \in {m \in Amounts : QuotedShown(m)}, u \in {v \in Users : MyOddsShown(v)} :
    LET quoted == Quoted(u, n)
        other  == QuoteOdds(userObs[u], n)
        mine   == MyOdds(u)
    IN \A t \in Tiers :
         /\ AggregateDraw = Current => SameFraction(quoted[t], other[t])
         /\ BalanceOf(userObs[u]) * AvgAggregate[2] <= AvgAggregate[1] =>
              quoted[t][1] * mine[t][2] >= mine[t][1] * quoted[t][2]

\* "One winner every k draws", on the page and in the conversation, whatever the
\* balances: the odds every holder is shown of a tier add up to one in k.  The
\* conversation calls an outcome known when it can be credited.
OneWinnerEvery ==
  /\ \A d \in {e \in Recent : Published(e)}, t \in Tiers :
       SumFunction([u \in Users |-> VerifyOdds(userObs[u], d)[t][1]]) * ToolSays.every[t]
         = draws[d].totalWeight * tiers.k[t]
  /\ ToolSays.draws /\ ToolSays.outcome = "nobody knows yet" =>
       /\ \A u \in Users : Latest.cleared[u] = 0 /\ u \notin Latest.accrued
       /\ ToolSays.frozen <= now

\* "In the pool" is no more than the most the pool held before the snapshot.
AggregateIsAnAverage ==
  InThePoolShown =>
    \E i \in DOMAIN totalObs :
      /\ totalObs[i].timestamp < draws[AggregateDraw].snapshotAt
      /\ totalObs[i].balance * AvgAggregate[2] >= AvgAggregate[1]

\* The chart ends at the cumulative the contract would record now, its average
\* is that slope, and the aggregate counted one observation per account's.
ChartIsTheRecord ==
  /\ \A u \in Users : userObs[u] # <<>> =>
       LET obs    == userObs[u]
           series == AccrualSeries(obs)
           end    == series[Len(series)]
           held   == now - obs[1].timestamp
       IN /\ end.cumulative = CumulativeAt(obs, now) /\ end.balance = BalanceOf(obs)
          /\ held > 0 => /\ Average(obs) * held <= end.cumulative
                         /\ end.cumulative < (Average(obs) + 1) * held
  /\ ObservationsShown = SumFunction([u \in Users |-> Len(userObs[u])])

\* The screens tell the holder what the pool computes: weight, participation,
\* odds, quotes, tiers, aggregate and chart, and when it would open or cancel a draw.
ScreensAgreeWithPool ==
  /\ PageWeightIsAccrualWeight
  /\ ButtonsAgreeWithPool
  /\ ParticipationIsRight
  /\ OddsAreExactForWhoSatStill
  /\ QuotesAgree
  /\ OneWinnerEvery
  /\ AggregateIsAnAverage
  /\ ChartIsTheRecord

-----------------------------------------------------------------------------
(* What comments of the pages say and the pool does not do.                *)

\* "offering a button that reverts would be worse than offering none" (Keepable's
\* panel): a button of that panel that a reader can press is a call the pool accepts.
OfferedMeansAccepted ==
  /\ Callable = "open" => OpenAccepted
  /\ SettleShown => SettleAccepted

\* "It is paid out of `_reserve` ... it competes directly with a prize" (the keeper
\* fee, in the Pool screen): what a settlement pays its caller left the reserve.
KeeperFeeLeavesReserve ==
  [][\A d \in DOMAIN draws : draws'[d].accrued # draws[d].accrued =>
       reserve - reserve' >= tokens'[Keeper] - tokens[Keeper]]_vars

=============================================================================
