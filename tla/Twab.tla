-------------------------------- MODULE Twab --------------------------------
(***************************************************************************)
(* The balance record of ConfidentialPrizePool: a sequence of observations *)
(* per account, from which the time-weighted balance up to any past moment *)
(* can be read.  Amounts are the cleartexts of the encrypted integers; an  *)
(* uninitialised ciphertext reads as zero.  Cumulatives are unbounded here *)
(* because the contract keeps them in 128 bits: a 64-bit balance times a   *)
(* 40-bit clock never reaches that width.                                  *)
(***************************************************************************)
EXTENDS Integers, Sequences

Observation == [timestamp : Nat, balance : Nat, cumulative : Nat]

\* The cumulative of an observation carried forward to a later moment.
CarryTo(o, target) == o.cumulative + o.balance * (target - o.timestamp)

BalanceOf(obs) == IF obs = <<>> THEN 0 ELSE obs[Len(obs)].balance

\* Mutant: the time since the last observation is credited at the new balance.
PushAtNewBalance(obs, newBalance, at) ==
  Append(obs, [timestamp  |-> at,
               balance    |-> newBalance,
               cumulative |-> IF obs = <<>> THEN 0
                              ELSE obs[Len(obs)].cumulative
                                   + newBalance * (at - obs[Len(obs)].timestamp)])

Push(obs, newBalance, at) ==
  Append(obs, [timestamp  |-> at,
               balance    |-> newBalance,
               cumulative |-> IF obs = <<>> THEN 0 ELSE CarryTo(obs[Len(obs)], at)])

\* What the binary search over timestamps returns: an observation at or before
\* target whose successor, if any, is later.
IsIndexAt(obs, target, i) ==
  /\ i \in DOMAIN obs
  /\ obs[i].timestamp <= target
  /\ i = Len(obs) \/ obs[i + 1].timestamp > target

\* The search itself, over 1..Len: one turn of its loop, and what holds between
\* two turns (a loop the proofs follow; the actions use what it returns).
SearchTurn(obs, target, lo, hi) ==
  LET mid == (lo + hi + 1) \div 2
  IN IF obs[mid].timestamp <= target THEN <<mid, hi>> ELSE <<lo, mid - 1>>

Bracketed(obs, target, lo, hi) ==
  /\ lo \in DOMAIN obs /\ hi \in DOMAIN obs /\ lo <= hi
  /\ obs[lo].timestamp <= target
  /\ hi = Len(obs) \/ obs[hi + 1].timestamp > target

IndexAt(obs, target) == CHOOSE i \in DOMAIN obs : IsIndexAt(obs, target, i)

CumulativeAt(obs, target) ==
  IF obs = <<>> \/ obs[1].timestamp > target
    THEN 0
    ELSE CarryTo(obs[IndexAt(obs, target)], target)

-----------------------------------------------------------------------------
(* What the contract's appends keep true of a record at a moment.          *)

Timed(obs, at) ==
  /\ \A i \in DOMAIN obs : obs[i].timestamp <= at
  /\ \A i, j \in DOMAIN obs : i <= j => obs[i].timestamp <= obs[j].timestamp

\* Every past moment the record covers has an index.
Searchable(obs, at) ==
  \A target \in 0..at :
    obs # <<>> /\ obs[1].timestamp <= target => \E i \in DOMAIN obs : IsIndexAt(obs, target, i)

Chained(obs) ==
  /\ obs # <<>> => obs[1].cumulative = 0
  /\ \A i \in DOMAIN obs : i > 1 =>
       obs[i].cumulative = CarryTo(obs[i - 1], obs[i].timestamp)
  /\ \A i, j \in DOMAIN obs : i <= j => obs[i].cumulative <= obs[j].cumulative

\* A cumulative is only ever earned by a balance held for some time before it.
Earned(obs) ==
  \A i \in DOMAIN obs : obs[i].cumulative > 0 =>
    \E j \in DOMAIN obs : obs[j].balance > 0 /\ obs[j].timestamp < obs[i].timestamp

IsRecord(obs, at) ==
  obs \in Seq(Observation) /\ Timed(obs, at) /\ Searchable(obs, at) /\ Chained(obs) /\ Earned(obs)

=============================================================================
