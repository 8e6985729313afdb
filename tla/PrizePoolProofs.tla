-------------------------- MODULE PrizePoolProofs --------------------------
(***************************************************************************)
(* Theorems about PrizePool, for every set of users and sources and every  *)
(* value of the parameters.                                                *)
(*                                                                         *)
(* First what holds of every record built by Push, for every balance and   *)
(* every clock: appending at the clock changes no cumulative up to the     *)
(* clock, cumulatives never decrease, and a positive one has a stake       *)
(* behind it.  Then the inductive invariant, and what follows from it      *)
(* about weights, winners, windows and sources.                            *)
(***************************************************************************)
EXTENDS PrizePool, SumProofs, SequenceTheorems

\* Facts about the appended record, stated once.
LEMMA PushShape ==
  ASSUME NEW obs \in Seq(Observation), NEW b, NEW at
  PROVE  /\ Len(obs) \in Nat /\ DOMAIN obs = 1..Len(obs)
         /\ Len(Push(obs, b, at)) = Len(obs) + 1
         /\ DOMAIN Push(obs, b, at) = 1..(Len(obs) + 1)
         /\ \A i \in 1..Len(obs) : Push(obs, b, at)[i] = obs[i]
         /\ Push(obs, b, at)[Len(obs) + 1].timestamp = at
         /\ Push(obs, b, at)[Len(obs) + 1].balance = b
         /\ Push(obs, b, at)[Len(obs) + 1].cumulative =
              IF obs = <<>> THEN 0 ELSE CarryTo(obs[Len(obs)], at)
BY DEF Push

LEMMA ObservationFields ==
  ASSUME NEW obs \in Seq(Observation), NEW i \in DOMAIN obs
  PROVE  /\ obs[i] \in Observation /\ i \in Nat
         /\ obs[i].timestamp \in Nat /\ obs[i].balance \in Nat /\ obs[i].cumulative \in Nat
<1>1. DOMAIN obs = 1..Len(obs) /\ Len(obs) \in Nat
  OBVIOUS
<1>2. obs[i] \in Observation /\ i \in Nat
  BY <1>1
<1> QED
  BY <1>2 DEF Observation

\* Carrying a natural forward gives a natural no smaller, and carrying further
\* gives no less.
LEMMA CarryGrows ==
  ASSUME NEW c \in Nat, NEW b \in Nat, NEW dt \in Nat
  PROVE  c + b * dt \in Nat /\ c <= c + b * dt
<1>1. b * dt \in Nat
  OBVIOUS
<1> QED
  BY <1>1

LEMMA CarryToGrows ==
  ASSUME NEW o \in Observation, NEW s \in Nat, NEW t \in Nat, o.timestamp <= s, s <= t
  PROVE  /\ CarryTo(o, s) \in Nat /\ CarryTo(o, t) \in Nat
         /\ o.cumulative <= CarryTo(o, s) /\ CarryTo(o, s) <= CarryTo(o, t)
<1>1. o.timestamp \in Nat /\ o.balance \in Nat /\ o.cumulative \in Nat
  BY DEF Observation
<1>2. PICK p, q \in Nat : p = s - o.timestamp /\ q = t - s
  BY <1>1
<1>3. t - o.timestamp = p + q
  BY <1>1, <1>2
<1>4. o.balance * (p + q) = o.balance * p + o.balance * q
  BY <1>1
<1>5. CarryTo(o, s) = o.cumulative + o.balance * p
  BY <1>1, <1>2 DEF CarryTo
<1>6. CarryTo(o, t) = CarryTo(o, s) + o.balance * q
  BY <1>1, <1>3, <1>4, <1>5 DEF CarryTo
<1>7. CarryTo(o, s) \in Nat /\ o.cumulative <= CarryTo(o, s)
  BY <1>1, <1>5, CarryGrows
<1> QED
  BY <1>1, <1>6, <1>7, CarryGrows

-----------------------------------------------------------------------------
\* The index of a moment is unique.
LEMMA IndexUnique ==
  ASSUME NEW obs \in Seq(Observation), NEW at, Timed(obs, at),
         NEW target \in Nat, NEW i, NEW j,
         IsIndexAt(obs, target, i), IsIndexAt(obs, target, j)
  PROVE  i = j
<1>1. i \in 1..Len(obs) /\ j \in 1..Len(obs) /\ Len(obs) \in Nat
  BY DEF IsIndexAt
<1>2. ASSUME NEW x \in 1..Len(obs), NEW y \in 1..Len(obs), x < y,
             IsIndexAt(obs, target, x), IsIndexAt(obs, target, y)
      PROVE  FALSE
  <2>1. x + 1 \in 1..Len(obs) /\ x + 1 <= y
    BY <1>2
  <2>2. obs[x + 1].timestamp > target /\ obs[y].timestamp <= target
    BY <1>2, <2>1 DEF IsIndexAt
  <2>3. obs[x + 1].timestamp <= obs[y].timestamp
    BY <2>1 DEF Timed
  <2>4. obs[x + 1].timestamp \in Nat /\ obs[y].timestamp \in Nat
    BY <2>1, ObservationFields
  <2> QED BY <2>2, <2>3, <2>4
<1> QED
  BY <1>1, <1>2

\* The search returns the index there is.
LEMMA IndexFound ==
  ASSUME NEW obs, NEW at \in Nat, IsRecord(obs, at), NEW target \in 0..at,
         obs # <<>>, obs[1].timestamp <= target
  PROVE  IndexAt(obs, target) \in DOMAIN obs /\ IsIndexAt(obs, target, IndexAt(obs, target))
BY DEF IndexAt, IsRecord, Searchable

\* The loop of the binary search (_indexAt): it starts from the whole record,
\* every turn narrows what it brackets, and where it stops is the index.
THEOREM SearchFinds ==
  ASSUME NEW obs \in Seq(Observation), NEW target \in Nat
  PROVE  /\ obs # <<>> /\ obs[1].timestamp <= target => Bracketed(obs, target, 1, Len(obs))
         /\ \A lo, hi \in DOMAIN obs :
              Bracketed(obs, target, lo, hi) /\ lo < hi =>
                LET next == SearchTurn(obs, target, lo, hi)
                IN Bracketed(obs, target, next[1], next[2]) /\ next[2] - next[1] < hi - lo
         /\ \A lo \in DOMAIN obs : Bracketed(obs, target, lo, lo) => IsIndexAt(obs, target, lo)
<1>1. Len(obs) \in Nat /\ DOMAIN obs = 1..Len(obs)
  OBVIOUS
<1>2. ASSUME obs # <<>>, obs[1].timestamp <= target
      PROVE  Bracketed(obs, target, 1, Len(obs))
  <2>1. Len(obs) >= 1
    BY <1>2
  <2> QED
    BY <1>1, <1>2, <2>1 DEF Bracketed
<1>3. ASSUME NEW lo \in DOMAIN obs, NEW hi \in DOMAIN obs,
             Bracketed(obs, target, lo, hi), lo < hi
      PROVE  LET next == SearchTurn(obs, target, lo, hi)
             IN Bracketed(obs, target, next[1], next[2]) /\ next[2] - next[1] < hi - lo
  <2> DEFINE mid == (lo + hi + 1) \div 2
  <2>1. lo \in Nat /\ hi \in Nat /\ lo >= 1 /\ hi <= Len(obs)
    BY <1>1
  <2>2. mid \in Nat /\ lo < mid /\ mid <= hi
    BY <1>3, <2>1
  <2> HIDE DEF mid
  <2>3. mid \in DOMAIN obs /\ mid - 1 \in DOMAIN obs /\ (mid - 1) + 1 = mid
    BY <1>1, <2>1, <2>2
  <2>4. obs[mid].timestamp \in Nat
    BY <2>3, ObservationFields
  <2>5. CASE obs[mid].timestamp <= target
    <3>1. SearchTurn(obs, target, lo, hi) = <<mid, hi>>
      BY <2>5 DEF SearchTurn, mid
    <3>2. Bracketed(obs, target, mid, hi)
      BY <1>3, <2>2, <2>3, <2>5 DEF Bracketed
    <3>3. hi - mid < hi - lo
      BY <2>1, <2>2
    <3> QED
      BY <3>1, <3>2, <3>3
  <2>6. CASE ~ (obs[mid].timestamp <= target)
    <3>1. SearchTurn(obs, target, lo, hi) = <<lo, mid - 1>>
      BY <2>6 DEF SearchTurn, mid
    <3>2. obs[mid].timestamp > target
      BY <2>4, <2>6
    <3>3. lo <= mid - 1 /\ (mid - 1) - lo < hi - lo
      BY <2>1, <2>2
    <3>4. Bracketed(obs, target, lo, mid - 1)
      BY <1>3, <2>3, <3>2, <3>3 DEF Bracketed
    <3> QED
      BY <3>1, <3>3, <3>4
  <2> QED
    BY <2>5, <2>6
<1>4. ASSUME NEW lo \in DOMAIN obs, Bracketed(obs, target, lo, lo)
      PROVE  IsIndexAt(obs, target, lo)
  BY <1>4 DEF Bracketed, IsIndexAt
<1> QED
  BY <1>2, <1>3, <1>4

LEMMA IndexIs ==
  ASSUME NEW obs, NEW at \in Nat, IsRecord(obs, at), NEW target \in 0..at,
         NEW i, IsIndexAt(obs, target, i)
  PROVE  /\ obs # <<>> /\ ~ (obs[1].timestamp > target)
         /\ IndexAt(obs, target) = i /\ CumulativeAt(obs, target) = CarryTo(obs[i], target)
<1>1. obs \in Seq(Observation) /\ Timed(obs, at) /\ i \in 1..Len(obs) /\ Len(obs) \in Nat
  BY DEF IsRecord, IsIndexAt
<1>2. obs # <<>> /\ 1 \in DOMAIN obs
  BY <1>1
<1>3. obs[1].timestamp <= obs[i].timestamp /\ obs[i].timestamp <= target
  BY <1>1, <1>2 DEF Timed, IsIndexAt
<1>4. obs[1].timestamp \in Nat /\ obs[i].timestamp \in Nat /\ target \in Nat
  BY <1>1, <1>2, ObservationFields
<1>5. obs[1].timestamp <= target
  BY <1>3, <1>4
<1>6. IsIndexAt(obs, target, IndexAt(obs, target))
  BY <1>2, <1>5, IndexFound
<1>7. IndexAt(obs, target) = i
  BY <1>1, <1>4, <1>6, IndexUnique
<1>8. ~ (obs[1].timestamp > target)
  BY <1>4, <1>5
<1> QED
  BY <1>2, <1>7, <1>8 DEF CumulativeAt

-----------------------------------------------------------------------------
LEMMA EmptyIsRecord ==
  ASSUME NEW at \in Nat
  PROVE  IsRecord(<<>>, at)
BY DEF IsRecord, Timed, Searchable, Chained, Earned

\* Time passing keeps a record a record.
LEMMA RecordAges ==
  ASSUME NEW obs, NEW at \in Nat, IsRecord(obs, at)
  PROVE  IsRecord(obs, at + 1)
<1>1. obs \in Seq(Observation) /\ DOMAIN obs = 1..Len(obs) /\ Len(obs) \in Nat
  BY DEF IsRecord
<1>2. Timed(obs, at) /\ Searchable(obs, at) /\ Chained(obs) /\ Earned(obs)
  BY DEF IsRecord
<1>3. Timed(obs, at + 1)
  <2>1. ASSUME NEW i \in DOMAIN obs PROVE obs[i].timestamp <= at + 1
    <3>1. obs[i].timestamp \in Nat /\ obs[i].timestamp <= at
      BY <1>1, <1>2, ObservationFields DEF Timed
    <3> QED BY <3>1
  <2> QED BY <1>2, <2>1 DEF Timed
<1>4. Searchable(obs, at + 1)
  <2> SUFFICES ASSUME NEW target \in 0..(at + 1), obs # <<>>, obs[1].timestamp <= target
               PROVE  \E i \in DOMAIN obs : IsIndexAt(obs, target, i)
    BY DEF Searchable
  <2>1. CASE target <= at
    BY <1>2, <2>1 DEF Searchable
  <2>2. CASE target = at + 1
    <3>1. Len(obs) \in DOMAIN obs
      BY <1>1
    <3>2. obs[Len(obs)].timestamp <= at + 1
      BY <1>3, <3>1 DEF Timed
    <3>3. IsIndexAt(obs, target, Len(obs))
      BY <2>2, <3>1, <3>2 DEF IsIndexAt
    <3> QED BY <3>1, <3>3
  <2> QED BY <2>1, <2>2
<1> QED
  BY <1>1, <1>2, <1>3, <1>4 DEF IsRecord

-----------------------------------------------------------------------------
\* Appending at the clock keeps a record a record.
LEMMA PushTyped ==
  ASSUME NEW obs, NEW at \in Nat, IsRecord(obs, at), NEW b \in Nat
  PROVE  Push(obs, b, at) \in Seq(Observation)
<1>1. obs \in Seq(Observation) /\ DOMAIN obs = 1..Len(obs) /\ Len(obs) \in Nat
  BY DEF IsRecord
<1> DEFINE c == IF obs = <<>> THEN 0 ELSE CarryTo(obs[Len(obs)], at)
<1>2. c \in Nat
  <2>1. CASE obs # <<>>
    <3>1. Len(obs) \in DOMAIN obs
      BY <1>1, <2>1
    <3>2. obs[Len(obs)] \in Observation /\ obs[Len(obs)].timestamp <= at
      BY <1>1, <3>1, ObservationFields DEF IsRecord, Timed
    <3> QED BY <2>1, <3>2, CarryToGrows
  <2> QED BY <2>1
<1>3. [timestamp |-> at, balance |-> b, cumulative |-> c] \in Observation
  BY <1>2 DEF Observation
<1> QED
  BY <1>1, <1>3 DEF Push

LEMMA PushTimed ==
  ASSUME NEW obs, NEW at \in Nat, IsRecord(obs, at), NEW b \in Nat
  PROVE  Timed(Push(obs, b, at), at)
<1>1. obs \in Seq(Observation) /\ Timed(obs, at)
  BY DEF IsRecord
<1> DEFINE new == Push(obs, b, at)
           n == Len(obs)
<1>2. /\ n \in Nat /\ DOMAIN obs = 1..n /\ DOMAIN new = 1..(n + 1)
      /\ (\A i \in 1..n : new[i] = obs[i]) /\ new[n + 1].timestamp = at
  BY <1>1, PushShape
<1> HIDE DEF new, n
<1>3. ASSUME NEW i \in DOMAIN new PROVE new[i].timestamp <= at
  <2>1. CASE i = n + 1
    BY <1>2, <2>1
  <2>2. CASE i \in 1..n
    BY <1>1, <1>2, <2>2 DEF Timed
  <2> QED BY <1>2, <2>1, <2>2
<1>4. ASSUME NEW i \in DOMAIN new, NEW j \in DOMAIN new, i <= j
      PROVE  new[i].timestamp <= new[j].timestamp
  <2>1. CASE j = n + 1
    BY <1>2, <1>3, <2>1
  <2>2. CASE j \in 1..n
    BY <1>1, <1>2, <1>4, <2>2 DEF Timed
  <2> QED BY <1>2, <2>1, <2>2
<1> QED
  BY <1>3, <1>4 DEF Timed, new

LEMMA PushSearchable ==
  ASSUME NEW obs, NEW at \in Nat, IsRecord(obs, at), NEW b \in Nat
  PROVE  Searchable(Push(obs, b, at), at)
<1>1. obs \in Seq(Observation) /\ Timed(obs, at) /\ Searchable(obs, at)
  BY DEF IsRecord
<1> DEFINE new == Push(obs, b, at)
           n == Len(obs)
<1>2. /\ n \in Nat /\ DOMAIN obs = 1..n /\ DOMAIN new = 1..(n + 1) /\ Len(new) = n + 1
      /\ (\A i \in 1..n : new[i] = obs[i]) /\ new[n + 1].timestamp = at
      /\ (obs # <<>> <=> n > 0)
  BY <1>1, PushShape
<1> SUFFICES ASSUME NEW target \in 0..at, new # <<>>, new[1].timestamp <= target
             PROVE  \E i \in DOMAIN new : IsIndexAt(new, target, i)
  BY DEF Searchable
<1> HIDE DEF new, n
<1>3. CASE target = at
  <2>1. IsIndexAt(new, target, n + 1)
    BY <1>2, <1>3 DEF IsIndexAt
  <2> QED BY <1>2, <2>1
<1>4. CASE target < at
  <2>1. n > 0 /\ obs[1].timestamp <= target
    <3>1. CASE n = 0
      BY <1>2, <1>4, <3>1
    <3>2. CASE n > 0
      BY <1>2, <3>2
    <3> QED BY <1>2, <3>1, <3>2
  <2>2. PICK i \in DOMAIN obs : IsIndexAt(obs, target, i)
    BY <1>1, <1>2, <2>1 DEF Searchable
  <2>3. i \in 1..n /\ new[i].timestamp <= target
    BY <1>2, <2>2 DEF IsIndexAt
  <2>4. new[i + 1].timestamp > target
    <3>1. CASE i = n
      BY <1>2, <1>4, <3>1
    <3>2. CASE i < n
      <4>1. i + 1 \in 1..n /\ i # n
        BY <1>2, <2>3, <3>2
      <4>2. obs[i + 1].timestamp > target
        BY <2>2, <4>1 DEF IsIndexAt, n
      <4> QED BY <1>2, <4>1, <4>2
    <3> QED BY <1>2, <2>3, <3>1, <3>2
  <2>5. IsIndexAt(new, target, i)
    BY <1>2, <2>3, <2>4 DEF IsIndexAt
  <2> QED BY <1>2, <2>3, <2>5
<1> QED
  BY <1>3, <1>4

LEMMA PushChained ==
  ASSUME NEW obs, NEW at \in Nat, IsRecord(obs, at), NEW b \in Nat
  PROVE  Chained(Push(obs, b, at))
<1>1. obs \in Seq(Observation) /\ Timed(obs, at) /\ Chained(obs)
  BY DEF IsRecord
<1> DEFINE new == Push(obs, b, at)
           n == Len(obs)
<1>2. /\ n \in Nat /\ DOMAIN obs = 1..n /\ DOMAIN new = 1..(n + 1)
      /\ (\A i \in 1..n : new[i] = obs[i]) /\ new[n + 1].timestamp = at
      /\ (obs # <<>> <=> n > 0)
      /\ new[n + 1].cumulative = IF obs = <<>> THEN 0 ELSE CarryTo(obs[n], at)
  BY <1>1, PushShape
<1> HIDE DEF new, n
<1>3. new[1].cumulative = 0
  <2>1. CASE n = 0
    BY <1>2, <2>1
  <2>2. CASE n > 0
    BY <1>1, <1>2, <2>2 DEF Chained
  <2> QED BY <1>2, <2>1, <2>2
<1>4. ASSUME NEW i \in DOMAIN new, i > 1
      PROVE  new[i].cumulative = CarryTo(new[i - 1], new[i].timestamp)
  <2>1. i - 1 \in 1..n
    BY <1>2, <1>4
  <2>2. CASE i = n + 1
    BY <1>2, <2>1, <2>2
  <2>3. CASE i \in 1..n
    <3>1. obs[i].cumulative = CarryTo(obs[i - 1], obs[i].timestamp)
      BY <1>1, <1>2, <1>4, <2>3 DEF Chained
    <3> QED BY <1>2, <2>1, <2>3, <3>1
  <2> QED BY <1>2, <2>2, <2>3
<1>5. ASSUME NEW i \in DOMAIN new, NEW j \in DOMAIN new, i <= j
      PROVE  new[i].cumulative <= new[j].cumulative
  <2>1. CASE j \in 1..n
    BY <1>1, <1>2, <1>5, <2>1 DEF Chained
  <2>2. CASE j = n + 1 /\ i \in 1..n
    <3>1. n \in DOMAIN obs /\ i \in DOMAIN obs /\ i <= n /\ obs # <<>>
      BY <1>2, <2>2
    <3>2. obs[i].cumulative <= obs[n].cumulative
      BY <1>1, <3>1 DEF Chained
    <3>3. obs[n] \in Observation /\ obs[n].timestamp <= at
      BY <1>1, <3>1, ObservationFields DEF Timed
    <3>4. obs[n].cumulative <= CarryTo(obs[n], at) /\ CarryTo(obs[n], at) \in Nat
      BY <3>3, CarryToGrows
    <3>5. obs[i].cumulative \in Nat /\ obs[n].cumulative \in Nat
      BY <1>1, <3>1, ObservationFields
    <3> QED BY <1>2, <2>2, <3>1, <3>2, <3>4, <3>5
  <2>3. CASE j = n + 1 /\ i = n + 1
    <3>1. new \in Seq(Observation)
      BY PushTyped DEF new
    <3>2. new[i].cumulative \in Nat
      BY <3>1, ObservationFields
    <3> QED BY <2>3, <3>2
  <2> QED BY <1>2, <2>1, <2>2, <2>3
<1> QED
  BY <1>3, <1>4, <1>5 DEF Chained, new

LEMMA PushEarned ==
  ASSUME NEW obs, NEW at \in Nat, IsRecord(obs, at), NEW b \in Nat
  PROVE  Earned(Push(obs, b, at))
<1>1. obs \in Seq(Observation) /\ Timed(obs, at) /\ Earned(obs)
  BY DEF IsRecord
<1> DEFINE new == Push(obs, b, at)
           n == Len(obs)
<1>2. /\ n \in Nat /\ DOMAIN obs = 1..n /\ DOMAIN new = 1..(n + 1)
      /\ (\A i \in 1..n : new[i] = obs[i]) /\ new[n + 1].timestamp = at
      /\ (obs # <<>> <=> n > 0)
      /\ new[n + 1].cumulative = IF obs = <<>> THEN 0 ELSE CarryTo(obs[n], at)
  BY <1>1, PushShape
<1> HIDE DEF new, n
<1> SUFFICES ASSUME NEW i \in DOMAIN new, new[i].cumulative > 0
             PROVE  \E j \in DOMAIN new : new[j].balance > 0 /\ new[j].timestamp < new[i].timestamp
  BY DEF Earned, new
<1>3. ASSUME NEW k \in 1..n, obs[k].cumulative > 0, obs[k].timestamp <= new[i].timestamp,
             new[i].timestamp \in Nat
      PROVE  \E j \in DOMAIN new : new[j].balance > 0 /\ new[j].timestamp < new[i].timestamp
  <2>1. PICK j \in 1..n : obs[j].balance > 0 /\ obs[j].timestamp < obs[k].timestamp
    BY <1>1, <1>2, <1>3 DEF Earned
  <2>2. obs[j].timestamp \in Nat /\ obs[k].timestamp \in Nat
    BY <1>1, <1>2, ObservationFields
  <2>3. obs[j].timestamp < new[i].timestamp
    BY <1>3, <2>1, <2>2
  <2> QED BY <1>2, <2>1, <2>3
<1>4. CASE i \in 1..n
  <2>1. new[i].timestamp \in Nat /\ new[i] = obs[i]
    BY <1>1, <1>2, <1>4, ObservationFields
  <2> QED BY <1>3, <1>4, <2>1
<1>5. CASE i = n + 1
  <2>1. n \in 1..n /\ obs # <<>>
    BY <1>2, <1>5
  <2>2. obs[n].timestamp \in Nat /\ obs[n].balance \in Nat /\ obs[n].cumulative \in Nat
    BY <1>1, <1>2, <2>1, ObservationFields
  <2>3. obs[n].timestamp <= at /\ new[i].timestamp = at
    BY <1>1, <1>2, <1>5, <2>1 DEF Timed
  <2>4. CASE obs[n].cumulative > 0
    BY <1>3, <2>1, <2>3, <2>4
  <2>5. CASE obs[n].cumulative = 0
    <3>1. obs[n].balance * (at - obs[n].timestamp) > 0
      BY <1>2, <1>5, <2>1, <2>2, <2>5 DEF CarryTo
    <3>2. at - obs[n].timestamp # 0 /\ obs[n].balance # 0
      BY <2>2, <2>3, <3>1
    <3>3. obs[n].timestamp < at /\ obs[n].balance > 0
      BY <2>2, <2>3, <3>2
    <3> QED BY <1>2, <2>1, <2>3, <3>3
  <2> QED BY <2>2, <2>4, <2>5
<1> QED
  BY <1>2, <1>4, <1>5

\* Every record the contract appends to is one.
THEOREM PushIsRecord ==
  ASSUME NEW obs, NEW at \in Nat, IsRecord(obs, at), NEW b \in Nat
  PROVE  IsRecord(Push(obs, b, at), at)
BY PushTyped, PushTimed, PushSearchable, PushChained, PushEarned DEF IsRecord

-----------------------------------------------------------------------------
(* Reading a record.                                                       *)

\* What a read finds: nothing before the record starts, or an observation at or
\* before the moment, carried to it.
LEMMA ReadCases ==
  ASSUME NEW obs, NEW at \in Nat, IsRecord(obs, at), NEW t \in 0..at
  PROVE  \/ (obs = <<>> \/ obs[1].timestamp > t) /\ CumulativeAt(obs, t) = 0
         \/ \E i \in DOMAIN obs :
              /\ IsIndexAt(obs, t, i)
              /\ CumulativeAt(obs, t) = CarryTo(obs[i], t)
              /\ obs[i] \in Observation /\ obs[i].timestamp <= t
<1>1. obs \in Seq(Observation)
  BY DEF IsRecord
<1>2. CASE obs = <<>> \/ obs[1].timestamp > t
  BY <1>2 DEF CumulativeAt
<1>3. CASE obs # <<>> /\ ~ (obs[1].timestamp > t)
  <2>1. 1 \in DOMAIN obs
    BY <1>1, <1>3
  <2>2. obs[1].timestamp <= t
    BY <1>1, <1>3, <2>1, ObservationFields
  <2>3. PICK i \in DOMAIN obs : IsIndexAt(obs, t, i)
    BY <1>3, <2>2 DEF IsRecord, Searchable
  <2>4. CumulativeAt(obs, t) = CarryTo(obs[i], t)
    BY <2>3, IndexIs
  <2>5. obs[i] \in Observation /\ obs[i].timestamp <= t
    BY <1>1, <2>3, ObservationFields DEF IsIndexAt
  <2> QED BY <2>3, <2>4, <2>5
<1> QED
  BY <1>2, <1>3

LEMMA CumulativeType ==
  ASSUME NEW obs, NEW at \in Nat, IsRecord(obs, at), NEW t \in 0..at
  PROVE  CumulativeAt(obs, t) \in Nat
<1>1. CASE CumulativeAt(obs, t) = 0
  BY <1>1
<1>2. ASSUME NEW o \in Observation, o.timestamp <= t, CumulativeAt(obs, t) = CarryTo(o, t)
      PROVE  CumulativeAt(obs, t) \in Nat
  BY <1>2, CarryToGrows
<1> QED
  BY <1>1, <1>2, ReadCases

\* Appending at the clock, within the same second included, changes no cumulative
\* up to the clock: whatever is deposited or withdrawn after a snapshot leaves
\* the snapshot's reads alone (_push, _cumulativeAt).
THEOREM PushKeepsThePast ==
  ASSUME NEW obs, NEW at \in Nat, IsRecord(obs, at), NEW b \in Nat, NEW t \in 0..at
  PROVE  CumulativeAt(Push(obs, b, at), t) = CumulativeAt(obs, t)
<1> DEFINE new == Push(obs, b, at)
           n == Len(obs)
<1>1. obs \in Seq(Observation) /\ Timed(obs, at) /\ IsRecord(new, at)
  BY PushIsRecord DEF IsRecord
<1>2. /\ n \in Nat /\ DOMAIN obs = 1..n /\ DOMAIN new = 1..(n + 1) /\ Len(new) = n + 1
      /\ (\A i \in 1..n : new[i] = obs[i]) /\ new[n + 1].timestamp = at
      /\ new[n + 1].balance = b
      /\ (obs # <<>> <=> n > 0)
      /\ new[n + 1].cumulative = IF obs = <<>> THEN 0 ELSE CarryTo(obs[n], at)
  BY <1>1, PushShape
<1> HIDE DEF new
<1>3. CASE t < at
  <2>1. CASE obs = <<>> \/ obs[1].timestamp > t
    <3>1. new[1].timestamp > t
      <4>1. CASE n = 0
        BY <1>2, <1>3, <4>1
      <4>2. CASE n > 0
        BY <1>2, <2>1, <4>2
      <4> QED BY <1>2, <4>1, <4>2
    <3>2. CumulativeAt(obs, t) = 0 /\ CumulativeAt(new, t) = 0
      BY <2>1, <3>1 DEF CumulativeAt
    <3> QED BY <3>2 DEF new
  <2>2. ASSUME NEW i \in DOMAIN obs, IsIndexAt(obs, t, i), CumulativeAt(obs, t) = CarryTo(obs[i], t)
        PROVE  CumulativeAt(new, t) = CumulativeAt(obs, t)
    <3>1. new[i + 1].timestamp > t
      BY <1>2, <1>3, <2>2 DEF IsIndexAt
    <3>2. IsIndexAt(new, t, i) /\ new[i] = obs[i]
      BY <1>2, <2>2, <3>1 DEF IsIndexAt
    <3>3. CumulativeAt(new, t) = CarryTo(new[i], t)
      BY <1>1, <3>2, IndexIs
    <3> QED BY <2>2, <3>2, <3>3
  <2> QED BY <2>1, <2>2, ReadCases DEF new
<1>4. CASE t = at
  <2>1. IsIndexAt(new, t, n + 1)
    BY <1>2, <1>4 DEF IsIndexAt
  <2>2. CumulativeAt(new, t) = CarryTo(new[n + 1], t)
    BY <1>1, <2>1, IndexIs
  <2>3. CarryTo(new[n + 1], t) = new[n + 1].cumulative
    <3>1. new[n + 1].cumulative \in Nat
      BY <1>1, <1>2, ObservationFields DEF IsRecord
    <3> QED BY <1>2, <1>4, <3>1 DEF CarryTo
  <2>4. CASE n = 0
    <3>1. CumulativeAt(obs, t) = 0
      BY <1>2, <2>4 DEF CumulativeAt
    <3> QED BY <1>2, <2>2, <2>3, <2>4, <3>1 DEF new
  <2>5. CASE n > 0
    <3>1. n \in DOMAIN obs
      BY <1>2, <2>5
    <3>2. obs[n].timestamp <= t
      BY <1>1, <1>4, <3>1 DEF Timed
    <3>3. IsIndexAt(obs, t, n)
      BY <3>1, <3>2 DEF IsIndexAt
    <3>4. CumulativeAt(obs, t) = CarryTo(obs[n], t)
      BY <3>3, IndexIs
    <3> QED BY <1>2, <1>4, <2>2, <2>3, <2>5, <3>4 DEF new
  <2> QED BY <1>2, <2>4, <2>5
<1> QED
  BY <1>3, <1>4

\* A second adds the balance.
LEMMA NextSecond ==
  ASSUME NEW obs, NEW at \in Nat, IsRecord(obs, at)
  PROVE  CumulativeAt(obs, at + 1) = CumulativeAt(obs, at) + BalanceOf(obs)
<1>1. CASE obs = <<>>
  BY <1>1 DEF CumulativeAt, BalanceOf
<1>2. CASE obs # <<>>
  <2> DEFINE n == Len(obs)
  <2>1. obs \in Seq(Observation) /\ Timed(obs, at)
    BY DEF IsRecord
  <2>2. n \in Nat /\ n \in DOMAIN obs /\ DOMAIN obs = 1..n
    BY <1>2, <2>1
  <2>3. /\ obs[n].timestamp \in Nat /\ obs[n].balance \in Nat /\ obs[n].cumulative \in Nat
        /\ obs[n].timestamp <= at
    BY <2>1, <2>2, ObservationFields DEF Timed
  <2>4. IsIndexAt(obs, at, n) /\ IsIndexAt(obs, at + 1, n)
    BY <2>2, <2>3 DEF IsIndexAt
  <2>5. IsRecord(obs, at + 1) /\ at + 1 \in Nat /\ at \in 0..at /\ at + 1 \in 0..(at + 1)
    BY RecordAges
  <2>6. CumulativeAt(obs, at) = CarryTo(obs[n], at)
    BY <2>4, <2>5, IndexIs
  <2>7. CumulativeAt(obs, at + 1) = CarryTo(obs[n], at + 1)
    BY <2>4, <2>5, IndexIs
  <2>8. PICK b, c, x \in Nat : b = obs[n].balance /\ c = obs[n].cumulative /\ x = at - obs[n].timestamp
    BY <2>3
  <2>9. (at + 1) - obs[n].timestamp = x + 1
    BY <2>3, <2>8, SMTT(30)
  <2>10. c + b * (x + 1) = (c + b * x) + b
    OBVIOUS
  <2>11. BalanceOf(obs) = b
    BY <1>2, <2>8 DEF BalanceOf
  <2>12. CarryTo(obs[n], at) = c + b * x
    BY <2>8 DEF CarryTo
  <2>13. CarryTo(obs[n], at + 1) = c + b * (x + 1)
    <3> HIDE DEF n
    <3> QED BY <2>8, <2>9, Zenon DEF CarryTo
  <2> HIDE DEF n
  <2> QED
    BY <2>6, <2>7, <2>10, <2>11, <2>12, <2>13
<1> QED
  BY <1>1, <1>2

\* A later read is no smaller: the weight of a window is never negative.
LEMMA CumulativeMonotone ==
  ASSUME NEW obs, NEW at \in Nat, IsRecord(obs, at), NEW s \in 0..at, NEW t \in 0..at, s <= t
  PROVE  CumulativeAt(obs, s) <= CumulativeAt(obs, t)
<1>1. obs \in Seq(Observation) /\ Timed(obs, at) /\ Chained(obs)
      /\ DOMAIN obs = 1..Len(obs) /\ Len(obs) \in Nat
  BY DEF IsRecord
<1>2. CASE CumulativeAt(obs, s) = 0
  BY <1>2, CumulativeType
<1>3. ASSUME NEW i \in DOMAIN obs, IsIndexAt(obs, s, i), CumulativeAt(obs, s) = CarryTo(obs[i], s),
             obs[i] \in Observation, obs[i].timestamp <= s
      PROVE  CumulativeAt(obs, s) <= CumulativeAt(obs, t)
  <2>1. obs # <<>> /\ ~ (obs[1].timestamp > s)
    BY <1>3, IndexIs
  <2>2. obs[1].timestamp \in Nat
    BY <1>1, <1>3, <2>1, ObservationFields
  <2>3. PICK j \in DOMAIN obs : /\ IsIndexAt(obs, t, j) /\ CumulativeAt(obs, t) = CarryTo(obs[j], t)
                                /\ obs[j] \in Observation /\ obs[j].timestamp <= t
    BY <2>1, <2>2, ReadCases
  <2>4. CASE i = j
    BY <1>3, <2>3, <2>4, CarryToGrows
  <2>5. CASE i < j
    <3>1. i + 1 \in DOMAIN obs /\ i + 1 <= j /\ i + 1 > 1 /\ (i + 1) - 1 = i
      BY <1>1, <2>5
    <3>2. obs[i + 1].timestamp > s /\ obs[i + 1].timestamp \in Nat
      BY <1>1, <1>3, <2>5, <3>1, ObservationFields DEF IsIndexAt
    <3>3. CarryTo(obs[i], s) <= CarryTo(obs[i], obs[i + 1].timestamp)
      BY <1>3, <3>2, CarryToGrows
    <3>4. CarryTo(obs[i], obs[i + 1].timestamp) = obs[i + 1].cumulative
      BY <1>1, <3>1 DEF Chained
    <3>5. obs[i + 1].cumulative <= obs[j].cumulative
      BY <1>1, <3>1 DEF Chained
    <3>6. obs[j].cumulative <= CarryTo(obs[j], t) /\ CarryTo(obs[j], t) \in Nat
      BY <2>3, CarryToGrows
    <3>7. obs[i + 1].cumulative \in Nat /\ obs[j].cumulative \in Nat
      BY <1>1, <3>1, ObservationFields
    <3>8. CarryTo(obs[i], s) \in Nat
      BY <1>3, CarryToGrows
    <3> QED BY <1>3, <2>3, <3>3, <3>4, <3>5, <3>6, <3>7, <3>8
  <2>6. CASE j < i
    <3>1. j + 1 \in DOMAIN obs /\ j + 1 <= i /\ j # Len(obs)
      BY <1>1, <2>6
    <3>2. obs[j + 1].timestamp > t /\ obs[j + 1].timestamp <= obs[i].timestamp
      BY <1>1, <2>3, <3>1 DEF IsIndexAt, Timed
    <3>3. obs[j + 1].timestamp \in Nat /\ obs[i].timestamp \in Nat
      BY <1>1, <3>1, ObservationFields
    <3> QED BY <1>3, <3>2, <3>3
  <2> QED BY <1>1, <2>4, <2>5, <2>6
<1> QED
  BY <1>2, <1>3, ReadCases

\* A positive cumulative was earned by a balance held before the moment it is read
\* at: no history before a snapshot, no weight at it.
THEOREM StakeBehindWeight ==
  ASSUME NEW obs, NEW at \in Nat, IsRecord(obs, at), NEW t \in 0..at, CumulativeAt(obs, t) > 0
  PROVE  \E i \in DOMAIN obs : obs[i].balance > 0 /\ obs[i].timestamp < t
<1>1. obs \in Seq(Observation) /\ Earned(obs)
  BY DEF IsRecord
<1>2. PICK i \in DOMAIN obs : /\ CumulativeAt(obs, t) = CarryTo(obs[i], t)
                              /\ obs[i] \in Observation /\ obs[i].timestamp <= t
  BY ReadCases
<1>3. obs[i].timestamp \in Nat /\ obs[i].balance \in Nat /\ obs[i].cumulative \in Nat
  BY <1>1, ObservationFields
<1>4. CASE obs[i].cumulative > 0
  <2>1. PICK j \in DOMAIN obs : obs[j].balance > 0 /\ obs[j].timestamp < obs[i].timestamp
    BY <1>1, <1>4 DEF Earned
  <2>2. obs[j].timestamp \in Nat
    BY <1>1, ObservationFields
  <2> QED BY <1>2, <1>3, <2>1, <2>2
<1>5. CASE obs[i].cumulative = 0
  <2>1. obs[i].balance * (t - obs[i].timestamp) > 0
    BY <1>2, <1>3, <1>5 DEF CarryTo
  <2>2. t - obs[i].timestamp # 0 /\ obs[i].balance # 0
    BY <1>2, <1>3, <2>1
  <2> QED BY <1>2, <1>3, <2>2
<1> QED
  BY <1>3, <1>4, <1>5

-----------------------------------------------------------------------------
(* The pool *)

LEMMA Parameters ==
  /\ IsFiniteSet(Users) /\ IsFiniteSet(Sources) /\ NoSource \notin Sources
  /\ Pool \in Accounts /\ Keeper \in Accounts
  /\ Users \subseteq Accounts /\ Sources \subseteq Accounts
  /\ Tiers \subseteq Nat /\ 0 \in Tiers
  /\ TierTables \subseteq [prize : [Tiers -> Nat], k : [Tiers -> Nat \ {0}]]
  /\ KeeperFees \subseteq Nat /\ Amounts \subseteq Nat /\ Rand \subseteq Nat
  /\ MaxUint64 \in Nat /\ MinPeriod \in Nat /\ CancelAfter \in Nat /\ LivenessRate \in Nat
  /\ LivenessCap \in Nat /\ SourceOperatorWindow \in Nat /\ Supply \in Nat
  /\ MaxTime \in Nat /\ MaxDraws \in Nat
  /\ FeeShareDivisor \in Nat \ {0}
BY ConstantsAssumption DEF Accounts

-----------------------------------------------------------------------------
(* Types and bounds of the helpers.                                        *)

LEMMA ArithmeticTypes ==
  ASSUME NEW a \in Nat, NEW b \in Nat
  PROVE  /\ TryAdd(a, b) \in Nat /\ TryAdd(a, b) <= a + b
         /\ TrySub(a, b) \in Nat
         /\ TryDecrease(a, b) \in Nat /\ TryDecrease(a, b) <= a
         /\ MinOf(a, b) \in Nat /\ MinOf(a, b) <= a /\ MinOf(a, b) <= b
BY Parameters DEF TryAdd, TrySub, TryDecrease, MinOf

LEMMA MovedType ==
  ASSUME TypeOK, NEW from \in Accounts, NEW amount \in Nat
  PROVE  Moved(from, amount) \in Nat /\ Moved(from, amount) <= tokens[from]
                                     /\ Moved(from, amount) <= amount
<1>1. tokens[from] \in Nat
  BY DEF TypeOK
<1> QED
  BY <1>1 DEF Moved

LEMMA AfterType ==
  ASSUME TypeOK, NEW from \in Accounts, NEW to \in Accounts,
         NEW sent \in Nat, sent <= tokens[from]
  PROVE  After(from, to, sent) \in [Accounts -> Nat]
<1>1. tokens \in [Accounts -> Nat]
  BY DEF TypeOK
<1> QED
  BY <1>1 DEF After

LEMMA BalanceType ==
  ASSUME NEW obs \in Seq(Observation)
  PROVE  BalanceOf(obs) \in Nat
<1>1. CASE obs = <<>>
  BY <1>1 DEF BalanceOf
<1>2. CASE obs # <<>>
  <2>1. Len(obs) \in DOMAIN obs
    BY <1>2
  <2> QED BY <1>2, <2>1, ObservationFields DEF BalanceOf
<1> QED
  BY <1>1, <1>2

-----------------------------------------------------------------------------
(* What a transaction may do to a record: append to it at the clock, which *)
(* keeps it a record and keeps its past.                                   *)

Extends(new, obs) ==
  /\ IsRecord(new, now)
  /\ \A t \in 0..now : CumulativeAt(new, t) = CumulativeAt(obs, t)
  /\ \A i \in DOMAIN obs : i \in DOMAIN new /\ new[i] = obs[i]

LEMMA ExtendsRefl ==
  ASSUME NEW obs, IsRecord(obs, now)
  PROVE  Extends(obs, obs)
BY DEF Extends

LEMMA ExtendsPush ==
  ASSUME NEW obs, NEW mid, now \in Nat, Extends(mid, obs), NEW b \in Nat
  PROVE  Extends(Push(mid, b, now), obs)
<1>1. mid \in Seq(Observation)
  BY DEF Extends, IsRecord
<1>2. \A i \in DOMAIN mid : i \in DOMAIN Push(mid, b, now) /\ Push(mid, b, now)[i] = mid[i]
  BY <1>1, PushShape
<1> QED
  BY <1>2, PushIsRecord, PushKeepsThePast DEF Extends

LEMMA DrainedExtends ==
  ASSUME TypeOK, RecordsSound, NEW u \in Users
  PROVE  /\ Extends(Drained(u), userObs[u]) /\ Extends(DrainedTotal(u), totalObs)
         /\ Drained(u) \in Seq(Observation) /\ DrainedTotal(u) \in Seq(Observation)
<1>1. now \in Nat /\ pending[u] \in Nat
  BY DEF TypeOK
<1>2. IsRecord(userObs[u], now) /\ IsRecord(totalObs, now)
  BY DEF RecordsSound
<1>3. BalanceOf(userObs[u]) \in Nat /\ BalanceOf(totalObs) \in Nat
  BY <1>2, BalanceType DEF IsRecord
<1>4. TryAdd(BalanceOf(userObs[u]), pending[u]) \in Nat /\ TryAdd(BalanceOf(totalObs), pending[u]) \in Nat
  BY <1>1, <1>3, ArithmeticTypes
<1>5. Extends(Drained(u), userObs[u])
  BY <1>1, <1>2, <1>4, ExtendsRefl, ExtendsPush DEF Drained
<1>6. Extends(DrainedTotal(u), totalObs)
  BY <1>1, <1>2, <1>4, ExtendsRefl, ExtendsPush DEF DrainedTotal
<1> QED
  BY <1>5, <1>6 DEF Extends, IsRecord

-----------------------------------------------------------------------------
(* The record across a transaction.                                        *)

LEMMA RequestType ==
  ASSUME TypeOK, RecordsSound, NEW u \in Users, NEW amount \in Nat
  PROVE  Request(u, amount) \in Nat /\ Request(u, amount) <= BalanceOf(Drained(u))
                                    /\ BalanceOf(Drained(u)) \in Nat
<1>1. BalanceOf(Drained(u)) \in Nat
  BY DrainedExtends, BalanceType
<1> QED
  BY <1>1, ArithmeticTypes DEF Request

LEMMA HolderType ==
  ASSUME TypeOK
  PROVE  Holder \in Accounts /\ (yieldSource # NoSource => yieldSource \in Accounts)
BY Parameters DEF TypeOK, Holder

LEMMA RedeemedType ==
  ASSUME TypeOK, NEW request \in Nat, NEW sent \in Redeemed(request)
  PROVE  sent \in Nat /\ sent <= request /\ sent <= tokens[Holder]
<1>1. CASE yieldSource = NoSource
  BY <1>1, MovedType, Parameters DEF Redeemed, Holder
<1>2. CASE yieldSource # NoSource
  BY <1>2 DEF Redeemed, Holder
<1> QED
  BY <1>1, <1>2

\* What a deposit, a withdrawal or a claim does to the records.
RecordsExtended(u) ==
  /\ \E new : Extends(new, userObs[u]) /\ userObs' = [userObs EXCEPT ![u] = new]
  /\ Extends(totalObs', totalObs)

LEMMA DepositExtends ==
  ASSUME TypeOK, RecordsSound, NEW u \in Users, NEW amount \in Amounts, Deposit(u, amount)
  PROVE  RecordsExtended(u)
<1>1. now \in Nat /\ u \in Accounts /\ amount \in Nat
  BY Parameters DEF TypeOK
<1>2. Moved(u, amount) \in Nat
  BY <1>1, MovedType
<1>3. /\ TryAdd(BalanceOf(Drained(u)), Moved(u, amount)) \in Nat
      /\ TryAdd(BalanceOf(DrainedTotal(u)), Moved(u, amount)) \in Nat
  BY <1>2, DrainedExtends, BalanceType, ArithmeticTypes
<1>4. Extends(Push(Drained(u), TryAdd(BalanceOf(Drained(u)), Moved(u, amount)), now), userObs[u])
  BY <1>1, <1>3, DrainedExtends, ExtendsPush
<1>5. Extends(Push(DrainedTotal(u), TryAdd(BalanceOf(DrainedTotal(u)), Moved(u, amount)), now), totalObs)
  BY <1>1, <1>3, DrainedExtends, ExtendsPush
<1> QED
  BY <1>4, <1>5 DEF Deposit, RecordsExtended

LEMMA WithdrawExtends ==
  ASSUME TypeOK, RecordsSound, NEW u \in Users, NEW amount \in Amounts, NEW sent,
         Withdraw(u, amount, sent)
  PROVE  RecordsExtended(u)
<1>1. now \in Nat /\ amount \in Nat
  BY Parameters DEF TypeOK
<1> DEFINE request == Request(u, amount)
           b == Refunded(BalanceOf(Drained(u)), request, sent)
           t == TrySub(BalanceOf(DrainedTotal(u)), sent)
<1>2. request \in Nat /\ request <= BalanceOf(Drained(u)) /\ BalanceOf(Drained(u)) \in Nat
  BY <1>1, RequestType
<1>3. sent \in Nat /\ sent <= request
  BY <1>2, RedeemedType DEF Withdraw
<1>4. b \in Nat
  <2>1. BalanceOf(Drained(u)) - request \in Nat /\ request - sent \in Nat
    BY <1>2, <1>3
  <2> QED BY <2>1, ArithmeticTypes DEF Refunded
<1>5. t \in Nat
  BY <1>3, DrainedExtends, BalanceType, ArithmeticTypes
<1>6. userObs' = [userObs EXCEPT ![u] = Push(Drained(u), b, now)]
      /\ totalObs' = Push(DrainedTotal(u), t, now)
  BY DEF Withdraw
<1> HIDE DEF b, t
<1>7. Extends(Push(Drained(u), b, now), userObs[u]) /\ Extends(Push(DrainedTotal(u), t, now), totalObs)
  BY <1>1, <1>4, <1>5, DrainedExtends, ExtendsPush
<1> QED
  BY <1>6, <1>7 DEF RecordsExtended

LEMMA ClaimExtends ==
  ASSUME TypeOK, RecordsSound, NEW u \in Users, Claim(u)
  PROVE  RecordsExtended(u)
BY DrainedExtends DEF Claim, RecordsExtended

\* Only these three and the clock touch a record or the clock.
LEMMA RecordFrame ==
  ASSUME [Next]_vars
  PROVE  \/ \E u \in Users : /\ now' = now
                             /\ \/ \E amount \in Amounts : Deposit(u, amount)
                                \/ \E amount \in Amounts : \E sent : Withdraw(u, amount, sent)
                                \/ Claim(u)
         \/ Tick
         \/ UNCHANGED <<now, record>>
<1>1. CASE Record
  BY <1>1 DEF Record, Deposit, Withdraw, Claim
<1>2. CASE Drawing
  BY <1>2 DEF Drawing, OpenDraw, RevealDraw, CancelDraw, Accrue, AccrueMany
<1>3. CASE Funding
  BY <1>3 DEF Funding, FundReserve, FundFeePot, Harvest
<1>4. CASE Configuring
  BY <1>4 DEF Configuring, SetYieldSource, SetTiers, SetKeeperFee, RenounceOwnership
<1>5. CASE UNCHANGED vars
  BY <1>5 DEF vars, record
<1> QED
  BY <1>1, <1>2, <1>3, <1>4, <1>5 DEF Next

\* Every transaction keeps the records sound and every user's past as it was.
LEMMA RecordStep ==
  ASSUME TypeOK, RecordsSound, [Next]_vars
  PROVE  /\ now' \in Nat /\ now <= now'
         /\ userObs' \in [Users -> Seq(Observation)] /\ totalObs' \in Seq(Observation)
         /\ RecordsSound'
         /\ \A u \in Users : \A t \in 0..now :
              CumulativeAt(userObs'[u], t) = CumulativeAt(userObs[u], t)
         /\ \A u \in Users : \A i \in DOMAIN userObs[u] :
              i \in DOMAIN userObs'[u] /\ userObs'[u][i] = userObs[u][i]
<1>1. now \in Nat /\ userObs \in [Users -> Seq(Observation)] /\ totalObs \in Seq(Observation)
  BY DEF TypeOK
<1>2. ASSUME NEW u \in Users, now' = now, RecordsExtended(u)
      PROVE  /\ userObs' \in [Users -> Seq(Observation)] /\ totalObs' \in Seq(Observation)
             /\ RecordsSound'
             /\ \A v \in Users : \A t \in 0..now :
                  CumulativeAt(userObs'[v], t) = CumulativeAt(userObs[v], t)
             /\ \A v \in Users : \A i \in DOMAIN userObs[v] :
                  i \in DOMAIN userObs'[v] /\ userObs'[v][i] = userObs[v][i]
  <2>1. PICK new : Extends(new, userObs[u]) /\ userObs' = [userObs EXCEPT ![u] = new]
    BY <1>2 DEF RecordsExtended
  <2>2. new \in Seq(Observation) /\ IsRecord(new, now)
    BY <2>1 DEF Extends, IsRecord
  <2>3. IsRecord(totalObs', now) /\ totalObs' \in Seq(Observation)
    BY <1>2 DEF RecordsExtended, Extends, IsRecord
  <2>4. \A v \in Users : userObs'[v] = IF v = u THEN new ELSE userObs[v]
    BY <1>1, <2>1
  <2>5. RecordsSound'
    BY <1>2, <2>2, <2>3, <2>4 DEF RecordsSound
  <2>6. \A v \in Users : \A t \in 0..now : CumulativeAt(userObs'[v], t) = CumulativeAt(userObs[v], t)
    BY <2>1, <2>4 DEF Extends
  <2>7. \A v \in Users : \A i \in DOMAIN userObs[v] :
          i \in DOMAIN userObs'[v] /\ userObs'[v][i] = userObs[v][i]
    BY <2>1, <2>4 DEF Extends
  <2> QED BY <1>1, <2>1, <2>2, <2>3, <2>5, <2>6, <2>7
<1>3. CASE Tick
  <2>1. now' = now + 1 /\ userObs' = userObs /\ totalObs' = totalObs
    BY <1>3 DEF Tick, record
  <2>2. RecordsSound'
    BY <1>1, <2>1, RecordAges DEF RecordsSound
  <2> QED BY <1>1, <2>1, <2>2
<1>4. CASE UNCHANGED <<now, record>>
  BY <1>1, <1>4 DEF record, RecordsSound
<1> QED
  BY <1>1, <1>2, <1>3, <1>4, RecordFrame, DepositExtends, WithdrawExtends, ClaimExtends

-----------------------------------------------------------------------------
(* Draws.                                                                  *)

LEMMA MappedSeq ==
  ASSUME NEW S, NEW seq \in Seq(S), NEW new \in [DOMAIN seq -> S]
  PROVE  new \in Seq(S) /\ Len(new) = Len(seq) /\ DOMAIN new = DOMAIN seq
<1>1. Len(seq) \in Nat /\ DOMAIN seq = 1..Len(seq)
  BY LenProperties
<1>2. new \in [1..Len(seq) -> S]
  BY <1>1
<1>3. new \in Seq(S)
  BY <1>1, <1>2, SeqDef
<1>4. DOMAIN new = 1..Len(new) /\ Len(new) \in Nat
  BY <1>3, LenProperties
<1>5. Len(new) = Len(seq)
  BY <1>1, <1>2, <1>4
<1> QED
  BY <1>1, <1>2, <1>3, <1>5

LEMMA DrawFields ==
  ASSUME TypeOK, NEW d \in DOMAIN draws
  PROVE  /\ Len(draws) \in Nat /\ DOMAIN draws = 1..Len(draws) /\ d \in Nat
         /\ draws[d] \in DrawRecord
         /\ draws[d].periodStart \in Nat /\ draws[d].snapshotAt \in Nat
         /\ draws[d].status \in Status /\ draws[d].r \in Rand
         /\ draws[d].totalWeight \in Nat /\ draws[d].solvent \in BOOLEAN
         /\ draws[d].accrued \in SUBSET Users /\ draws[d].cumAt \in [Users -> Int]
         /\ draws[d].cleared \in [Users -> Nat] /\ draws[d].paid \in [Users -> Nat]
<1>1. draws \in Seq(DrawRecord)
  BY DEF TypeOK
<1>2. Len(draws) \in Nat /\ DOMAIN draws = 1..Len(draws)
  BY <1>1, LenProperties
<1>3. draws[d] \in DrawRecord
  BY <1>1, <1>2, ElementOfSeq
<1> QED
  BY <1>2, <1>3 DEF DrawRecord

\* The moments a draw names are moments its records answer for.
LEMMA DrawMoments ==
  ASSUME TypeOK, WindowsInOrder, NEW d \in DOMAIN draws
  PROVE  /\ now \in Nat
         /\ draws[d].periodStart \in 0..now /\ draws[d].snapshotAt \in 0..now
         /\ draws[d].periodStart <= draws[d].snapshotAt
         /\ d > 1 => d - 1 \in DOMAIN draws
<1>1. now \in Nat /\ Len(draws) \in Nat /\ DOMAIN draws = 1..Len(draws) /\ d \in Nat
  BY DrawFields DEF TypeOK
<1>2. draws[d].periodStart \in Nat /\ draws[d].snapshotAt \in Nat
  BY DrawFields
<1>3. draws[d].periodStart <= draws[d].snapshotAt /\ draws[d].snapshotAt <= now
  BY DEF WindowsInOrder
<1> QED
  BY <1>1, <1>2, <1>3

\* Through the cache or around it, the reads are those of the record.
LEMMA CacheReads ==
  ASSUME Inductive, NEW d \in DOMAIN draws, NEW u \in Users
  PROVE  /\ SnapshotCumulative(u, d) = CumulativeAt(userObs[u], draws[d].snapshotAt)
         /\ WindowStart(u, d) = CumulativeAt(userObs[u], draws[d].periodStart)
         /\ SnapshotCumulative(u, d) \in Nat /\ WindowStart(u, d) \in Nat
         /\ AccrualWeight(u, d) = WeightFor(u, d)
<1>1. ASSUME NEW i \in DOMAIN draws
      PROVE  SnapshotCumulative(u, i) = CumulativeAt(userObs[u], draws[i].snapshotAt)
  BY DEF Inductive, CacheMatchesRecord, SnapshotCumulative
<1>2. WindowStart(u, d) = CumulativeAt(userObs[u], draws[d].periodStart)
  <2>1. CASE StartsAtPredecessor(d)
    <3>1. d - 1 \in DOMAIN draws
      BY <2>1, DrawMoments DEF Inductive, StartsAtPredecessor
    <3>2. draws[d].periodStart = draws[d - 1].snapshotAt
      BY <2>1 DEF Inductive, WindowsInOrder
    <3> QED BY <1>1, <2>1, <3>1, <3>2 DEF WindowStart
  <2>2. CASE ~ StartsAtPredecessor(d)
    BY <2>2 DEF WindowStart
  <2> QED BY <2>1, <2>2
<1>3. IsRecord(userObs[u], now)
  BY DEF Inductive, RecordsSound
<1> QED
  BY <1>1, <1>2, <1>3, DrawMoments, CumulativeType DEF Inductive, AccrualWeight, WeightFor

\* A credit is one of the prizes of the table, or nothing.
LEMMA CreditType ==
  ASSUME TypeOK, NEW u, NEW d
  PROVE  /\ Credit(u, d) \in Nat
         /\ Credit(u, d) > 0 => \E t \in Tiers : AccrualWeight(u, d) > ThresholdFor(d, u, t)
<1> DEFINE won == {t \in Tiers : AccrualWeight(u, d) > ThresholdFor(d, u, t)}
<1>1. CASE won = {}
  BY <1>1 DEF Credit
<1>2. CASE won # {}
  <2>1. won \subseteq Nat
    BY Parameters
  <2>2. \E t \in won : \A s \in won : t <= s
    <3> HIDE DEF won
    <3> QED BY <1>2, <2>1, LeastNatural
  <2> DEFINE best == CHOOSE t \in won : \A s \in won : t <= s
  <2>3. best \in won
    <3> HIDE DEF won
    <3> QED BY <2>2
  <2>4. Credit(u, d) = tiers.prize[best]
    BY <1>2 DEF Credit
  <2> HIDE DEF best
  <2>5. tiers.prize[best] \in Nat
    BY <2>3 DEF TypeOK
  <2> QED BY <2>3, <2>4, <2>5
<1> QED
  BY <1>1, <1>2

\* A user's turn is a place in the batch.
LEMMA TurnType ==
  ASSUME NEW d, NEW batch \in SUBSET Users, NEW u \in batch,
         OrderKey(d, u) \in Nat
  PROVE  /\ Cardinality(batch) \in Nat
         /\ Turn(d, batch, u) \in 1..Cardinality(batch)
<1> DEFINE upto == {v \in batch : OrderKey(d, v) <= OrderKey(d, u)}
<1>1. IsFiniteSet(batch) /\ Cardinality(batch) \in Nat
  BY Parameters, FS_Subset, FS_CardinalityType
<1>2. IsFiniteSet(upto) /\ Cardinality(upto) <= Cardinality(batch) /\ Cardinality(upto) \in Nat
  BY <1>1, FS_Subset, FS_CardinalityType
<1>3. u \in upto
  OBVIOUS
<1>4. Cardinality(upto) # 0
  BY <1>2, <1>3, FS_EmptySet
<1> QED
  BY <1>1, <1>2, <1>4 DEF Turn

-----------------------------------------------------------------------------
(* Accrual.                                                                *)

\* What no transaction changes of a draw once it is open.
SameWindow(new, old) ==
  /\ new.periodStart = old.periodStart /\ new.snapshotAt = old.snapshotAt /\ new.r = old.r
  /\ new.totalWeight = old.totalWeight /\ new.solvent = old.solvent

\* Each account of a batch is paid its credit in full or not at all, out of a
\* reserve that never grows.
LEMMA ReserveRunsPay ==
  ASSUME TypeOK, KeccakAssumption, NEW d \in 1..MaxDraws, NEW batch \in SUBSET Users,
         NEW credit \in [batch -> Nat], NEW turn, turn = [u \in batch |-> Turn(d, batch, u)],
         NEW left \in ReserveRuns(credit, turn)
  PROVE  /\ left[Cardinality(batch)] \in 0..reserve
         /\ \A u \in batch : /\ left[turn[u] - 1] - left[turn[u]] \in Nat
                             /\ left[turn[u] - 1] - left[turn[u]] \in {0, credit[u]}
<1>1. Cardinality(batch) \in Nat
  BY Parameters, FS_Subset, FS_CardinalityType
<1>2. reserve \in Nat
  BY DEF TypeOK
<1>3. left \in [0..Cardinality(batch) -> 0..reserve]
  BY DEF ReserveRuns
<1>4. ASSUME NEW u \in batch
      PROVE  /\ left[turn[u] - 1] - left[turn[u]] \in Nat
             /\ left[turn[u] - 1] - left[turn[u]] \in {0, credit[u]}
  <2>1. turn[u] \in 1..Cardinality(batch)
    BY TurnType
  <2>2. left[turn[u] - 1] \in Nat /\ credit[u] \in Nat
    BY <1>1, <1>2, <1>3, <2>1
  <2>3. left[turn[u]] = TryDecrease(left[turn[u] - 1], credit[u])
    BY DEF ReserveRuns
  <2> QED BY <2>2, <2>3 DEF TryDecrease
<1> QED
  BY <1>1, <1>3, <1>4

\* A draw with the effects of a batch written into it.
WithBatch(d, batch, w, cl, pd) ==
  [draws[d] EXCEPT !.accrued = @ \cup batch, !.cumAt = w, !.cleared = cl, !.paid = pd]

LEMMA SettledDraw ==
  ASSUME TypeOK, NEW d \in DOMAIN draws, NEW batch \in SUBSET Users,
         NEW w \in [Users -> Int], NEW cl \in [Users -> Nat], NEW pd \in [Users -> Nat]
  PROVE  /\ WithBatch(d, batch, w, cl, pd) \in DrawRecord
         /\ SameWindow(WithBatch(d, batch, w, cl, pd), draws[d])
         /\ WithBatch(d, batch, w, cl, pd).status = draws[d].status
         /\ WithBatch(d, batch, w, cl, pd).cumAt = w
         /\ WithBatch(d, batch, w, cl, pd).cleared = cl
<1>1. draws[d] \in DrawRecord
  BY DrawFields
<1>2. PICK r : r = WithBatch(d, batch, w, cl, pd)
  OBVIOUS
<1>3. r = [draws[d] EXCEPT !.accrued = @ \cup batch, !.cumAt = w, !.cleared = cl, !.paid = pd]
  BY <1>2 DEF WithBatch
<1>4. r \in DrawRecord
  BY <1>1, <1>3 DEF DrawRecord
<1>5. r.status = draws[d].status /\ r.cumAt = w /\ r.cleared = cl
  BY <1>1, <1>3 DEF DrawRecord
<1>6. SameWindow(r, draws[d])
  BY <1>1, <1>3 DEF DrawRecord, SameWindow
<1> QED
  BY <1>2, <1>4, <1>5, <1>6

\* What a batch leaves: the same windows, entries of the cache as the record reads,
\* and prizes as Credit awards them.
LEMMA SettleStep ==
  ASSUME TypeOK, KeccakAssumption, WindowsInOrder, CacheMatchesRecord, RecordsSound,
         NEW d \in DOMAIN draws, NEW batch \in SUBSET Users, Settle(d, batch)
  PROVE  /\ draws' \in Seq(DrawRecord) /\ Len(draws') = Len(draws) /\ DOMAIN draws' = DOMAIN draws
         /\ \A i \in DOMAIN draws : SameWindow(draws'[i], draws[i]) /\ draws'[i].status = draws[i].status
         /\ \A i \in DOMAIN draws, u \in Users :
              draws'[i].cumAt[u] \in {draws[i].cumAt[u], SnapshotCumulative(u, i)}
         /\ \A i \in DOMAIN draws, u \in Users :
              draws'[i].cleared[u] \in {draws[i].cleared[u], Credit(u, i)}
         /\ reserve' \in Nat
         /\ pending' \in [Users -> Nat] /\ winnings' \in [Users -> Nat]
<1> DEFINE credit == [u \in batch |-> Credit(u, d)]
           turn == [u \in batch |-> Turn(d, batch, u)]
           warm(i) == [u \in Users |-> IF u \in batch THEN SnapshotCumulative(u, i)
                                                      ELSE draws[i].cumAt[u]]
<1>1. PICK left \in ReserveRuns(credit, turn) :
        LET paidTo == [u \in batch |-> left[turn[u] - 1] - left[turn[u]]]
            paidInto(f) == [u \in Users |-> IF u \in batch THEN TryAdd(f[u], paidTo[u]) ELSE f[u]]
            settled == [draws[d] EXCEPT
              !.accrued = @ \cup batch,
              !.cumAt   = warm(d),
              !.cleared = [u \in Users |-> IF u \in batch THEN credit[u] ELSE @[u]],
              !.paid    = [u \in Users |-> IF u \in batch THEN paidTo[u] ELSE @[u]]]
        IN /\ draws' = [i \in DOMAIN draws |->
                IF i = d THEN settled
                ELSE IF i = d - 1 /\ StartsAtPredecessor(d)
                  THEN [draws[i] EXCEPT !.cumAt = warm(i)]
                  ELSE draws[i]]
           /\ reserve' = ReserveAfter(left, batch)
           /\ pending' = paidInto(pending)
           /\ winnings' = paidInto(winnings)
  BY DEF Settle
<1>2. d \in 1..MaxDraws /\ Len(draws) \in Nat /\ DOMAIN draws = 1..Len(draws)
  BY Parameters, DrawFields DEF WindowsInOrder
<1>3. credit \in [batch -> Nat] /\ \A u \in batch : credit[u] = Credit(u, d)
  BY CreditType
<1> DEFINE paidTo == [u \in batch |-> left[turn[u] - 1] - left[turn[u]]]
<1>4. /\ left[Cardinality(batch)] \in 0..reserve
      /\ \A u \in batch : paidTo[u] \in Nat
  <2> HIDE DEF credit
  <2> QED BY <1>2, <1>3, ReserveRunsPay
<1>5. reserve' \in Nat
  <2>1. reserve' = left[Cardinality(batch)]
    BY <1>1 DEF ReserveAfter
  <2>2. reserve \in Nat
    BY DEF TypeOK
  <2> QED BY <1>4, <2>1, <2>2
<1>6. ASSUME NEW f \in [Users -> Nat]
      PROVE  [u \in Users |-> IF u \in batch THEN TryAdd(f[u], paidTo[u]) ELSE f[u]] \in [Users -> Nat]
  <2> HIDE DEF paidTo
  <2> QED BY <1>4, ArithmeticTypes
<1>7. pending' \in [Users -> Nat] /\ winnings' \in [Users -> Nat]
  BY <1>1, <1>6 DEF TypeOK
<1>8. ASSUME NEW i \in DOMAIN draws, NEW u \in Users
      PROVE  SnapshotCumulative(u, i) \in Int
  BY CacheReads DEF Inductive
<1>9. ASSUME NEW i \in DOMAIN draws PROVE warm(i) \in [Users -> Int]
  BY <1>8, DrawFields
<1> DEFINE settled == [draws[d] EXCEPT
             !.accrued = @ \cup batch,
             !.cumAt   = warm(d),
             !.cleared = [u \in Users |-> IF u \in batch THEN credit[u] ELSE @[u]],
             !.paid    = [u \in Users |-> IF u \in batch THEN paidTo[u] ELSE @[u]]]
<1>10. \A i \in DOMAIN draws : draws'[i] =
         IF i = d THEN settled
         ELSE IF i = d - 1 /\ StartsAtPredecessor(d)
           THEN [draws[i] EXCEPT !.cumAt = warm(i)]
           ELSE draws[i]
  BY <1>1
<1> DEFINE cl == [u \in Users |-> IF u \in batch THEN credit[u] ELSE draws[d].cleared[u]]
           pd == [u \in Users |-> IF u \in batch THEN paidTo[u] ELSE draws[d].paid[u]]
<1>12. cl \in [Users -> Nat] /\ pd \in [Users -> Nat]
  <2> HIDE DEF credit, paidTo
  <2> QED BY <1>3, <1>4, DrawFields
<1>13. settled = WithBatch(d, batch, warm(d), cl, pd)
  BY DEF WithBatch
<1>14. /\ settled \in DrawRecord /\ SameWindow(settled, draws[d]) /\ settled.status = draws[d].status
       /\ settled.cumAt = warm(d) /\ settled.cleared = cl
  <2> DEFINE w == warm(d)
  <2>1. w \in [Users -> Int]
    BY <1>9
  <2>2. settled = WithBatch(d, batch, w, cl, pd)
    BY <1>13
  <2> HIDE DEF settled, cl, pd, w
  <2>3. /\ settled \in DrawRecord /\ SameWindow(settled, draws[d])
        /\ settled.status = draws[d].status /\ settled.cumAt = w /\ settled.cleared = cl
    BY <1>12, <2>1, <2>2, SettledDraw
  <2> QED BY <2>3 DEF w
<1>15. ASSUME NEW i \in DOMAIN draws, i # d
       PROVE  /\ draws'[i] \in DrawRecord /\ SameWindow(draws'[i], draws[i])
              /\ draws'[i].status = draws[i].status /\ draws'[i].cleared = draws[i].cleared
              /\ draws'[i].cumAt \in {draws[i].cumAt, warm(i)}
  <2> DEFINE w == warm(i)
  <2>1. w \in [Users -> Int]
    BY <1>9
  <2>2. draws'[i] = draws[i] \/ draws'[i] = [draws[i] EXCEPT !.cumAt = w]
    BY <1>10, <1>15
  <2> HIDE DEF w
  <2>3. /\ draws'[i] \in DrawRecord /\ SameWindow(draws'[i], draws[i])
        /\ draws'[i].status = draws[i].status /\ draws'[i].cleared = draws[i].cleared
        /\ draws'[i].cumAt \in {draws[i].cumAt, w}
    BY <2>1, <2>2, DrawFields DEF DrawRecord, SameWindow
  <2> QED BY <2>3 DEF w
<1>16. draws'[d] = settled
  BY <1>10
<1>17. draws' \in [DOMAIN draws -> DrawRecord]
  <2>1. \A i \in DOMAIN draws : draws'[i] \in DrawRecord
    <3> HIDE DEF settled
    <3> QED BY <1>14, <1>15, <1>16
  <2> QED BY <1>1, <2>1
<1>18. draws' \in Seq(DrawRecord) /\ Len(draws') = Len(draws) /\ DOMAIN draws' = DOMAIN draws
  BY <1>17, MappedSeq DEF TypeOK
<1>19. \A i \in DOMAIN draws : SameWindow(draws'[i], draws[i]) /\ draws'[i].status = draws[i].status
  <2> HIDE DEF settled
  <2> QED BY <1>14, <1>15, <1>16
<1>20. ASSUME NEW i \in DOMAIN draws, NEW u \in Users
       PROVE  draws'[i].cumAt[u] \in {draws[i].cumAt[u], SnapshotCumulative(u, i)}
  <2>1. draws'[i].cumAt \in {draws[i].cumAt, warm(i)}
    <3> HIDE DEF settled, warm
    <3> QED BY <1>14, <1>15, <1>16
  <2> QED BY <2>1
<1>21. ASSUME NEW i \in DOMAIN draws, NEW u \in Users
       PROVE  draws'[i].cleared[u] \in {draws[i].cleared[u], Credit(u, i)}
  <2>1. CASE i = d
    <3>1. draws'[i].cleared = cl
      <4> HIDE DEF settled, cl
      <4> QED BY <1>14, <1>16, <2>1
    <3> QED BY <1>3, <2>1, <3>1
  <2>2. CASE i # d
    BY <1>15, <2>2
  <2> QED BY <2>1, <2>2
<1> HIDE DEF settled, cl, pd, warm, credit, turn, paidTo
<1> QED
  BY <1>5, <1>7, <1>18, <1>19, <1>20, <1>21

-----------------------------------------------------------------------------
(* Types.                                                                  *)

LEMMA DivisionShrinks ==
  ASSUME NEW a \in Nat, NEW k \in Nat \ {0}
  PROVE  a \div k \in Nat /\ a \div k <= a
<1> DEFINE q == a \div k
           m == a % k
<1>1. q \in Int /\ m \in 0..(k - 1) /\ a = k * q + m
  OBVIOUS
<1> HIDE DEF q, m
<1>2. q >= 0
  <2>1. CASE q < 0
    <3>1. k * q <= -k
      <4>1. PICK n \in Nat : q = -1 - n
        <5>1. -1 - q \in Nat /\ q = -1 - (-1 - q)
          BY <1>1, <2>1
        <5> QED BY <5>1
      <4>2. k * q = -k - k * n /\ k * n \in Nat
        BY <4>1
      <4> QED BY <4>2
    <3> QED BY <1>1, <3>1
  <2> QED BY <1>1, <2>1
<1>3. q <= k * q
  <2>1. PICK j \in Nat : k = j + 1
    <3>1. k - 1 \in Nat /\ k = (k - 1) + 1
      OBVIOUS
    <3> QED BY <3>1
  <2>2. k * q = j * q + q /\ j * q \in Nat
    BY <1>1, <1>2, <2>1
  <2> QED BY <1>1, <1>2, <2>2
<1>4. q \in Nat /\ q <= a
  <2>1. k * q \in Int
    BY <1>1
  <2> QED BY <1>1, <1>2, <1>3, <2>1
<1> QED
  BY <1>4 DEF q

LEMMA RewardType ==
  ASSUME TypeOK, NEW due \in Nat
  PROVE  LivenessReward(due) \in Nat
<1>1. now \in Nat
  BY DEF TypeOK
<1>2. CASE now <= due
  BY <1>2 DEF LivenessReward
<1>3. CASE ~ (now <= due)
  <2>1. now - due \in Nat
    BY <1>1, <1>3
  <2>2. (now - due) * LivenessRate \in Nat /\ LivenessCap \in Nat
    BY <2>1, Parameters
  <2>3. LivenessReward(due) = MinOf((now - due) * LivenessRate, LivenessCap)
    BY <1>3 DEF LivenessReward
  <2> QED BY <2>2, <2>3, ArithmeticTypes
<1> QED
  BY <1>2, <1>3

\* A payment from the pot never takes it, or the pool's tokens, below zero.
LEMMA PotPayment ==
  ASSUME TypeOK, NEW owed \in Nat, PayFromPot(Keeper, owed)
  PROVE  feePot' \in Nat /\ tokens' \in [Accounts -> Nat]
<1> DEFINE paid == IF owed <= feePot THEN owed ELSE 0
<1>1. feePot \in Nat /\ paid \in Nat
  BY DEF TypeOK
<1>2. feePot' = TryDecrease(feePot, owed) /\ tokens' = After(Pool, Keeper, Moved(Pool, paid))
  BY DEF PayFromPot
<1> HIDE DEF paid
<1>3. Moved(Pool, paid) \in Nat /\ Moved(Pool, paid) <= tokens[Pool]
  BY <1>1, Parameters, MovedType
<1> QED
  BY <1>1, <1>2, <1>3, Parameters, ArithmeticTypes, AfterType

LEMMA PreviousMoment ==
  ASSUME TypeOK, WindowsInOrder
  PROVE  now \in Nat /\ Previous \in 0..now /\ Genesis <= Previous /\ Genesis \in Nat
<1>1. now \in Nat /\ now >= 1
  BY DEF TypeOK, WindowsInOrder, Genesis
<1>2. CASE draws = <<>>
  BY <1>1, <1>2 DEF Previous, Genesis
<1>3. CASE draws # <<>>
  <2>1. Len(draws) \in DOMAIN draws
    BY <1>3, EmptySeq, LenProperties DEF TypeOK
  <2> QED BY <1>1, <1>3, <2>1, DrawMoments, DrawFields DEF Previous, WindowsInOrder, Genesis
<1> QED
  BY <1>2, <1>3

\* The draw a keeper opens.
Opened(r) ==
  [periodStart |-> Previous, snapshotAt |-> now, status |-> "Open", r |-> r,
   totalWeight |-> CumulativeAt(totalObs, now) - CumulativeAt(totalObs, Previous),
   solvent |-> reserve >= tiers.prize[0] * SolvencyCover, accrued |-> {},
   cumAt |-> [u \in Users |-> Cold], cleared |-> [u \in Users |-> 0],
   paid |-> [u \in Users |-> 0]]

LEMMA OpenedType ==
  ASSUME TypeOK, WindowsInOrder, RecordsSound, NEW r \in Rand
  PROVE  /\ Opened(r) \in DrawRecord
         /\ Append(draws, Opened(r)) \in Seq(DrawRecord)
         /\ Len(draws) \in Nat /\ DOMAIN draws = 1..Len(draws)
         /\ Len(Append(draws, Opened(r))) = Len(draws) + 1
         /\ DOMAIN Append(draws, Opened(r)) = 1..(Len(draws) + 1)
         /\ \A d \in DOMAIN draws : Append(draws, Opened(r))[d] = draws[d]
         /\ Append(draws, Opened(r))[Len(draws) + 1] = Opened(r)
<1>1. IsRecord(totalObs, now)
  BY DEF RecordsSound
<1>2. now \in 0..now /\ now \in Nat /\ Previous \in 0..now
  BY PreviousMoment
<1>3. CumulativeAt(totalObs, now) \in Nat /\ CumulativeAt(totalObs, Previous) \in Nat
  BY <1>1, <1>2, CumulativeType
<1>4. Previous \in Nat /\ Cold \in Int
  BY <1>2 DEF Cold
<1>7. CumulativeAt(totalObs, now) - CumulativeAt(totalObs, Previous) \in Nat
  <2>1. CumulativeAt(totalObs, Previous) <= CumulativeAt(totalObs, now)
    BY <1>1, <1>2, CumulativeMonotone
  <2> QED BY <1>3, <2>1
<1>5. Opened(r) \in DrawRecord
  BY <1>2, <1>4, <1>7 DEF Opened, DrawRecord, Status
<1>6. draws \in Seq(DrawRecord)
  BY DEF TypeOK
<1> QED
  BY <1>5, <1>6

\* The part of TypeOK that is not the record.
RestTyped ==
  /\ draws \in Seq(DrawRecord)
  /\ pending \in [Users -> Nat] /\ winnings \in [Users -> Nat]
  /\ reserve \in Nat /\ feePot \in Nat
  /\ tiers \in [prize : [Tiers -> Nat], k : [Tiers -> Nat], setAt : Nat]
  /\ keeperFee \in Nat /\ renounced \in BOOLEAN
  /\ yieldSource \in Sources \cup {NoSource}
  /\ grant \in [Sources -> Nat] /\ lent \in [Sources -> Int]
  /\ tokens \in [Accounts -> Nat]

LEMMA RecordActionTypes ==
  ASSUME TypeOK, RecordsSound, Record
  PROVE  RestTyped'
<1>1. RestTyped
  BY DEF TypeOK, RestTyped
<1>2. ASSUME NEW u \in Users, NEW amount \in Amounts, Deposit(u, amount)
      PROVE  RestTyped'
  <2>1. u \in Accounts /\ amount \in Nat /\ Pool \in Accounts
    BY Parameters
  <2>2. Moved(u, amount) \in Nat /\ Moved(u, amount) <= tokens[u]
    BY <2>1, MovedType
  <2>3. tokens' \in [Accounts -> Nat]
    BY <1>2, <2>1, <2>2, HolderType, AfterType DEF Deposit
  <2>4. lent' \in [Sources -> Int]
    BY <1>1, <1>2, <2>2 DEF Deposit, RestTyped
  <2>5. pending' \in [Users -> Nat]
    BY <1>1, <1>2 DEF Deposit, RestTyped
  <2> QED BY <1>1, <1>2, <2>3, <2>4, <2>5 DEF Deposit, RestTyped, settings
<1>3. ASSUME NEW u \in Users, NEW amount \in Amounts, NEW sent, Withdraw(u, amount, sent)
      PROVE  RestTyped'
  <2>1. u \in Accounts /\ amount \in Nat
    BY Parameters
  <2>2. sent \in Nat /\ sent <= tokens[Holder]
    BY <1>3, <2>1, RequestType, RedeemedType DEF Withdraw
  <2>3. tokens' \in [Accounts -> Nat]
    BY <1>3, <2>1, <2>2, HolderType, AfterType DEF Withdraw
  <2>4. lent' \in [Sources -> Int]
    BY <1>1, <1>3, <2>2 DEF Withdraw, RestTyped
  <2>5. pending' \in [Users -> Nat]
    BY <1>1, <1>3 DEF Withdraw, RestTyped
  <2> QED BY <1>1, <1>3, <2>3, <2>4, <2>5 DEF Withdraw, RestTyped, settings
<1>4. ASSUME NEW u \in Users, Claim(u)
      PROVE  RestTyped'
  BY <1>1, <1>4 DEF Claim, RestTyped, settings
<1> QED
  BY <1>2, <1>3, <1>4 DEF Record

LEMMA DrawingActionTypes ==
  ASSUME Inductive, KeccakAssumption, Drawing
  PROVE  RestTyped'
<1> USE DEF Inductive
<1>1. RestTyped
  BY DEF TypeOK, RestTyped
<1>2. ASSUME NEW r \in Rand, OpenDraw(Keeper, r)
      PROVE  RestTyped'
  <2>1. draws' = Append(draws, Opened(r))
    BY <1>2 DEF OpenDraw, Opened
  <2>2. draws' \in Seq(DrawRecord)
    BY <2>1, OpenedType
  <2>3. Previous + MinPeriod \in Nat
    BY PreviousMoment, Parameters
  <2>4. feePot' \in Nat /\ tokens' \in [Accounts -> Nat]
    BY <1>2, <2>3, RewardType, PotPayment DEF OpenDraw
  <2> QED BY <1>1, <1>2, <2>2, <2>4 DEF OpenDraw, RestTyped, settings, prizes
<1>3. ASSUME NEW d \in DOMAIN draws, NEW s \in Status, draws' = [draws EXCEPT ![d].status = s]
      PROVE  draws' \in Seq(DrawRecord)
  <2>1. d \in 1..Len(draws) /\ [draws[d] EXCEPT !.status = s] \in DrawRecord
    <3>1. d \in 1..Len(draws) /\ draws[d] \in DrawRecord
      BY DrawFields
    <3> QED BY <3>1 DEF DrawRecord
  <2>2. draws' = [draws EXCEPT ![d] = [draws[d] EXCEPT !.status = s]]
    BY <1>3
  <2> QED BY <1>1, <2>1, <2>2, ExceptSeq DEF RestTyped
<1>4. ASSUME NEW d \in DOMAIN draws, RevealDraw(Keeper, d)
      PROVE  RestTyped'
  <2>1. draws' \in Seq(DrawRecord)
    BY <1>3, <1>4 DEF RevealDraw, Status
  <2>2. feePot' \in Nat /\ tokens' \in [Accounts -> Nat]
    BY <1>4, DrawFields, RewardType, PotPayment DEF RevealDraw
  <2> QED BY <1>1, <1>4, <2>1, <2>2 DEF RevealDraw, RestTyped, settings, prizes
<1>5. ASSUME NEW d \in DOMAIN draws, CancelDraw(d)
      PROVE  RestTyped'
  <2>1. draws' \in Seq(DrawRecord)
    BY <1>3, <1>5 DEF CancelDraw, Status
  <2> QED BY <1>1, <1>5, <2>1 DEF CancelDraw, RestTyped, settings, prizes
<1>6. ASSUME NEW d \in DOMAIN draws, NEW u \in Users, Accrue(u, d)
      PROVE  RestTyped'
  <2>1. /\ draws' \in Seq(DrawRecord) /\ reserve' \in Nat
        /\ pending' \in [Users -> Nat] /\ winnings' \in [Users -> Nat]
    BY <1>6, SettleStep DEF Accrue
  <2> QED BY <1>1, <1>6, <2>1 DEF Accrue, RestTyped, settings
<1>7. ASSUME NEW d \in DOMAIN draws, NEW batch \in SUBSET Users, AccrueMany(Keeper, batch, d)
      PROVE  RestTyped'
  <2>1. /\ draws' \in Seq(DrawRecord) /\ reserve' \in Nat
        /\ pending' \in [Users -> Nat] /\ winnings' \in [Users -> Nat]
    <3>1. Unsettled(batch, d) \in SUBSET Users
      BY DEF Unsettled
    <3> QED BY <1>7, <3>1, SettleStep DEF AccrueMany
  <2>2. feePot' \in Nat /\ tokens' \in [Accounts -> Nat]
    BY <1>1, <1>7, PotPayment DEF AccrueMany, RestTyped
  <2> QED BY <1>1, <1>7, <2>1, <2>2 DEF AccrueMany, RestTyped, settings
<1> QED
  BY <1>2, <1>4, <1>5, <1>6, <1>7 DEF Drawing

LEMMA OtherActionTypes ==
  ASSUME TypeOK, Tick \/ Funding \/ Configuring \/ UNCHANGED vars
  PROVE  RestTyped'
<1>1. RestTyped /\ now \in Nat
  BY DEF TypeOK, RestTyped
<1>2. CASE Tick \/ UNCHANGED vars
  BY <1>1, <1>2 DEF Tick, vars, RestTyped, settings, prizes
<1>3. ASSUME NEW amount \in Amounts, FundReserve(Keeper, amount) \/ FundFeePot(Keeper, amount)
      PROVE  RestTyped'
  <2>1. amount \in Nat /\ Keeper \in Accounts /\ Pool \in Accounts
    BY Parameters
  <2>2. Moved(Keeper, amount) \in Nat /\ Moved(Keeper, amount) <= tokens[Keeper]
    BY <2>1, MovedType
  <2>3. tokens' \in [Accounts -> Nat]
    BY <1>3, <2>1, <2>2, AfterType DEF FundReserve, FundFeePot
  <2>4. reserve' \in Nat /\ feePot' \in Nat
    <3> DEFINE more == Moved(Keeper, amount)
    <3>1. more \in Nat /\ reserve \in Nat /\ feePot \in Nat
      BY <1>1, <2>2 DEF RestTyped
    <3>2. /\ reserve' = TryAdd(reserve, more) \/ reserve' = reserve
          /\ feePot' = TryAdd(feePot, more) \/ feePot' = feePot
      BY <1>3 DEF FundReserve, FundFeePot, prizes
    <3> HIDE DEF more
    <3>3. TryAdd(reserve, more) \in Nat /\ TryAdd(feePot, more) \in Nat
      BY <3>1, ArithmeticTypes
    <3> QED BY <3>1, <3>2, <3>3
  <2> QED BY <1>1, <1>3, <2>3, <2>4 DEF FundReserve, FundFeePot, RestTyped, settings, prizes
<1>4. ASSUME NEW got \in Nat, Harvest(got)
      PROVE  RestTyped'
  <2>1. got <= tokens[yieldSource] /\ yieldSource \in Accounts /\ Pool \in Accounts
    BY <1>1, <1>4, HolderType, Parameters DEF Harvest, RestTyped
  <2>2. tokens' \in [Accounts -> Nat]
    BY <1>4, <2>1, AfterType DEF Harvest
  <2> DEFINE fee == got \div FeeShareDivisor
  <2>3. fee \in Nat /\ got - fee \in Nat
    BY Parameters, DivisionShrinks
  <2>4. reserve' = TryAdd(reserve, got - fee) /\ feePot' = TryAdd(feePot, fee)
    BY <1>4 DEF Harvest
  <2> HIDE DEF fee
  <2>5. reserve' \in Nat /\ feePot' \in Nat
    BY <1>1, <2>3, <2>4, ArithmeticTypes DEF RestTyped
  <2> QED BY <1>1, <1>4, <2>2, <2>5 DEF Harvest, RestTyped, settings
<1>5. ASSUME NEW s \in Sources \cup {NoSource}, SetYieldSource(s)
      PROVE  RestTyped'
  <2>1. now + SourceOperatorWindow \in Nat
    BY <1>1, Parameters
  <2>2. grant' \in [Sources -> Nat]
    BY <1>1, <1>5, <2>1 DEF SetYieldSource, RestTyped
  <2> QED BY <1>1, <1>5, <2>2 DEF SetYieldSource, RestTyped, prizes
<1>6. ASSUME NEW table \in TierTables, SetTiers(table)
      PROVE  RestTyped'
  <2>1. table.prize \in [Tiers -> Nat] /\ table.k \in [Tiers -> Nat]
    BY Parameters
  <2>2. tiers' \in [prize : [Tiers -> Nat], k : [Tiers -> Nat], setAt : Nat]
    BY <1>1, <1>6, <2>1 DEF SetTiers
  <2> QED BY <1>1, <1>6, <2>2 DEF SetTiers, RestTyped, prizes
<1>7. ASSUME NEW fee \in KeeperFees, SetKeeperFee(fee)
      PROVE  RestTyped'
  BY <1>1, <1>7, Parameters DEF SetKeeperFee, RestTyped, prizes
<1>8. CASE RenounceOwnership
  BY <1>1, <1>8 DEF RenounceOwnership, RestTyped, prizes
<1>9. CASE Funding
  BY <1>3, <1>4, <1>9, Parameters DEF Funding
<1>10. CASE Configuring
  BY <1>5, <1>6, <1>7, <1>8, <1>10 DEF Configuring
<1> QED
  BY <1>2, <1>9, <1>10

LEMMA TypeStep ==
  ASSUME Inductive, [Next]_vars
  PROVE  TypeOK'
<1>1. TypeOK /\ RecordsSound
  BY DEF Inductive
<1>2. RestTyped'
  BY <1>1, KeccakAssumption, RecordActionTypes, DrawingActionTypes, OtherActionTypes DEF Next
<1>3. now' \in Nat /\ userObs' \in [Users -> Seq(Observation)] /\ totalObs' \in Seq(Observation)
  BY <1>1, RecordStep
<1> QED
  BY <1>2, <1>3 DEF TypeOK, RestTyped

-----------------------------------------------------------------------------
(* The draws across a transaction.                                         *)

\* A draw is opened, or the draws there are keep their windows, advance from
\* open, and have cache entries and prizes written as accrual reads them.
OpenedNext ==
  /\ Len(draws) < MaxDraws /\ (draws # <<>> => LastStatus \in {"Revealed", "Cancelled"})
  /\ now' = now /\ Len(draws') = Len(draws) + 1 /\ DOMAIN draws' = 1..(Len(draws) + 1)
  /\ \A d \in DOMAIN draws : draws'[d] = draws[d]
  /\ \E r \in Rand : draws'[Len(draws) + 1] = Opened(r)

KeptDraw(new, d) ==
  /\ SameWindow(new, draws[d])
  /\ new.status = draws[d].status \/ (draws[d].status = "Open" /\ new.status # "Open")
  /\ \A u \in Users : /\ new.cumAt[u] \in {draws[d].cumAt[u], SnapshotCumulative(u, d)}
                      /\ new.cleared[u] \in {draws[d].cleared[u], Credit(u, d)}

KeptAll ==
  /\ Len(draws') = Len(draws) /\ DOMAIN draws' = DOMAIN draws
  /\ \A d \in DOMAIN draws : KeptDraw(draws'[d], d)

LEMMA OpenedCase ==
  ASSUME Inductive, NEW r \in Rand, OpenDraw(Keeper, r)
  PROVE  OpenedNext
<1>1. draws' = Append(draws, Opened(r)) /\ now' = now /\ Len(draws) < MaxDraws
      /\ (draws # <<>> => LastStatus \in {"Revealed", "Cancelled"})
  BY DEF OpenDraw, Opened
<1> QED
  BY <1>1, OpenedType DEF Inductive, OpenedNext

LEMMA AdvancedCase ==
  ASSUME Inductive, NEW d \in DOMAIN draws, RevealDraw(Keeper, d) \/ CancelDraw(d)
  PROVE  KeptAll
<1>1. PICK s \in {"Revealed", "Cancelled"} :
        draws[d].status = "Open" /\ draws' = [draws EXCEPT ![d].status = s]
  BY DEF RevealDraw, CancelDraw
<1>2. draws \in Seq(DrawRecord)
  BY DEF Inductive, TypeOK
<1>3. Len(draws') = Len(draws) /\ DOMAIN draws' = DOMAIN draws
  BY <1>1, <1>2
<1>4. ASSUME NEW i \in DOMAIN draws PROVE KeptDraw(draws'[i], i)
  <2>1. draws[i] \in DrawRecord /\ (draws'[i] = draws[i] \/ (i = d /\ draws'[i] = [draws[i] EXCEPT !.status = s]))
    BY <1>1, <1>2
  <2> QED BY <1>1, <2>1 DEF KeptDraw, SameWindow, DrawRecord
<1> QED
  BY <1>3, <1>4 DEF KeptAll

LEMMA SettledCase ==
  ASSUME Inductive, NEW d \in DOMAIN draws, NEW batch \in SUBSET Users, Settle(d, batch)
  PROVE  KeptAll
BY SettleStep, KeccakAssumption DEF Inductive, KeptAll, KeptDraw

\* Every step is one of these.
LEMMA DrawsStep ==
  ASSUME Inductive, [Next]_vars
  PROVE  OpenedNext \/ KeptAll
<1>1. CASE UNCHANGED draws
  BY <1>1 DEF KeptAll, KeptDraw, SameWindow
<1>2. CASE Drawing
  <2>1. CASE \E r \in Rand : OpenDraw(Keeper, r)
    BY <2>1, OpenedCase
  <2>2. ASSUME NEW d \in DOMAIN draws, NEW u \in Users, Accrue(u, d)
        PROVE  KeptAll
    <3>1. {u} \in SUBSET Users
      OBVIOUS
    <3> QED BY <2>2, <3>1, SettledCase DEF Accrue
  <2>3. ASSUME NEW d \in DOMAIN draws, NEW batch \in SUBSET Users, AccrueMany(Keeper, batch, d)
        PROVE  KeptAll
    <3>1. Unsettled(batch, d) \in SUBSET Users
      BY DEF Unsettled
    <3> QED BY <2>3, <3>1, SettledCase DEF AccrueMany
  <2> QED BY <1>2, <2>1, <2>2, <2>3, AdvancedCase DEF Drawing
<1>3. CASE Record
  BY <1>1, <1>3 DEF Record, Deposit, Withdraw, Claim
<1>4. CASE Funding
  BY <1>1, <1>4 DEF Funding, FundReserve, FundFeePot, Harvest
<1>5. CASE Configuring
  BY <1>1, <1>5 DEF Configuring, SetYieldSource, SetTiers, SetKeeperFee, RenounceOwnership
<1> QED
  BY <1>1, <1>2, <1>3, <1>4, <1>5 DEF Next, Tick, vars

LEMMA WindowsStep ==
  ASSUME Inductive, [Next]_vars
  PROVE  WindowsInOrder'
<1>1. TypeOK /\ WindowsInOrder /\ RecordsSound /\ now \in Nat /\ now' \in Nat /\ now <= now'
  BY RecordStep DEF Inductive, TypeOK
<1>2. Len(draws) \in Nat /\ DOMAIN draws = 1..Len(draws)
  BY <1>1, LenProperties DEF TypeOK
<1>3. \A d \in DOMAIN draws :
        /\ Genesis <= draws[d].periodStart /\ draws[d].periodStart <= draws[d].snapshotAt
        /\ draws[d].snapshotAt <= now
        /\ draws[d].periodStart \in Nat /\ draws[d].snapshotAt \in Nat
        /\ d # Len(draws) => draws[d].status # "Open"
        /\ StartsAtPredecessor(d) => draws[d].periodStart = draws[d - 1].snapshotAt
  BY <1>1, DrawFields DEF WindowsInOrder
<1>4. now >= Genesis /\ Genesis \in Nat /\ Len(draws) <= MaxDraws /\ MaxDraws \in Nat
  BY <1>1, Parameters DEF WindowsInOrder, Genesis
<1>5. CASE KeptAll
  <2>1. Len(draws') = Len(draws) /\ DOMAIN draws' = DOMAIN draws
    BY <1>5 DEF KeptAll
  <2>2. ASSUME NEW d \in DOMAIN draws
        PROVE  /\ SameWindow(draws'[d], draws[d])
               /\ draws'[d].status = draws[d].status
                  \/ (draws[d].status = "Open" /\ draws'[d].status # "Open")
    BY <1>5 DEF KeptAll, KeptDraw
  <2>3. ASSUME NEW d \in DOMAIN draws, StartsAtPredecessor(d)'
        PROVE  draws'[d].periodStart = draws'[d - 1].snapshotAt
    <3>1. d > 1 /\ draws'[d - 1].status = "Revealed" /\ d - 1 \in DOMAIN draws /\ d - 1 # Len(draws)
      BY <1>2, <2>3 DEF StartsAtPredecessor
    <3>2. StartsAtPredecessor(d)
      BY <1>3, <2>2, <3>1 DEF StartsAtPredecessor
    <3> QED BY <1>3, <2>2, <3>1, <3>2 DEF SameWindow
  <2>4. ASSUME NEW d \in DOMAIN draws
        PROVE  /\ Genesis <= draws'[d].periodStart /\ draws'[d].periodStart <= draws'[d].snapshotAt
               /\ draws'[d].snapshotAt <= now'
               /\ d # Len(draws) => draws'[d].status # "Open"
    <3>1. draws'[d].periodStart = draws[d].periodStart /\ draws'[d].snapshotAt = draws[d].snapshotAt
      BY <2>2 DEF SameWindow
    <3>2. draws[d].snapshotAt <= now'
      BY <1>1, <1>3
    <3>3. d # Len(draws) => draws'[d].status # "Open"
      BY <1>3, <2>2
    <3> QED BY <1>3, <3>1, <3>2, <3>3
  <2>5. Genesis' = Genesis /\ now' >= Genesis /\ Len(draws') <= MaxDraws
    BY <1>1, <1>4, <2>1 DEF Genesis
  <2> QED BY <2>1, <2>3, <2>4, <2>5 DEF WindowsInOrder
<1>6. CASE OpenedNext
  <2>1. PICK r \in Rand : draws'[Len(draws) + 1] = Opened(r)
    BY <1>6 DEF OpenedNext
  <2>2. /\ now' = now /\ Len(draws') = Len(draws) + 1 /\ DOMAIN draws' = 1..(Len(draws) + 1)
        /\ Len(draws') <= MaxDraws
        /\ \A d \in DOMAIN draws : draws'[d] = draws[d]
    BY <1>2, <1>4, <1>6 DEF OpenedNext
  <2>3. /\ draws'[Len(draws) + 1].periodStart = Previous
        /\ draws'[Len(draws) + 1].snapshotAt = now
    BY <2>1 DEF Opened
  <2>4. Genesis <= Previous /\ Previous <= now
    BY <1>1, PreviousMoment
  <2>5. ASSUME NEW d \in DOMAIN draws
        PROVE  draws'[d].status # "Open" /\ (StartsAtPredecessor(d)' <=> StartsAtPredecessor(d))
    <3>1. draws[d].status # "Open"
      <4>1. CASE d = Len(draws)
        <5>1. draws # <<>>
          BY <1>2
        <5> QED BY <1>6, <4>1, <5>1 DEF OpenedNext, LastStatus
      <4> QED BY <1>3, <4>1
    <3>2. d > 1 => draws'[d - 1] = draws[d - 1]
      BY <1>2, <2>2
    <3> QED BY <2>2, <3>1, <3>2 DEF StartsAtPredecessor
  <2>6. ASSUME NEW n \in Nat, n = Len(draws) + 1, StartsAtPredecessor(n)'
        PROVE  Previous = draws'[n - 1].snapshotAt
    <3>1. n - 1 = Len(draws) /\ n > 1 /\ draws'[n - 1].status = "Revealed"
      BY <1>2, <2>6 DEF StartsAtPredecessor
    <3>2. n - 1 \in DOMAIN draws /\ draws # <<>>
      BY <1>2, <2>6, <3>1
    <3>3. LastStatus = "Revealed"
      BY <2>2, <3>1, <3>2 DEF LastStatus
    <3> QED BY <2>2, <3>1, <3>2, <3>3 DEF Previous
  <2>7. ASSUME NEW d \in DOMAIN draws'
        PROVE  /\ Genesis <= draws'[d].periodStart /\ draws'[d].periodStart <= draws'[d].snapshotAt
               /\ draws'[d].snapshotAt <= now'
               /\ d # Len(draws') => draws'[d].status # "Open"
               /\ StartsAtPredecessor(d)' => draws'[d].periodStart = draws'[d - 1].snapshotAt
    <3>1. CASE d \in DOMAIN draws
      <4>1. d > 1 => draws'[d - 1] = draws[d - 1]
        BY <1>2, <2>2, <3>1
      <4> QED BY <1>3, <2>2, <2>5, <3>1, <4>1 DEF StartsAtPredecessor
    <3>2. CASE d = Len(draws) + 1
      <4>1. d \in Nat /\ d = Len(draws')
        BY <1>2, <2>2, <3>2
      <4>2. draws'[d].periodStart = Previous /\ draws'[d].snapshotAt = now'
        BY <2>2, <2>3, <3>2
      <4>3. StartsAtPredecessor(d)' => Previous = draws'[d - 1].snapshotAt
        BY <2>6, <3>2, <4>1
      <4> QED BY <1>1, <2>2, <2>4, <4>1, <4>2, <4>3
    <3> QED BY <1>2, <2>2, <2>7, <3>1, <3>2
  <2> QED BY <1>4, <2>2, <2>7 DEF WindowsInOrder, Genesis
<1> QED
  BY <1>5, <1>6, DrawsStep

LEMMA CacheStep ==
  ASSUME Inductive, [Next]_vars
  PROVE  CacheMatchesRecord'
<1>1. TypeOK /\ RecordsSound /\ WindowsInOrder /\ CacheMatchesRecord
  BY DEF Inductive
<1>2. \A u \in Users : \A t \in 0..now : CumulativeAt(userObs'[u], t) = CumulativeAt(userObs[u], t)
  BY <1>1, RecordStep
<1>3. Len(draws) \in Nat /\ DOMAIN draws = 1..Len(draws)
  BY <1>1, LenProperties DEF TypeOK
<1>4. ASSUME NEW d \in DOMAIN draws, NEW u \in Users,
             draws'[d].snapshotAt = draws[d].snapshotAt,
             draws'[d].cumAt[u] \in {draws[d].cumAt[u], SnapshotCumulative(u, d)},
             draws'[d].cumAt[u] # Cold
      PROVE  draws'[d].cumAt[u] = CumulativeAt(userObs'[u], draws'[d].snapshotAt)
  <2>1. draws'[d].cumAt[u] = CumulativeAt(userObs[u], draws[d].snapshotAt)
    BY <1>1, <1>4, CacheReads DEF CacheMatchesRecord
  <2> QED BY <1>1, <1>2, <1>4, <2>1, DrawMoments
<1>5. CASE KeptAll
  BY <1>4, <1>5 DEF KeptAll, KeptDraw, SameWindow, CacheMatchesRecord
<1>6. CASE OpenedNext
  <2>1. PICK r \in Rand : draws'[Len(draws) + 1] = Opened(r)
    BY <1>6 DEF OpenedNext
  <2>2. \A u \in Users : draws'[Len(draws) + 1].cumAt[u] = Cold
    BY <2>1 DEF Opened
  <2>3. /\ DOMAIN draws' = 1..(Len(draws) + 1)
        /\ \A d \in DOMAIN draws : draws'[d] = draws[d]
    BY <1>6 DEF OpenedNext
  <2> SUFFICES ASSUME NEW d \in DOMAIN draws', NEW u \in Users, draws'[d].cumAt[u] # Cold
               PROVE  draws'[d].cumAt[u] = CumulativeAt(userObs'[u], draws'[d].snapshotAt)
    BY DEF CacheMatchesRecord
  <2>4. d \in DOMAIN draws
    BY <1>3, <2>2, <2>3
  <2> QED BY <1>4, <2>3, <2>4
<1> QED
  BY <1>5, <1>6, DrawsStep

LEMMA InitInductive ==
  ASSUME Init
  PROVE  Inductive
<1>1. /\ DOMAIN draws = {} /\ Len(draws) = 0
      /\ draws \in Seq(DrawRecord) /\ totalObs \in Seq(Observation)
  BY DEF Init
<1>2. now \in Nat /\ now >= Genesis
  BY DEF Init, Genesis
<1>3. TypeOK
  <2>1. tokens \in [Accounts -> Nat]
    <3>1. Supply \in Nat
      BY Parameters
    <3> QED BY <3>1 DEF Init
  <2>2. userObs \in [Users -> Seq(Observation)] /\ lent \in [Sources -> Int]
    BY DEF Init
  <2>3. /\ pending \in [Users -> Nat] /\ winnings \in [Users -> Nat] /\ grant \in [Sources -> Nat]
        /\ tiers \in [prize : [Tiers -> Nat], k : [Tiers -> Nat], setAt : Nat]
    BY DEF Init
  <2>4. reserve \in Nat /\ feePot \in Nat /\ keeperFee \in Nat /\ renounced \in BOOLEAN
        /\ yieldSource \in Sources \cup {NoSource}
    BY DEF Init
  <2> QED BY <1>1, <1>2, <2>1, <2>2, <2>3, <2>4 DEF TypeOK
<1>4. RecordsSound
  <2>1. totalObs = <<>> /\ \A u \in Users : userObs[u] = <<>>
    BY DEF Init
  <2> QED BY <1>2, <2>1, EmptyIsRecord DEF RecordsSound
<1>5. WindowsInOrder /\ CacheMatchesRecord
  BY <1>1, <1>2, Parameters DEF WindowsInOrder, CacheMatchesRecord
<1> QED
  BY <1>3, <1>4, <1>5 DEF Inductive

\* Every transaction keeps it.
LEMMA InductiveStep ==
  ASSUME Inductive, [Next]_vars
  PROVE  Inductive'
<1>1. RecordsSound'
  BY RecordStep DEF Inductive
<1> QED
  BY <1>1, TypeStep, WindowsStep, CacheStep DEF Inductive

-----------------------------------------------------------------------------
(* What always holds.                                                      *)

\* Whatever is deposited, withdrawn, opened, cancelled, accrued or configured, in
\* any order and number: the types, sorted records with consistent cumulatives
\* (_push), windows in order (openDraw) and a cache that is the record's own read.
THEOREM InductiveHolds == Spec => []Inductive
<1>1. Init => Inductive
  BY InitInductive
<1>2. Inductive /\ [Next]_vars => Inductive'
  BY InductiveStep
<1> QED
  BY <1>1, <1>2, PTL DEF Spec

\* Every variable keeps to its declaration.
THEOREM TypesHold == Spec => []TypeOK
<1>1. Inductive => TypeOK
  BY DEF Inductive
<1> QED
  BY <1>1, InductiveHolds, PTL

\* The cache (_cumAt, _windowStart) never changes a weight.
THEOREM CacheChangesNothing == Spec => []CacheIsTransparent
<1>1. Inductive => CacheIsTransparent
  BY CacheReads DEF CacheIsTransparent
<1> QED
  BY <1>1, InductiveHolds, PTL

-----------------------------------------------------------------------------
(* Weights.                                                                *)

\* No transaction changes an account's weight in a draw, or the draw's window,
\* randomness and published total.
LEMMA WeightsStay ==
  ASSUME Inductive, CacheIsTransparent, CacheIsTransparent', [Next]_vars,
         NEW d \in DOMAIN draws, NEW u \in Users
  PROVE  /\ AccrualWeight(u, d)' = AccrualWeight(u, d)
         /\ d \in DOMAIN draws' /\ SameWindow(draws'[d], draws[d])
<1>1. d \in DOMAIN draws' /\ SameWindow(draws'[d], draws[d])
  <2>1. CASE KeptAll
    BY <2>1 DEF KeptAll, KeptDraw
  <2>2. CASE OpenedNext
    <3>1. d \in 1..(Len(draws) + 1)
      BY DrawFields DEF Inductive
    <3> QED BY <2>2, <3>1 DEF OpenedNext, SameWindow
  <2> QED BY <2>1, <2>2, DrawsStep
<1>2. AccrualWeight(u, d) = WeightFor(u, d) /\ AccrualWeight(u, d)' = WeightFor(u, d)'
  BY <1>1 DEF CacheIsTransparent
<1>3. WeightFor(u, d)' =
        CumulativeAt(userObs'[u], draws[d].snapshotAt) - CumulativeAt(userObs'[u], draws[d].periodStart)
  BY <1>1 DEF WeightFor, SameWindow
<1>4. /\ CumulativeAt(userObs'[u], draws[d].snapshotAt) = CumulativeAt(userObs[u], draws[d].snapshotAt)
      /\ CumulativeAt(userObs'[u], draws[d].periodStart) = CumulativeAt(userObs[u], draws[d].periodStart)
  BY RecordStep, DrawMoments DEF Inductive
<1> QED
  BY <1>1, <1>2, <1>3, <1>4 DEF WeightFor

\* Once a draw is open nothing that anybody does changes anybody's weight in it.
THEOREM FreezeHolds == Spec => WeightsAreFrozen
<1>1. Inductive /\ CacheIsTransparent /\ CacheIsTransparent' /\ [Next]_vars => SameWeights
  BY WeightsStay DEF SameWeights
<1> QED
  BY <1>1, InductiveHolds, CacheChangesNothing, PTL DEF Spec, WeightsAreFrozen

-----------------------------------------------------------------------------
(* Winners.                                                                *)

LEMMA ThresholdType ==
  ASSUME Inductive, NEW d \in DOMAIN draws, NEW u \in Users, NEW t \in Tiers
  PROVE  ThresholdFor(d, u, t) \in Nat
<1>1. d \in 1..MaxDraws /\ draws[d].r \in Rand /\ draws[d].totalWeight \in Nat
  BY DrawFields, Parameters DEF Inductive, WindowsInOrder
<1>2. Keccak(draws[d].r, d, u, t) \in Nat
  BY <1>1, KeccakAssumption
<1>3. tiers.k[t] \in Nat
  BY DEF Inductive, TypeOK
<1>4. draws[d].totalWeight * tiers.k[t] \in Nat
  BY <1>1, <1>3
<1>5. ASSUME NEW e \in Nat, NEW k \in Nat PROVE Uniform(e, k) \in Nat
  <2>1. CASE k = 0
    BY <2>1 DEF Uniform
  <2>2. CASE k # 0
    <3>1. e % k \in 0..(k - 1)
      BY <2>2
    <3> QED BY <2>2, <3>1 DEF Uniform
  <2> QED BY <2>1, <2>2
<1> QED
  BY <1>2, <1>4, <1>5 DEF ThresholdFor

\* A credit is earned by a balance held before the snapshot.
LEMMA CreditIsEarned ==
  ASSUME Inductive, NEW d \in DOMAIN draws, NEW u \in Users, Credit(u, d) > 0
  PROVE  \E i \in DOMAIN userObs[u] :
           userObs[u][i].balance > 0 /\ userObs[u][i].timestamp < draws[d].snapshotAt
<1>1. PICK t \in Tiers : AccrualWeight(u, d) > ThresholdFor(d, u, t)
  BY CreditType DEF Inductive
<1>2. AccrualWeight(u, d) > 0
  <2>1. SnapshotCumulative(u, d) \in Nat /\ WindowStart(u, d) \in Nat
    BY CacheReads
  <2> QED BY <1>1, <2>1, ThresholdType DEF AccrualWeight
<1>3. CumulativeAt(userObs[u], draws[d].snapshotAt) > 0
  BY <1>2, CacheReads DEF AccrualWeight
<1>4. IsRecord(userObs[u], now) /\ now \in Nat /\ draws[d].snapshotAt \in 0..now
  BY DrawMoments DEF Inductive, RecordsSound
<1> QED
  BY <1>3, <1>4, StakeBehindWeight

\* Nobody is awarded a prize without a balance recorded before the snapshot: the
\* record only grows at its end, and every award compares a weight strictly.
THEOREM WinnersStaked == Spec => []OnlyStakersWin
<1>1. Init => OnlyStakersWin
  BY DEF Init, OnlyStakersWin
<1>2. Inductive /\ OnlyStakersWin /\ [Next]_vars => OnlyStakersWin'
  <2> SUFFICES ASSUME Inductive, OnlyStakersWin, [Next]_vars,
                      NEW d \in DOMAIN draws', NEW u \in Users, draws'[d].cleared[u] > 0
               PROVE  \E i \in DOMAIN userObs'[u] :
                        userObs'[u][i].balance > 0 /\ userObs'[u][i].timestamp < draws'[d].snapshotAt
    BY DEF OnlyStakersWin
  <2>1. \A i \in DOMAIN userObs[u] : i \in DOMAIN userObs'[u] /\ userObs'[u][i] = userObs[u][i]
    BY RecordStep DEF Inductive
  <2>2. Len(draws) \in Nat /\ DOMAIN draws = 1..Len(draws)
    BY LenProperties DEF Inductive, TypeOK
  <2>3. /\ d \in DOMAIN draws /\ draws'[d].snapshotAt = draws[d].snapshotAt
        /\ draws'[d].cleared[u] \in {draws[d].cleared[u], Credit(u, d)}
    <3>1. CASE KeptAll
      BY <3>1 DEF KeptAll, KeptDraw, SameWindow
    <3>2. CASE OpenedNext
      <4>1. PICK r \in Rand : draws'[Len(draws) + 1] = Opened(r)
        BY <3>2 DEF OpenedNext
      <4>2. d # Len(draws) + 1
        BY <4>1 DEF Opened
      <4> QED BY <2>2, <3>2, <4>2 DEF OpenedNext
    <3> QED BY <3>1, <3>2, DrawsStep
  <2>4. \E i \in DOMAIN userObs[u] :
          userObs[u][i].balance > 0 /\ userObs[u][i].timestamp < draws[d].snapshotAt
    BY <2>3, CreditIsEarned DEF OnlyStakersWin
  <2> QED BY <2>1, <2>3, <2>4
<1> QED
  BY <1>1, <1>2, InductiveHolds, PTL DEF Spec

-----------------------------------------------------------------------------
(* Sources.                                                                *)

\* Rebinding revokes: whatever the order of setYieldSource calls, also back and
\* forth between sources, at most the bound one may pull the pool's tokens.
THEOREM OldSourcesAreRevoked == Spec => []OnlyBoundSourceMayPull
<1>1. Init => OnlyBoundSourceMayPull
  BY DEF Init, OnlyBoundSourceMayPull
<1>2. OnlyBoundSourceMayPull /\ [Next]_vars => OnlyBoundSourceMayPull'
  <2> SUFFICES ASSUME OnlyBoundSourceMayPull, [Next]_vars PROVE OnlyBoundSourceMayPull'
    OBVIOUS
  <2>1. CASE UNCHANGED <<grant, yieldSource>>
    BY <2>1 DEF OnlyBoundSourceMayPull
  <2>2. ASSUME NEW s \in Sources \cup {NoSource}, SetYieldSource(s)
        PROVE  OnlyBoundSourceMayPull'
    BY <2>2 DEF SetYieldSource, OnlyBoundSourceMayPull
  <2>3. CASE Record
    BY <2>1, <2>3 DEF Record, Deposit, Withdraw, Claim, settings
  <2>4. CASE Drawing
    BY <2>1, <2>4 DEF Drawing, OpenDraw, RevealDraw, CancelDraw, Accrue, AccrueMany, settings
  <2>5. CASE Funding
    BY <2>1, <2>5 DEF Funding, FundReserve, FundFeePot, Harvest, settings
  <2>6. CASE Configuring
    BY <2>1, <2>2, <2>6 DEF Configuring, SetTiers, SetKeeperFee, RenounceOwnership
  <2> QED BY <2>1, <2>3, <2>4, <2>5, <2>6 DEF Next, Tick, vars, settings
<1> QED
  BY <1>1, <1>2, PTL DEF Spec

-----------------------------------------------------------------------------
(* Windows: the draws implement DrawRounds.                                *)

LEMMA LastDraw ==
  ASSUME Inductive, draws # <<>>
  PROVE  /\ Len(draws) \in DOMAIN draws /\ Len(draws) \in Nat /\ DOMAIN draws = 1..Len(draws)
         /\ draws[Len(draws)].status \in Status
         /\ draws[Len(draws)].snapshotAt \in Nat /\ draws[Len(draws)].snapshotAt # 0
         /\ draws[Len(draws)].periodStart \in Nat
<1>1. Len(draws) \in DOMAIN draws
  BY EmptySeq, LenProperties DEF Inductive, TypeOK
<1> QED
  BY <1>1, DrawFields DEF Inductive, WindowsInOrder, Genesis

LEMMA OpenIsLast ==
  ASSUME Inductive, NEW d \in DOMAIN draws, draws[d].status = "Open"
  PROVE  d = Len(draws) /\ draws # <<>> /\ LastStatus = "Open"
BY DEF Inductive, WindowsInOrder, LastStatus

\* Settling draws leaves what the rounds see alone.
LEMMA SettleStutters ==
  ASSUME Inductive, NEW d \in DOMAIN draws, NEW batch \in SUBSET Users, Settle(d, batch)
  PROVE  Frontier' = Frontier /\ Upto' = Upto
<1>1. /\ draws # <<>> /\ draws' # <<>> /\ Len(draws') = Len(draws)
      /\ \A i \in DOMAIN draws : /\ SameWindow(draws'[i], draws[i])
                                 /\ draws'[i].status = draws[i].status
  <2>1. /\ draws' \in Seq(DrawRecord) /\ Len(draws') = Len(draws) /\ DOMAIN draws' = DOMAIN draws
        /\ \A i \in DOMAIN draws : /\ SameWindow(draws'[i], draws[i])
                                   /\ draws'[i].status = draws[i].status
    BY KeccakAssumption, SettleStep DEF Inductive
  <2> QED BY <2>1
<1>2. Len(draws) \in DOMAIN draws
  BY <1>1, LastDraw
<1> QED
  BY <1>1, <1>2 DEF Frontier, Upto, LastStatus, SameWindow

LEMMA OpenIsARound ==
  ASSUME Inductive, NEW r \in Rand, OpenDraw(Keeper, r)
  PROVE  Upto = 0 /\ now >= Frontier + MinPeriod /\ Upto' = now /\ Frontier' = Frontier
<1>1. /\ draws' = Append(draws, Opened(r)) /\ now >= Previous + MinPeriod
      /\ (draws # <<>> => LastStatus \in {"Revealed", "Cancelled"})
  BY DEF OpenDraw, Opened
<1>2. Upto = 0 /\ Frontier = Previous
  BY <1>1 DEF Upto, Frontier, Previous
<1>3. draws' # <<>> /\ Len(draws') = Len(draws) + 1 /\ draws'[Len(draws) + 1] = Opened(r)
  BY <1>1, OpenedType DEF Inductive
<1>4. Upto' = now /\ Frontier' = Previous
  BY <1>3 DEF Opened, Upto, Frontier, LastStatus
<1> QED
  BY <1>1, <1>2, <1>4

LEMMA AdvanceIsARound ==
  ASSUME Inductive, NEW d \in DOMAIN draws, NEW s \in {"Revealed", "Cancelled"},
         draws[d].status = "Open", draws' = [draws EXCEPT ![d].status = s]
  PROVE  /\ Upto = draws[d].snapshotAt /\ Upto # 0 /\ Upto' = 0
         /\ Frontier' = IF s = "Revealed" THEN Upto ELSE Frontier
<1>1. draws \in Seq(DrawRecord) /\ draws[d] \in DrawRecord
  BY DrawFields DEF Inductive, TypeOK
<1>2. d = Len(draws) /\ draws # <<>> /\ LastStatus = "Open" /\ draws[d].snapshotAt # 0
  BY OpenIsLast, LastDraw
<1>3. /\ draws' # <<>> /\ Len(draws') = Len(draws)
      /\ draws'[d] = [draws[d] EXCEPT !.status = s]
  BY <1>1, <1>2
<1>4. /\ draws'[d].status = s /\ draws'[d].snapshotAt = draws[d].snapshotAt
      /\ draws'[d].periodStart = draws[d].periodStart
  BY <1>1, <1>3 DEF DrawRecord
<1> QED
  BY <1>2, <1>3, <1>4 DEF Frontier, Upto, LastStatus

\* The draw life cycle implements the abstract rounds: windows cover time without
\* gap or overlap, one at a time, and only a revealed draw closes its own
\* (openDraw, revealDraw, cancelDraw; accrual and everything else stutter).
THEOREM DrawsAreRounds == Spec => RoundsSpec
<1>1. Init => Rounds!Init
  BY DEF Init, Rounds!Init, Frontier, Upto
<1>2. Inductive /\ [Next]_vars => [Rounds!Next]_(Rounds!vars)
  <2> SUFFICES ASSUME Inductive, [Next]_vars
               PROVE  Rounds!Next \/ (now' = now /\ Frontier' = Frontier /\ Upto' = Upto)
    BY DEF Rounds!vars
  <2> USE DEF Rounds!Next, Rounds!Tick, Rounds!Open, Rounds!Settle, Rounds!Abandon
  <2>1. CASE UNCHANGED draws /\ (UNCHANGED now \/ now' = now + 1)
    BY <2>1 DEF Frontier, Upto, LastStatus
  <2>2. ASSUME NEW r \in Rand, OpenDraw(Keeper, r)
        PROVE  Rounds!Open
    BY <2>2, OpenIsARound DEF OpenDraw
  <2>3. ASSUME NEW d \in DOMAIN draws, RevealDraw(Keeper, d)
        PROVE  Rounds!Settle
    BY <2>3, AdvanceIsARound DEF RevealDraw
  <2>4. ASSUME NEW d \in DOMAIN draws, CancelDraw(d)
        PROVE  Rounds!Abandon
    BY <2>4, AdvanceIsARound DEF CancelDraw
  <2>5. ASSUME NEW d \in DOMAIN draws, NEW u \in Users, Accrue(u, d)
        PROVE  now' = now /\ Frontier' = Frontier /\ Upto' = Upto
    <3>1. {u} \in SUBSET Users /\ Settle(d, {u}) /\ now' = now
      BY <2>5 DEF Accrue
    <3> QED BY <3>1, SettleStutters
  <2>6. ASSUME NEW d \in DOMAIN draws, NEW batch \in SUBSET Users, AccrueMany(Keeper, batch, d)
        PROVE  now' = now /\ Frontier' = Frontier /\ Upto' = Upto
    <3>1. Unsettled(batch, d) \in SUBSET Users /\ Settle(d, Unsettled(batch, d)) /\ now' = now
      BY <2>6 DEF Unsettled, AccrueMany
    <3> QED BY <3>1, SettleStutters
  <2>7. CASE Drawing
    BY <2>2, <2>3, <2>4, <2>5, <2>6, <2>7 DEF Drawing
  <2>8. CASE Record
    BY <2>1, <2>8 DEF Record, Deposit, Withdraw, Claim
  <2>9. CASE Funding
    BY <2>1, <2>9 DEF Funding, FundReserve, FundFeePot, Harvest
  <2>10. CASE Configuring
    BY <2>1, <2>10 DEF Configuring, SetYieldSource, SetTiers, SetKeeperFee, RenounceOwnership
  <2> QED BY <2>1, <2>7, <2>8, <2>9, <2>10 DEF Next, Tick, vars
<1> QED
  BY <1>1, <1>2, InductiveHolds, PTL DEF Spec, RoundsSpec, Rounds!Spec

=============================================================================
