------------------------ MODULE PrizePoolMoneyProofs ------------------------
(***************************************************************************)
(* The pool never books more than it holds or has lent, for every set of   *)
(* users and sources, every table of prizes and every answer of a source.  *)
(* No bound on the supply is assumed: an addition that overflows books     *)
(* less than what arrived, never more.                                     *)
(*                                                                         *)
(* Where no sum overflows, the books are exact: balances add up to the     *)
(* total at every past moment, and so do weights; claims move with money.  *)
(* What the pool holds and an account may win has to fit the width of an   *)
(* amount for that (HeldFits, WinningsFit), and does in a pool without a   *)
(* source whose token, like ERC-7984, never issues more than that width.   *)
(***************************************************************************)
EXTENDS PrizePoolProofs

\* The books in three parts.
Claims == [u \in Users |-> Entitled(u)]
Pots   == reserve + feePot

-----------------------------------------------------------------------------
(* Turns.                                                                  *)

\* The turns of a batch are the places from one to its size.
LEMMA TurnsRank ==
  ASSUME NEW d \in 1..MaxDraws, NEW batch \in SUBSET Users
  PROVE  Ranks([u \in batch |-> Turn(d, batch, u)], batch, Cardinality(batch))
<1> DEFINE n == Cardinality(batch)
           turn == [u \in batch |-> Turn(d, batch, u)]
           upto(u) == {v \in batch : OrderKey(d, v) <= OrderKey(d, u)}
<1>1. IsFiniteSet(batch) /\ n \in Nat
  BY Parameters, FS_Subset, FS_CardinalityType
<1>2. \A u \in batch : OrderKey(d, u) \in Nat
  BY KeccakAssumption
<1>3. turn \in [batch -> 1..n]
  BY <1>2, TurnType
<1>4. ASSUME NEW u \in batch, NEW v \in batch, OrderKey(d, u) < OrderKey(d, v)
      PROVE  turn[u] # turn[v]
  <2>1. upto(u) \in SUBSET upto(v) /\ v \in upto(v) /\ v \notin upto(u)
    BY <1>2, <1>4
  <2>2. IsFiniteSet(upto(v))
    BY <1>1, FS_Subset
  <2>3. Cardinality(upto(u)) # Cardinality(upto(v))
    BY <2>1, <2>2, FS_Subset
  <2> QED BY <2>3 DEF Turn
<1>5. ASSUME NEW u \in batch, NEW v \in batch, turn[u] = turn[v]
      PROVE  u = v
  <2>1. OrderKey(d, u) = OrderKey(d, v)
    BY <1>2, <1>4, <1>5
  <2> QED BY <2>1, KeccakAssumption
<1> HIDE DEF turn, n
<1>6. turn \in Injection(batch, 1..n)
  BY <1>3, <1>5 DEF Injection, IsInjective
<1>7. IsFiniteSet(1..n) /\ Cardinality(1..n) = n
  BY <1>1, FS_Interval
<1>8. turn \in Surjection(batch, 1..n)
  BY <1>6, <1>7, FS_Injection DEF n
<1> QED
  BY <1>3, <1>5, <1>8 DEF Ranks, Surjection, turn, n

-----------------------------------------------------------------------------
(* Sums of claims and of loans.                                            *)

LEMMA ClaimsShape ==
  ASSUME NEW o \in [Users -> Seq(Observation)], NEW p \in [Users -> Nat]
  PROVE  /\ [u \in Users |-> BalanceOf(o[u]) + p[u]] \in [Users -> Nat]
         /\ [u \in Users |-> BalanceOf(o[u]) + p[u]] \in [Users -> Int]
         /\ SumFunction([u \in Users |-> BalanceOf(o[u]) + p[u]]) \in Int
<1>1. \A u \in Users : BalanceOf(o[u]) + p[u] \in Nat
  BY BalanceType
<1>2. [u \in Users |-> BalanceOf(o[u]) + p[u]] \in [Users -> Int]
  BY <1>1
<1> QED
  BY <1>1, <1>2, Parameters, SumType

LEMMA ClaimsType ==
  ASSUME TypeOK, TypeOK'
  PROVE  /\ Claims \in [Users -> Int] /\ Claims' \in [Users -> Int]
         /\ SumFunction(Claims) \in Int /\ SumFunction(Claims)' \in Int
         /\ SumFunction(lent) \in Int /\ SumFunction(lent') \in Int
         /\ Pots \in Nat /\ Pots' \in Nat
         /\ tokens \in [Accounts -> Nat] /\ tokens' \in [Accounts -> Nat]
         /\ \A u \in Users : Claims[u] = Entitled(u) /\ Claims'[u] = Entitled(u)'
<1>1. /\ Claims \in [Users -> Int] /\ SumFunction(Claims) \in Int
  BY ClaimsShape DEF TypeOK, Claims, Entitled
<1>2. /\ Claims' \in [Users -> Int] /\ SumFunction(Claims)' \in Int
  BY ClaimsShape DEF TypeOK, Claims, Entitled
<1>3. SumFunction(lent) \in Int /\ SumFunction(lent') \in Int
  BY Parameters, SumType DEF TypeOK
<1>4. Pots \in Nat /\ Pots' \in Nat /\ tokens \in [Accounts -> Nat] /\ tokens' \in [Accounts -> Nat]
  <2>1. reserve \in Nat /\ feePot \in Nat /\ tokens \in [Accounts -> Nat]
    BY DEF TypeOK
  <2>2. reserve' \in Nat /\ feePot' \in Nat /\ tokens' \in [Accounts -> Nat]
    BY DEF TypeOK
  <2>3. Pots \in Nat
    BY <2>1 DEF Pots
  <2>4. Pots' \in Nat
    <3>1. \A a, b \in Nat : a + b \in Nat
      OBVIOUS
    <3>2. reserve' + feePot' \in Nat
      BY <2>2, <3>1, Zenon
    <3> QED BY <3>2 DEF Pots
  <2> QED BY <2>1, <2>2, <2>3, <2>4
<1>5. \A u \in Users : Claims[u] = Entitled(u) /\ Claims'[u] = Entitled(u)'
  BY DEF Claims
<1> QED
  BY <1>1, <1>2, <1>3, <1>4, <1>5

\* A transaction that touches one account's claim moves the sum by as much.
LEMMA OneClaim ==
  ASSUME TypeOK, TypeOK', NEW u \in Users, NEW x \in Int,
         Entitled(u)' <= Entitled(u) + x,
         \A v \in Users \ {u} : userObs'[v] = userObs[v] /\ pending'[v] = pending[v]
  PROVE  SumFunction(Claims)' <= SumFunction(Claims) + x
<1>1. PICK f \in [Users -> Int] : f = Claims
  BY ClaimsType
<1>2. PICK k \in [Users -> Int] : k = Claims'
  BY ClaimsType
<1>3. DifferAt(u, f, k, Users)
  BY <1>1, <1>2 DEF DifferAt, Claims, Entitled
<1>4. SumFunction(k) = SumFunction(f) - f[u] + k[u]
  BY <1>3, SumChange, Parameters
<1>5. f[u] = Entitled(u) /\ k[u] = Entitled(u)'
  BY <1>1, <1>2 DEF Claims
<1>6. f[u] \in Int /\ k[u] \in Int /\ SumFunction(f) \in Int
  BY Parameters, SumType
<1> QED
  BY <1>1, <1>2, <1>4, <1>5, <1>6

\* Nothing owed to any account changes.
LEMMA SameClaims ==
  ASSUME UNCHANGED <<userObs, pending>>
  PROVE  SumFunction(Claims)' = SumFunction(Claims)
BY DEF Claims, Entitled

\* What goes to the bound source is booked as lent to it.
LEMMA LoanStep ==
  ASSUME TypeOK, yieldSource # NoSource, NEW x \in Int,
         lent' = [s \in Sources |-> IF s = yieldSource THEN lent[s] + x ELSE lent[s]]
  PROVE  SumFunction(lent') = SumFunction(lent) + x
<1>1. yieldSource \in Sources /\ lent \in [Sources -> Int]
  BY DEF TypeOK
<1>2. lent' \in [Sources -> Int] /\ lent'[yieldSource] = lent[yieldSource] + x
  BY <1>1
<1>3. DifferAt(yieldSource, lent, lent', Sources)
  BY DEF DifferAt
<1>4. SumFunction(lent') = SumFunction(lent) - lent[yieldSource] + lent'[yieldSource]
  BY <1>1, <1>2, <1>3, SumChange, Parameters
<1>5. lent[yieldSource] \in Int /\ SumFunction(lent) \in Int
  BY <1>1, SumType, Parameters
<1> QED
  BY <1>2, <1>4, <1>5

LEMMA NoLoan ==
  ASSUME TypeOK, yieldSource = NoSource, NEW x \in Int,
         lent' = [s \in Sources |-> IF s = yieldSource THEN lent[s] + x ELSE lent[s]]
  PROVE  lent' = lent
<1>1. \A s \in Sources : s # NoSource
  BY Parameters
<1> QED
  BY <1>1 DEF TypeOK

LEMMA HeldType ==
  ASSUME TypeOK, TypeOK'
  PROVE  Held \in Int /\ Held' \in Int
<1>1. tokens[Pool] \in Int /\ tokens'[Pool] \in Int
  BY Parameters, ClaimsType
<1>2. \A a, b \in Int : a + b \in Int
  OBVIOUS
<1> QED
  BY <1>1, <1>2, ClaimsType, Zenon DEF Held

\* The books stay covered when what comes in is no less than what is booked.
LEMMA StaysCovered ==
  ASSUME TypeOK, TypeOK', NeverOverbooked, NEW x \in Int, NEW y \in Int, NEW z \in Int,
         SumFunction(Claims)' <= SumFunction(Claims) + x,
         Pots' <= Pots + y,
         Held' >= Held + z,
         x + y <= z
  PROVE  NeverOverbooked'
<1>1. PICK c, c1, p, p1, h, h1 \in Int :
        /\ c = SumFunction(Claims) /\ c1 = SumFunction(Claims)'
        /\ p = Pots /\ p1 = Pots' /\ h = Held /\ h1 = Held'
  <2>1. Pots \in Int /\ Pots' \in Int
    BY ClaimsType
  <2> QED BY <2>1, ClaimsType, HeldType
<1>2. Owed = c + p /\ Owed' = c1 + p1
  <2>1. reserve \in Nat /\ feePot \in Nat /\ reserve' \in Nat /\ feePot' \in Nat
    BY DEF TypeOK
  <2>2. \A a \in Int, b, e \in Nat : a + b + e = a + (b + e)
    OBVIOUS
  <2>3. Owed = SumFunction(Claims) + reserve + feePot
    BY DEF Owed, Claims
  <2>4. Owed' = SumFunction(Claims)' + reserve' + feePot'
    BY DEF Owed, Claims
  <2>5. Owed = c + (reserve + feePot)
    BY <1>1, <2>1, <2>3
  <2>6. Owed' = c1 + (reserve' + feePot')
    BY <1>1, <2>1, <2>4
  <2> QED BY <1>1, <2>5, <2>6, Zenon DEF Pots
<1>3. h1 >= c1 + p1
  <2>1. h >= c + p
    BY <1>1, <1>2 DEF NeverOverbooked
  <2>2. c1 <= c + x /\ p1 <= p + y /\ h1 >= h + z
    BY <1>1, Zenon
  <2> QED BY <2>1, <2>2
<1> QED
  BY <1>1, <1>2, <1>3, Zenon DEF NeverOverbooked

-----------------------------------------------------------------------------
(* The record.                                                             *)

LEMMA PushedBalance ==
  ASSUME NEW obs \in Seq(Observation), NEW b
  PROVE  BalanceOf(Push(obs, b, now)) = b
<1>1. Push(obs, b, now) # <<>> /\ Len(Push(obs, b, now)) = Len(obs) + 1
  BY PushShape
<1>2. Push(obs, b, now)[Len(obs) + 1].balance = b
  BY PushShape
<1> QED
  BY <1>1, <1>2 DEF BalanceOf

\* Folding the credit in makes no claim larger.
LEMMA DrainedBalance ==
  ASSUME TypeOK, RecordsSound, NEW u \in Users
  PROVE  /\ BalanceOf(Drained(u)) \in Nat /\ Entitled(u) \in Nat
         /\ BalanceOf(Drained(u)) <= Entitled(u)
<1>1. userObs[u] \in Seq(Observation) /\ pending[u] \in Nat
  BY DEF TypeOK
<1>2. BalanceOf(userObs[u]) \in Nat
  BY <1>1, BalanceType
<1>3. CASE HasPending(u)
  <2>1. BalanceOf(Drained(u)) = TryAdd(BalanceOf(userObs[u]), pending[u])
    BY <1>1, <1>3, PushedBalance DEF Drained
  <2>2. /\ TryAdd(BalanceOf(userObs[u]), pending[u]) \in Nat
        /\ TryAdd(BalanceOf(userObs[u]), pending[u]) <= BalanceOf(userObs[u]) + pending[u]
    BY <1>1, <1>2, ArithmeticTypes
  <2> QED BY <1>1, <1>2, <2>1, <2>2 DEF Entitled
<1>4. CASE ~HasPending(u)
  BY <1>1, <1>2, <1>4 DEF Drained, Entitled
<1> QED
  BY <1>3, <1>4

\* What the account is left with after a deposit, a withdrawal or a claim.
LEMMA LeftWith ==
  ASSUME NEW u \in Users, NEW b \in Nat, NEW obs \in Seq(Observation),
         TypeOK, TypeOK',
         userObs' = [userObs EXCEPT ![u] = Push(obs, b, now)],
         pending' = [pending EXCEPT ![u] = 0]
  PROVE  /\ Entitled(u)' = b
         /\ \A v \in Users \ {u} : userObs'[v] = userObs[v] /\ pending'[v] = pending[v]
<1>1. userObs'[u] = Push(obs, b, now) /\ pending'[u] = 0
  BY DEF TypeOK
<1>2. Entitled(u)' = BalanceOf(userObs'[u]) + pending'[u]
  BY DEF Entitled, BalanceOf
<1> QED
  BY <1>1, <1>2, PushedBalance

LEMMA DepositHeld ==
  ASSUME TypeOK, TypeOK', NEW u \in Users, NEW amount \in Amounts, Deposit(u, amount)
  PROVE  Held' = Held + Moved(u, amount)
<1>1. amount \in Nat /\ u \in Accounts /\ u # Pool
  BY Parameters, ConstantsAssumption
<1> DEFINE received == Moved(u, amount)
           to == IF yieldSource = NoSource THEN Pool ELSE yieldSource
<1>2. received \in Nat
  BY <1>1, MovedType
<1>3. tokens' = After(u, to, received)
  BY DEF Deposit
<1>4. lent' = [s \in Sources |-> IF s = yieldSource THEN lent[s] + received ELSE lent[s]]
  BY DEF Deposit
<1>5. tokens[Pool] \in Nat /\ SumFunction(lent) \in Int /\ SumFunction(lent') \in Int
  BY <1>1, Parameters, ClaimsType
<1> HIDE DEF received
<1>6. ASSUME yieldSource = NoSource PROVE Held' = Held + received
  <2>1. tokens'[Pool] = tokens[Pool] + received
    BY <1>1, <1>2, <1>3, <1>5, <1>6, Parameters DEF After
  <2>2. lent' = lent
    BY <1>1, <1>2, <1>4, <1>6, NoLoan
  <2> QED BY <1>2, <1>5, <2>1, <2>2 DEF Held
<1>7. ASSUME yieldSource # NoSource PROVE Held' = Held + received
  <2>1. to # Pool
    BY <1>1, <1>7, ConstantsAssumption DEF TypeOK
  <2>2. tokens'[Pool] = tokens[Pool]
    BY <1>1, <1>2, <1>3, <1>5, <2>1, Parameters DEF After
  <2>3. SumFunction(lent') = SumFunction(lent) + received
    BY <1>1, <1>2, <1>4, <1>7, LoanStep
  <2> QED BY <1>2, <1>5, <2>2, <2>3 DEF Held
<1> QED BY <1>6, <1>7 DEF received

LEMMA DepositCovered ==
  ASSUME Inductive, TypeOK', NeverOverbooked, NEW u \in Users, NEW amount \in Amounts,
         Deposit(u, amount)
  PROVE  NeverOverbooked'
<1>1. TypeOK /\ RecordsSound /\ amount \in Nat /\ u \in Accounts /\ u # Pool
  BY Parameters, ConstantsAssumption DEF Inductive
<1> DEFINE received == Moved(u, amount)
           to == IF yieldSource = NoSource THEN Pool ELSE yieldSource
<1>2. received \in Nat
  BY <1>1, MovedType
<1>3. SumFunction(Claims)' <= SumFunction(Claims) + received
  <2>1. /\ userObs' = [userObs EXCEPT ![u] =
             Push(Drained(u), TryAdd(BalanceOf(Drained(u)), received), now)]
        /\ pending' = [pending EXCEPT ![u] = 0]
    BY DEF Deposit
  <2>2. Drained(u) \in Seq(Observation)
    BY <1>1, DrainedExtends
  <2> DEFINE b == TryAdd(BalanceOf(Drained(u)), received)
  <2>3. BalanceOf(Drained(u)) \in Nat /\ BalanceOf(Drained(u)) <= Entitled(u) /\ Entitled(u) \in Nat
    BY <1>1, DrainedBalance
  <2>4. b \in Nat /\ b <= BalanceOf(Drained(u)) + received
    BY <1>2, <2>3, ArithmeticTypes
  <2> HIDE DEF received, b
  <2>5. b <= Entitled(u) + received
    BY <1>2, <2>3, <2>4
  <2>6. /\ Entitled(u)' = b
        /\ \A v \in Users \ {u} : userObs'[v] = userObs[v] /\ pending'[v] = pending[v]
    BY <1>1, <2>1, <2>2, <2>4, LeftWith DEF b
  <2> QED BY <1>1, <1>2, <2>5, <2>6, OneClaim
<1>4. Pots' <= Pots + 0
  <2>1. Pots' = Pots
    BY DEF Deposit, Pots
  <2> QED BY <1>1, <2>1, ClaimsType
<1>5. Held' >= Held + received
  BY <1>1, <1>2, DepositHeld, HeldType
<1>6. received + 0 <= received
  <2> HIDE DEF received
  <2> QED BY <1>2
<1> QED
  <2> HIDE DEF received
  <2> QED BY <1>1, <1>2, <1>3, <1>4, <1>5, <1>6, StaysCovered

LEMMA WithdrawHeld ==
  ASSUME TypeOK, TypeOK', RecordsSound, NEW u \in Users, NEW amount \in Amounts, NEW sent,
         Withdraw(u, amount, sent)
  PROVE  sent \in Nat /\ sent <= Request(u, amount) /\ Held' = Held - sent
<1>1. amount \in Nat /\ u \in Accounts /\ u # Pool
  BY Parameters, ConstantsAssumption
<1>3. sent \in Nat /\ sent <= Request(u, amount)
  <2>1. sent \in Redeemed(Request(u, amount)) /\ Request(u, amount) \in Nat
    BY <1>1, RequestType DEF Withdraw
  <2> QED BY <2>1, RedeemedType
<1>4. PICK x \in Int : x = 0 - sent
  BY <1>3
<1>5. tokens' = After(Holder, u, sent)
  BY DEF Withdraw
<1>6. lent' = [s \in Sources |-> IF s = yieldSource THEN lent[s] + x ELSE lent[s]]
  <2>1. lent' = [s \in Sources |-> IF s = yieldSource THEN lent[s] - sent ELSE lent[s]]
    BY DEF Withdraw
  <2>2. \A s \in Sources : lent[s] \in Int
    BY <1>1 DEF TypeOK
  <2>3. \A s \in Sources : lent[s] - sent = lent[s] + x
    BY <1>3, <1>4, <2>2
  <2> QED BY <2>1, <2>3
<1>7. tokens[Pool] \in Nat /\ SumFunction(lent) \in Int /\ SumFunction(lent') \in Int
  BY <1>1, Parameters, ClaimsType
<1>8. ASSUME yieldSource = NoSource PROVE Held' = Held + x
  <2>1. tokens'[Pool] = tokens[Pool] + x
    BY <1>1, <1>3, <1>4, <1>5, <1>7, <1>8, Parameters DEF After, Holder
  <2>2. lent' = lent
    BY <1>1, <1>6, <1>8, NoLoan
  <2> QED BY <1>7, <2>1, <2>2 DEF Held
<1>9. ASSUME yieldSource # NoSource PROVE Held' = Held + x
  <2>1. Holder # Pool
    BY <1>1, <1>9, ConstantsAssumption DEF TypeOK, Holder
  <2>2. tokens'[Pool] = tokens[Pool]
    BY <1>1, <1>3, <1>5, <1>7, <2>1, Parameters DEF After
  <2>3. SumFunction(lent') = SumFunction(lent) + x
    BY <1>1, <1>6, <1>9, LoanStep
  <2> QED BY <1>7, <2>2, <2>3 DEF Held
<1>10. Held' = Held + x
  BY <1>8, <1>9
<1> QED
  BY <1>3, <1>4, <1>10, HeldType

LEMMA WithdrawCovered ==
  ASSUME Inductive, TypeOK', NeverOverbooked, NEW u \in Users, NEW amount \in Amounts, NEW sent,
         Withdraw(u, amount, sent)
  PROVE  NeverOverbooked'
<1>1. TypeOK /\ RecordsSound /\ amount \in Nat /\ u \in Accounts /\ u # Pool
  BY Parameters, ConstantsAssumption DEF Inductive
<1> DEFINE request == Request(u, amount)
           bal == BalanceOf(Drained(u))
<1>2. request \in Nat /\ request <= bal /\ bal \in Nat
  BY <1>1, RequestType
<1>3. sent \in Nat /\ sent <= request
  <2>1. sent \in Redeemed(request)
    BY DEF Withdraw
  <2> HIDE DEF request
  <2> QED BY <1>1, <1>2, <2>1, RedeemedType
<1>4. PICK x \in Int : x = 0 - sent
  BY <1>3
<1>5. SumFunction(Claims)' <= SumFunction(Claims) + x
  <2> DEFINE b == Refunded(bal, request, sent)
  <2>1. /\ userObs' = [userObs EXCEPT ![u] = Push(Drained(u), b, now)]
        /\ pending' = [pending EXCEPT ![u] = 0]
    BY DEF Withdraw
  <2>2. Drained(u) \in Seq(Observation)
    BY <1>1, DrainedExtends
  <2>3. bal <= Entitled(u) /\ Entitled(u) \in Nat
    BY <1>1, DrainedBalance
  <2> HIDE DEF bal, request
  <2>4. bal - request \in Nat /\ request - sent \in Nat
    BY <1>2, <1>3
  <2>5. b \in Nat /\ b <= (bal - request) + (request - sent)
    BY <2>4, ArithmeticTypes DEF Refunded
  <2> HIDE DEF b
  <2>6. b <= Entitled(u) + x
    BY <1>2, <1>3, <1>4, <2>3, <2>5
  <2>7. /\ Entitled(u)' = b
        /\ \A v \in Users \ {u} : userObs'[v] = userObs[v] /\ pending'[v] = pending[v]
    BY <1>1, <2>1, <2>2, <2>5, LeftWith
  <2> QED BY <1>1, <2>6, <2>7, OneClaim
<1>6. Pots' <= Pots + 0
  <2>1. Pots' = Pots
    BY DEF Withdraw, Pots
  <2> QED BY <1>1, <2>1, ClaimsType
<1>7. Held' >= Held + x
  BY <1>1, <1>3, <1>4, WithdrawHeld, HeldType
<1>8. x + 0 <= x
  OBVIOUS
<1> QED
  BY <1>1, <1>5, <1>6, <1>7, <1>8, StaysCovered

LEMMA ClaimCovered ==
  ASSUME Inductive, TypeOK', NeverOverbooked, NEW u \in Users, Claim(u)
  PROVE  NeverOverbooked'
<1>1. TypeOK /\ RecordsSound
  BY DEF Inductive
<1>2. SumFunction(Claims)' <= SumFunction(Claims) + 0
  <2>1. /\ userObs' = [userObs EXCEPT ![u] = Drained(u)] /\ pending' = [pending EXCEPT ![u] = 0]
    BY DEF Claim
  <2>2. userObs'[u] = Drained(u) /\ pending'[u] = 0
    BY <1>1, <2>1 DEF TypeOK
  <2>3. Entitled(u)' = BalanceOf(Drained(u)) + 0
    BY <2>2 DEF Entitled, BalanceOf
  <2>4. Entitled(u)' <= Entitled(u) + 0
    BY <1>1, <2>3, DrainedBalance
  <2>5. \A v \in Users \ {u} : userObs'[v] = userObs[v] /\ pending'[v] = pending[v]
    BY <1>1, <2>1 DEF TypeOK
  <2> QED BY <1>1, <2>4, <2>5, OneClaim
<1>3. Pots' = Pots /\ Held' = Held
  BY DEF Claim, Pots, Held
<1>4. Pots' <= Pots + 0 /\ Held' >= Held + 0
  BY <1>1, <1>3, ClaimsType, HeldType
<1> QED
  BY <1>1, <1>2, <1>4, StaysCovered

-----------------------------------------------------------------------------
(* The draw.                                                               *)

\* What the pot is debited with covers what leaves the pool.
LEMMA PotPays ==
  ASSUME TypeOK, NEW owed \in Nat, PayFromPot(Keeper, owed)
  PROVE  \E paid \in Nat : feePot' = feePot - paid /\ tokens'[Pool] >= tokens[Pool] - paid
<1>1. feePot \in Nat /\ tokens[Pool] \in Nat /\ Keeper # Pool /\ Pool \in Accounts
  BY Parameters, ConstantsAssumption DEF TypeOK
<1> DEFINE paid == IF owed <= feePot THEN owed ELSE 0
           moved == Moved(Pool, paid)
<1>2. paid \in Nat /\ feePot' = feePot - paid
  BY <1>1 DEF PayFromPot, TryDecrease
<1>3. tokens' = After(Pool, Keeper, moved)
  BY DEF PayFromPot
<1> HIDE DEF paid
<1>4. moved \in Nat /\ moved <= paid
  BY <1>1, <1>2, MovedType
<1> HIDE DEF moved
<1>5. tokens'[Pool] = tokens[Pool] - moved
  BY <1>1, <1>3, <1>4 DEF After
<1>6. tokens'[Pool] >= tokens[Pool] - paid
  BY <1>1, <1>2, <1>4, <1>5
<1> QED
  BY <1>2, <1>6

\* Prizes move from the reserve to the winners, keepers are paid from the pot.
LEMMA PayoutCovered ==
  ASSUME TypeOK, TypeOK', NeverOverbooked, NEW paid \in Nat,
         SumFunction(Claims)' <= SumFunction(Claims) + (reserve - reserve'),
         feePot' = feePot - paid, tokens'[Pool] >= tokens[Pool] - paid, lent' = lent
  PROVE  NeverOverbooked'
<1>1. PICK r, r1, f, f1, t, t1, l \in Int :
        /\ r = reserve /\ r1 = reserve' /\ f = feePot /\ f1 = feePot'
        /\ t = tokens[Pool] /\ t1 = tokens'[Pool] /\ l = SumFunction(lent)
  <2>1. reserve \in Int /\ reserve' \in Int /\ feePot \in Int /\ feePot' \in Int
    BY DEF TypeOK
  <2>2. tokens[Pool] \in Int /\ tokens'[Pool] \in Int /\ SumFunction(lent) \in Int
    BY Parameters, ClaimsType
  <2> QED BY <2>1, <2>2
<1>2. PICK x \in Int : x = r - r1
  OBVIOUS
<1>3. PICK z \in Int : z = 0 - paid
  OBVIOUS
<1>4. PICK y \in Int : y = z - x
  OBVIOUS
<1>5. SumFunction(Claims)' <= SumFunction(Claims) + x
  BY <1>1, <1>2, Zenon
<1>6. Pots' <= Pots + y
  <2>1. f1 = f - paid
    BY <1>1
  <2>2. r1 + f1 <= (r + f) + y
    BY <1>2, <1>3, <1>4, <2>1
  <2> QED BY <1>1, <2>2, Zenon DEF Pots
<1>7. Held' >= Held + z
  <2>1. t1 >= t - paid
    BY <1>1, Zenon
  <2>2. t1 + l >= (t + l) + z
    BY <1>3, <2>1
  <2>3. Held = t + l /\ Held' = t1 + l
    BY <1>1, Zenon DEF Held
  <2> QED BY <2>2, <2>3, Zenon
<1>8. x + y <= z
  BY <1>4
<1> QED
  BY <1>5, <1>6, <1>7, <1>8, StaysCovered

\* A batch credits its winners together no more than the reserve falls by.
LEMMA SettlePays ==
  ASSUME Inductive, TypeOK', NEW d \in DOMAIN draws, NEW batch \in SUBSET Users,
         Settle(d, batch), userObs' = userObs
  PROVE  SumFunction(Claims)' <= SumFunction(Claims) + (reserve - reserve')
<1> DEFINE n == Cardinality(batch)
           credit == [u \in batch |-> Credit(u, d)]
           turn == [u \in batch |-> Turn(d, batch, u)]
<1>1. PICK left \in ReserveRuns(credit, turn) :
        LET paidTo == [u \in batch |-> left[turn[u] - 1] - left[turn[u]]]
        IN /\ reserve' = ReserveAfter(left, batch)
           /\ pending' = [u \in Users |-> IF u \in batch THEN TryAdd(pending[u], paidTo[u])
                                                         ELSE pending[u]]
  BY DEF Settle
<1>2. /\ TypeOK /\ KeccakAssumption /\ n \in Nat /\ d \in 1..MaxDraws
      /\ reserve \in Nat /\ pending \in [Users -> Nat]
  <2>1. Len(draws) \in Nat /\ DOMAIN draws = 1..Len(draws)
    BY DrawFields DEF Inductive
  <2>2. d \in 1..MaxDraws
    BY <2>1, Parameters DEF Inductive, WindowsInOrder
  <2> QED BY <2>2, Parameters, KeccakAssumption, FS_Subset, FS_CardinalityType DEF Inductive, TypeOK
<1>3. /\ left \in [0..n -> 0..reserve] /\ left[0] = reserve /\ left[n] = reserve'
  <2>1. DOMAIN credit = batch
    OBVIOUS
  <2> QED BY <1>1, <2>1 DEF ReserveRuns, ReserveAfter
<1>4. left \in [0..n -> Int]
  BY <1>2, <1>3
<1>5. credit \in [batch -> Nat]
  BY <1>2, CreditType
<1>6. Ranks(turn, batch, n)
  BY <1>2, TurnsRank
<1>7. \A u \in batch : left[turn[u] - 1] - left[turn[u]] \in Nat
  <2> HIDE DEF credit
  <2> QED BY <1>1, <1>2, <1>5, ReserveRunsPay
<1> DEFINE top == UpToTurn(n, Claims, Users, batch, turn, left)
<1>8. \A u \in Users : pending'[u] = IF u \in batch
                                       THEN TryAdd(pending[u], left[turn[u] - 1] - left[turn[u]])
                                       ELSE pending[u]
  BY <1>1
<1>9. Claims \in [Users -> Int] /\ Claims' \in [Users -> Int]
  BY <1>2, ClaimsType
<1> HIDE DEF n, turn, credit
<1>10. IsRun(n, Claims, Users, batch, turn, left)
  BY <1>2, <1>4, <1>6, <1>9, Parameters DEF IsRun
<1>11. top \in [Users -> Int]
  <2>1. n \in 0..n
    BY <1>2
  <2> QED BY <1>10, <2>1, UpToTurnType
<1>12. SumFunction(top) = SumFunction(Claims) + left[0] - left[n]
  BY <1>10, Telescope
<1>13. ASSUME NEW u \in Users PROVE Claims'[u] <= top[u]
  <2>1. /\ Claims[u] = BalanceOf(userObs[u]) + pending[u]
        /\ Claims'[u] = BalanceOf(userObs[u]) + pending'[u]
    BY DEF Claims, Entitled
  <2>2. BalanceOf(userObs[u]) \in Nat /\ pending[u] \in Nat
    BY <1>2, BalanceType DEF TypeOK
  <2>3. CASE u \in batch
    <3>1. PICK p \in Nat : p = left[turn[u] - 1] - left[turn[u]]
      BY <1>7, <2>3
    <3>2. pending'[u] = TryAdd(pending[u], p)
      BY <1>8, <2>3, <3>1
    <3>3. TryAdd(pending[u], p) \in Nat /\ TryAdd(pending[u], p) <= pending[u] + p
      BY <2>2, ArithmeticTypes
    <3>4. turn[u] \in 1..n
      BY <1>6, <2>3 DEF Ranks
    <3>5. top[u] = Claims[u] + p
      BY <1>2, <2>3, <3>1, <3>4 DEF UpToTurn
    <3> QED BY <2>1, <2>2, <3>2, <3>3, <3>5
  <2>4. CASE u \notin batch
    <3>1. pending'[u] = pending[u]
      BY <1>8, <2>4
    <3>2. top[u] = Claims[u]
      BY <2>4 DEF UpToTurn
    <3> QED BY <2>1, <2>2, <3>1, <3>2
  <2> QED BY <2>3, <2>4
<1> HIDE DEF top
<1>14. SumFunction(Claims)' <= SumFunction(top)
  <2>1. PICK k \in [Users -> Int] : k = Claims'
    BY <1>9
  <2>2. SumFunction(k) <= SumFunction(top)
    BY <1>11, <1>13, <2>1, Parameters, SumMonotone
  <2> QED BY <2>1, <2>2, Zenon
<1>15. left[0] = reserve /\ left[n] = reserve'
  BY <1>3
<1> QED
  BY <1>12, <1>14, <1>15, Zenon

\* A transaction that pays a keeper and awards no prize.
LEMMA KeeperPaidCovered ==
  ASSUME TypeOK, TypeOK', NeverOverbooked, NEW owed \in Nat, PayFromPot(Keeper, owed),
         UNCHANGED <<userObs, pending, reserve, lent>>
  PROVE  NeverOverbooked'
<1>1. PICK paid \in Nat : feePot' = feePot - paid /\ tokens'[Pool] >= tokens[Pool] - paid
  BY PotPays
<1>2. SumFunction(Claims)' <= SumFunction(Claims) + (reserve - reserve')
  <2>1. SumFunction(Claims)' = SumFunction(Claims) /\ reserve' = reserve
    BY SameClaims
  <2>2. SumFunction(Claims) \in Int
    BY ClaimsType
  <2>3. reserve \in Int
    BY DEF TypeOK
  <2> QED BY <2>1, <2>2, <2>3
<1> QED
  BY <1>1, <1>2, PayoutCovered

\* A transaction that leaves the books and the tokens alone.
LEMMA SameBooks ==
  ASSUME NeverOverbooked, UNCHANGED <<userObs, pending, reserve, feePot, tokens, lent>>
  PROVE  NeverOverbooked'
<1>1. Owed' = Owed /\ Held' = Held
  BY DEF Owed, Held, Entitled
<1> QED
  BY <1>1 DEF NeverOverbooked

LEMMA DrawingCovered ==
  ASSUME Inductive, TypeOK', NeverOverbooked, Drawing
  PROVE  NeverOverbooked'
<1>1. TypeOK /\ WindowsInOrder /\ keeperFee \in Nat
  BY DEF Inductive, TypeOK
<1>2. ASSUME NEW r \in Rand, OpenDraw(Keeper, r) PROVE NeverOverbooked'
  <2>1. Previous + MinPeriod \in Nat
    BY <1>1, PreviousMoment, Parameters
  <2>2. LivenessReward(Previous + MinPeriod) \in Nat
    BY <1>1, <2>1, RewardType
  <2>3. /\ PayFromPot(Keeper, LivenessReward(Previous + MinPeriod))
        /\ UNCHANGED <<userObs, pending, reserve, lent>>
    BY <1>2 DEF OpenDraw, record, prizes
  <2> QED BY <1>1, <2>2, <2>3, KeeperPaidCovered
<1>3. ASSUME NEW d \in DOMAIN draws, RevealDraw(Keeper, d) PROVE NeverOverbooked'
  <2>1. LivenessReward(draws[d].snapshotAt) \in Nat
    BY <1>1, DrawFields, RewardType
  <2>2. /\ PayFromPot(Keeper, LivenessReward(draws[d].snapshotAt))
        /\ UNCHANGED <<userObs, pending, reserve, lent>>
    BY <1>3 DEF RevealDraw, record, prizes
  <2> QED BY <1>1, <2>1, <2>2, KeeperPaidCovered
<1>4. ASSUME NEW d \in DOMAIN draws, CancelDraw(d) PROVE NeverOverbooked'
  BY <1>4, SameBooks DEF CancelDraw, record, prizes
<1>5. ASSUME NEW d \in DOMAIN draws, NEW u \in Users, Accrue(u, d) PROVE NeverOverbooked'
  <2>1. Settle(d, {u}) /\ {u} \in SUBSET Users /\ userObs' = userObs /\ lent' = lent
    BY <1>5 DEF Accrue, record
  <2>2. SumFunction(Claims)' <= SumFunction(Claims) + (reserve - reserve')
    BY <2>1, SettlePays
  <2>3. feePot' = feePot - 0 /\ tokens'[Pool] >= tokens[Pool] - 0
    <3>1. feePot \in Nat /\ tokens[Pool] \in Nat /\ feePot' = feePot /\ tokens' = tokens
      BY <1>1, <1>5, Parameters DEF TypeOK, Accrue
    <3> QED BY <3>1
  <2> QED BY <1>1, <2>1, <2>2, <2>3, PayoutCovered
<1>6. ASSUME NEW d \in DOMAIN draws, NEW batch \in SUBSET Users, AccrueMany(Keeper, batch, d)
      PROVE  NeverOverbooked'
  <2> DEFINE fresh == Unsettled(batch, d)
  <2>1. /\ Settle(d, fresh) /\ PayFromPot(Keeper, keeperFee) /\ fresh \in SUBSET Users
        /\ userObs' = userObs /\ lent' = lent
    BY <1>6 DEF AccrueMany, record, Unsettled
  <2> HIDE DEF fresh
  <2>2. SumFunction(Claims)' <= SumFunction(Claims) + (reserve - reserve')
    BY <2>1, SettlePays
  <2>3. PICK paid \in Nat : feePot' = feePot - paid /\ tokens'[Pool] >= tokens[Pool] - paid
    BY <1>1, <2>1, PotPays
  <2> QED BY <1>1, <2>1, <2>2, <2>3, PayoutCovered
<1> QED
  BY <1>2, <1>3, <1>4, <1>5, <1>6 DEF Drawing

-----------------------------------------------------------------------------
(* Money in.                                                               *)

\* What reaches the pool's account is split between the reserve and the pot.
LEMMA IncomeCovered ==
  ASSUME TypeOK, TypeOK', NeverOverbooked, NEW got \in Nat,
         UNCHANGED <<userObs, pending, lent>>,
         tokens'[Pool] = tokens[Pool] + got, Pots' <= Pots + got
  PROVE  NeverOverbooked'
<1>1. SumFunction(Claims)' <= SumFunction(Claims) + 0
  BY SameClaims, ClaimsType
<1>2. Held' >= Held + got
  <2>1. tokens[Pool] \in Int /\ SumFunction(lent) \in Int
    BY Parameters, ClaimsType
  <2>2. Held' = (tokens[Pool] + got) + SumFunction(lent)
    BY DEF Held
  <2> QED BY <2>1, <2>2 DEF Held
<1>3. 0 + got <= got
  OBVIOUS
<1> QED
  BY <1>1, <1>2, <1>3, StaysCovered

LEMMA FundingCovered ==
  ASSUME Inductive, TypeOK', NeverOverbooked, Funding
  PROVE  NeverOverbooked'
<1>1. /\ TypeOK /\ reserve \in Nat /\ feePot \in Nat /\ Keeper # Pool /\ tokens[Pool] \in Nat
      /\ Keeper \in Accounts /\ Pool \in Accounts /\ Amounts \subseteq Nat
  BY Parameters, ConstantsAssumption DEF Inductive, TypeOK
<1>2. ASSUME NEW amount \in Amounts, FundReserve(Keeper, amount) PROVE NeverOverbooked'
  <2>1. PICK got \in Nat : got = Moved(Keeper, amount)
    BY <1>1, MovedType
  <2>2. tokens' = After(Keeper, Pool, got) /\ reserve' = TryAdd(reserve, got) /\ feePot' = feePot
    BY <1>2, <2>1 DEF FundReserve
  <2>3. UNCHANGED <<userObs, pending, lent>>
    BY <1>2 DEF FundReserve, record
  <2>4. tokens'[Pool] = tokens[Pool] + got
    BY <1>1, <2>1, <2>2 DEF After
  <2>5. Pots' <= Pots + got
    <3>1. TryAdd(reserve, got) \in Nat /\ TryAdd(reserve, got) <= reserve + got
      BY <1>1, ArithmeticTypes
    <3>2. Pots' = TryAdd(reserve, got) + feePot
      BY <2>2 DEF Pots
    <3> QED BY <1>1, <3>1, <3>2 DEF Pots
  <2> QED BY <1>1, <2>3, <2>4, <2>5, IncomeCovered
<1>3. ASSUME NEW amount \in Amounts, FundFeePot(Keeper, amount) PROVE NeverOverbooked'
  <2>1. PICK got \in Nat : got = Moved(Keeper, amount)
    BY <1>1, MovedType
  <2>2. tokens' = After(Keeper, Pool, got) /\ feePot' = TryAdd(feePot, got) /\ reserve' = reserve
    BY <1>3, <2>1 DEF FundFeePot, prizes
  <2>3. UNCHANGED <<userObs, pending, lent>>
    BY <1>3 DEF FundFeePot, record, prizes
  <2>4. tokens'[Pool] = tokens[Pool] + got
    BY <1>1, <2>1, <2>2 DEF After
  <2>5. Pots' <= Pots + got
    <3>1. TryAdd(feePot, got) \in Nat /\ TryAdd(feePot, got) <= feePot + got
      BY <1>1, ArithmeticTypes
    <3>2. Pots' = reserve + TryAdd(feePot, got)
      BY <2>2 DEF Pots
    <3> QED BY <1>1, <3>1, <3>2 DEF Pots
  <2> QED BY <1>1, <2>3, <2>4, <2>5, IncomeCovered
<1>4. ASSUME NEW got \in 0..MaxUint64, Harvest(got) PROVE NeverOverbooked'
  <2>1. got \in Nat /\ FeeShareDivisor \in Nat \ {0}
    BY Parameters
  <2>2. PICK fee \in Nat : fee = got \div FeeShareDivisor /\ fee <= got
    BY <2>1, DivisionShrinks
  <2>3. /\ tokens' = After(yieldSource, Pool, got)
        /\ feePot' = TryAdd(feePot, fee) /\ reserve' = TryAdd(reserve, got - fee)
        /\ UNCHANGED <<userObs, pending, lent>> /\ yieldSource # NoSource
    BY <1>4, <2>2 DEF Harvest, record
  <2>4. yieldSource # Pool
    BY <1>1, <2>3, ConstantsAssumption DEF TypeOK
  <2>5. tokens'[Pool] = tokens[Pool] + got
    BY <1>1, <2>1, <2>3, <2>4 DEF After
  <2>6. Pots' <= Pots + got
    <3>1. PICK rest \in Nat : rest = got - fee
      <4>1. \A a, b \in Nat : b <= a => a - b \in Nat
        OBVIOUS
      <4> QED BY <2>1, <2>2, <4>1, Zenon
    <3>2. /\ TryAdd(feePot, fee) \in Nat /\ TryAdd(feePot, fee) <= feePot + fee
          /\ TryAdd(reserve, rest) \in Nat /\ TryAdd(reserve, rest) <= reserve + rest
      BY <1>1, ArithmeticTypes
    <3>3. Pots' = TryAdd(reserve, rest) + TryAdd(feePot, fee)
      BY <2>3, <3>1 DEF Pots
    <3> QED BY <1>1, <2>1, <2>2, <3>1, <3>2, <3>3 DEF Pots
  <2> QED BY <1>1, <2>1, <2>3, <2>5, <2>6, IncomeCovered
<1> QED
  BY <1>2, <1>3, <1>4 DEF Funding

-----------------------------------------------------------------------------
\* A new pool owes nothing and holds nothing.
LEMMA InitCovered ==
  ASSUME Init
  PROVE  NeverOverbooked
<1>1. lent = [s \in Sources |-> 0] /\ tokens[Pool] = 0 /\ reserve = 0 /\ feePot = 0
  BY Parameters DEF Init
<1>2. [u \in Users |-> Entitled(u)] = [u \in Users |-> 0]
  <2>1. ASSUME NEW u \in Users PROVE Entitled(u) = 0
    BY DEF Init, Entitled, BalanceOf
  <2> QED BY <2>1
<1>3. SumFunction(lent) = 0 /\ SumFunction([u \in Users |-> Entitled(u)]) = 0
  BY <1>1, <1>2, Parameters, SumZero
<1> QED
  BY <1>1, <1>3 DEF NeverOverbooked, Held, Owed

LEMMA CoveredStep ==
  ASSUME Inductive, NeverOverbooked, [Next]_vars
  PROVE  NeverOverbooked'
<1>1. TypeOK'
  BY TypeStep
<1>2. CASE Record
  BY <1>1, <1>2, DepositCovered, WithdrawCovered, ClaimCovered DEF Record
<1>3. CASE Drawing
  BY <1>1, <1>3, DrawingCovered
<1>4. CASE Funding
  BY <1>1, <1>4, FundingCovered
<1>5. CASE Configuring \/ Tick \/ UNCHANGED vars
  BY <1>5, SameBooks
     DEF Configuring, SetYieldSource, SetTiers, SetKeeperFee, RenounceOwnership, Tick, vars,
         record, prizes, settings
<1> QED
  BY <1>2, <1>3, <1>4, <1>5 DEF Next

\* The pool never books more than it holds or has lent out, whatever sources are
\* bound and whatever they answer (deposit books what moved, withdraw what was
\* sent, accrue what the reserve declined or paid, _payKeeper and _payLiveness
\* what the pot covered).
THEOREM AlwaysCovered == Spec => []NeverOverbooked
<1>1. Init => NeverOverbooked
  BY InitCovered
<1>2. Inductive /\ NeverOverbooked /\ [Next]_vars => NeverOverbooked'
  BY CoveredStep
<1> QED
  BY <1>1, <1>2, InductiveHolds, PTL DEF Spec

-----------------------------------------------------------------------------
(* Exact books: as long as what the pool holds and has lent fits the width of *)
(* an amount, no addition overflows and every inequality is an equality.    *)

HeldFits == Held <= MaxUint64

Balances == [u \in Users |-> BalanceOf(userObs[u])]

\* A credit is pending only for an account some draw has settled.
CreditsAreAwarded == \A u \in Users : pending[u] # 0 => HasPending(u)

\* Within the width the clamped operations are the plain ones.
LEMMA ExactArithmetic ==
  ASSUME NEW a \in Nat, NEW b \in Nat
  PROVE  /\ a + b <= MaxUint64 => TryAdd(a, b) = a + b
         /\ b <= a => TrySub(a, b) = a - b /\ TryDecrease(a, b) = a - b
<1>1. MaxUint64 \in Nat
  BY Parameters
<1>2. a + b <= MaxUint64 => ~(a + b > MaxUint64)
  BY <1>1
<1>3. b <= a => ~(b > a)
  OBVIOUS
<1> QED
  BY <1>2, <1>3 DEF TryAdd, TrySub, TryDecrease

LEMMA BalancesType ==
  ASSUME TypeOK
  PROVE  /\ Balances \in [Users -> Nat] /\ Balances \in [Users -> Int]
         /\ SumFunction(Balances) \in Nat
         /\ \A u \in Users : Balances[u] = BalanceOf(userObs[u]) /\ Balances[u] <= SumFunction(Balances)
<1>1. \A u \in Users : BalanceOf(userObs[u]) \in Nat
  BY BalanceType DEF TypeOK
<1>2. Balances \in [Users -> Nat] /\ \A u \in Users : Balances[u] = BalanceOf(userObs[u])
  BY <1>1 DEF Balances
<1>3. Balances \in [Users -> Int]
  BY <1>2
<1>4. SumFunction(Balances) \in Nat /\ \A u \in Users : Balances[u] <= SumFunction(Balances)
  BY <1>2, Parameters, SumTerm
<1> QED
  BY <1>2, <1>3, <1>4

\* Balances, any one pending credit and the pots fit into what is held.
LEMMA BooksFit ==
  ASSUME TypeOK, NeverOverbooked, NEW u \in Users
  PROVE  /\ Held \in Int /\ Entitled(u) \in Nat /\ pending[u] \in Nat
         /\ Balances[u] \in Nat /\ Entitled(u) = Balances[u] + pending[u]
         /\ reserve \in Nat /\ feePot \in Nat
         /\ SumFunction(Balances) + pending[u] + (reserve + feePot) <= Held
<1>1. /\ Claims \in [Users -> Int] /\ SumFunction(Claims) \in Int
      /\ \A v \in Users : Claims[v] = Balances[v] + pending[v] /\ Claims[v] = Entitled(v)
  <2>1. Claims \in [Users -> Int] /\ SumFunction(Claims) \in Int
    BY ClaimsShape DEF TypeOK, Claims, Entitled
  <2>2. \A v \in Users : Claims[v] = Balances[v] + pending[v] /\ Claims[v] = Entitled(v)
    BY DEF Claims, Entitled, Balances
  <2> QED BY <2>1, <2>2
<1>2. /\ pending[u] \in Nat /\ reserve \in Nat /\ feePot \in Nat /\ Balances[u] \in Nat
      /\ \A v \in Users : pending[v] \in Nat /\ Balances[v] \in Nat
  BY BalancesType DEF TypeOK
<1>3. Held \in Int
  <2>1. tokens[Pool] \in Int
    BY Parameters DEF TypeOK
  <2>2. SumFunction(lent) \in Int
    BY Parameters, SumType DEF TypeOK
  <2> QED BY <2>1, <2>2 DEF Held
<1> DEFINE one == [Balances EXCEPT ![u] = Balances[u] + pending[u]]
<1>4. /\ one \in [Users -> Int] /\ one[u] = Balances[u] + pending[u]
      /\ DifferAt(u, Balances, one, Users)
  BY <1>2, BalancesType DEF DifferAt
<1>5. \A v \in Users : one[v] <= Claims[v]
  <2>1. ASSUME NEW v \in Users PROVE one[v] <= Claims[v]
    <3>1. CASE v = u
      BY <1>1, <1>2, <1>4, <3>1
    <3>2. CASE v # u
      <4>1. one[v] = Balances[v]
        BY <3>2, BalancesType
      <4> HIDE DEF one
      <4> QED BY <1>1, <1>2, <4>1
    <3> QED BY <3>1, <3>2
  <2> QED BY <2>1
<1> HIDE DEF one
<1>6. SumFunction(one) = SumFunction(Balances) - Balances[u] + one[u]
  BY <1>4, BalancesType, Parameters, SumChange
<1>7. SumFunction(one) <= SumFunction(Claims)
  BY <1>1, <1>4, <1>5, Parameters, SumMonotone
<1>8. SumFunction(Balances) + pending[u] <= SumFunction(Claims)
  BY <1>2, <1>4, <1>6, <1>7, BalancesType
<1>9. SumFunction(Claims) + (reserve + feePot) <= Held
  <2>1. Owed = SumFunction(Claims) + reserve + feePot
    BY DEF Owed, Claims
  <2> QED BY <1>1, <1>2, <1>3, <2>1 DEF NeverOverbooked
<1>10. SumFunction(Balances) + pending[u] + (reserve + feePot) <= Held
  BY <1>1, <1>2, <1>3, <1>8, <1>9, BalancesType
<1> QED
  BY <1>1, <1>2, <1>3, <1>10

\* Folding a credit in makes a balance of all the account is entitled to.
LEMMA DrainedExact ==
  ASSUME Inductive, NeverOverbooked, HeldFits, CreditsAreAwarded, TotalIsSumOfBalances,
         NEW u \in Users
  PROVE  /\ BalanceOf(Drained(u)) = Entitled(u)
         /\ BalanceOf(DrainedTotal(u)) = SumFunction(Balances) + pending[u]
<1>1. TypeOK
  BY DEF Inductive
<1>2. PICK b, p, t, r, f \in Nat :
        /\ b = Balances[u] /\ p = pending[u] /\ t = SumFunction(Balances)
        /\ r = reserve /\ f = feePot
  BY <1>1, BooksFit, BalancesType
<1>3. b <= t /\ t + p + (r + f) <= MaxUint64 /\ MaxUint64 \in Nat
  <2>1. b <= t
    BY <1>1, <1>2, BalancesType
  <2>2. t + p + (r + f) <= Held /\ Held \in Int /\ MaxUint64 \in Nat
    BY <1>1, <1>2, BooksFit, Parameters
  <2> QED BY <2>1, <2>2 DEF HeldFits
<1>4. BalanceOf(userObs[u]) = b /\ BalanceOf(totalObs) = t /\ Entitled(u) = b + p
  <2>1. BalanceOf(totalObs) = SumFunction(Balances)
    BY DEF TotalIsSumOfBalances, Balances
  <2> QED BY <1>1, <1>2, <2>1, BooksFit, BalancesType
<1>5. CASE HasPending(u)
  <2>1. userObs[u] \in Seq(Observation) /\ totalObs \in Seq(Observation)
    BY <1>1 DEF TypeOK
  <2>2. BalanceOf(Drained(u)) = TryAdd(b, p) /\ BalanceOf(DrainedTotal(u)) = TryAdd(t, p)
    BY <1>2, <1>4, <1>5, <2>1, PushedBalance DEF Drained, DrainedTotal
  <2>3. TryAdd(b, p) = b + p /\ TryAdd(t, p) = t + p
    BY <1>3 DEF TryAdd
  <2> QED BY <1>2, <1>4, <2>2, <2>3
<1>6. CASE ~HasPending(u)
  <2>1. p = 0
    BY <1>2, <1>6 DEF CreditsAreAwarded
  <2>2. Drained(u) = userObs[u] /\ DrainedTotal(u) = totalObs
    BY <1>6 DEF Drained, DrainedTotal
  <2> QED BY <1>2, <1>4, <2>1, <2>2
<1> QED
  BY <1>5, <1>6

\* One account's record and credit become a balance of its entitlement and x more,
\* the total follows, and x tokens leave the account.
AccountMoves(u, x) ==
  /\ BalanceOf(userObs'[u]) = Entitled(u) + x /\ pending'[u] = 0
  /\ BalanceOf(totalObs') = SumFunction(Balances) + pending[u] + x
  /\ tokens'[u] = tokens[u] - x
  /\ \A v \in Users \ {u} : /\ userObs'[v] = userObs[v] /\ pending'[v] = pending[v]
                            /\ tokens'[v] = tokens[v]
  /\ tokens'[Keeper] = tokens[Keeper]
  /\ UNCHANGED <<draws, winnings, reserve, feePot>>
  /\ Held' = Held + x

LEMMA DepositMoves ==
  ASSUME Inductive, TypeOK', NeverOverbooked, HeldFits, CreditsAreAwarded, TotalIsSumOfBalances,
         HeldFits', NEW u \in Users, NEW amount \in Amounts, Deposit(u, amount)
  PROVE  \E x \in Int : AccountMoves(u, x)
<1>1. TypeOK /\ RecordsSound /\ amount \in Nat /\ u \in Accounts /\ u # Pool
  BY Parameters, ConstantsAssumption DEF Inductive
<1>2. PICK x \in Nat : x = Moved(u, amount)
  BY <1>1, MovedType
<1>3. Held' = Held + x
  BY <1>1, <1>2, DepositHeld
<1>4. PICK e, t, p \in Nat : e = Entitled(u) /\ t = SumFunction(Balances) /\ p = pending[u]
  BY <1>1, BooksFit, BalancesType
<1>5. e + x <= MaxUint64 /\ t + p + x <= MaxUint64
  <2>1. PICK b, r, f \in Nat : b = Balances[u] /\ r = reserve /\ f = feePot
    BY <1>1, BooksFit
  <2>2. e = b + p /\ b <= t /\ t + p + (r + f) <= Held /\ Held \in Int /\ MaxUint64 \in Nat
    BY <1>1, <1>4, <2>1, BooksFit, BalancesType, Parameters
  <2>3. Held + x <= MaxUint64
    BY <1>3 DEF HeldFits
  <2> QED BY <2>2, <2>3
<1>6. /\ BalanceOf(Drained(u)) = e /\ BalanceOf(DrainedTotal(u)) = t + p
      /\ Drained(u) \in Seq(Observation) /\ DrainedTotal(u) \in Seq(Observation)
  BY <1>1, <1>4, DrainedExact, DrainedExtends
<1>7. /\ userObs' = [userObs EXCEPT ![u] = Push(Drained(u), TryAdd(e, x), now)]
      /\ totalObs' = Push(DrainedTotal(u), TryAdd(t + p, x), now)
      /\ pending' = [pending EXCEPT ![u] = 0]
      /\ UNCHANGED <<draws, winnings, reserve, feePot>>
  BY <1>2, <1>6 DEF Deposit
<1>8. TryAdd(e, x) = e + x /\ TryAdd(t + p, x) = t + p + x
  <2>1. t + p \in Nat
    OBVIOUS
  <2> QED BY <1>5, <2>1, ExactArithmetic
<1>9. /\ BalanceOf(userObs'[u]) = e + x /\ pending'[u] = 0 /\ BalanceOf(totalObs') = t + p + x
      /\ \A v \in Users \ {u} : userObs'[v] = userObs[v] /\ pending'[v] = pending[v]
  <2>1. /\ userObs'[u] = Push(Drained(u), e + x, now) /\ pending'[u] = 0
        /\ \A v \in Users \ {u} : userObs'[v] = userObs[v] /\ pending'[v] = pending[v]
    BY <1>1, <1>7, <1>8 DEF TypeOK
  <2>2. totalObs' = Push(DrainedTotal(u), t + p + x, now)
    BY <1>7, <1>8
  <2> QED BY <1>6, <2>1, <2>2, PushedBalance
<1>10. /\ tokens'[u] = tokens[u] - x /\ \A v \in Users \ {u} : tokens'[v] = tokens[v]
       /\ tokens'[Keeper] = tokens[Keeper]
  <2> DEFINE to == IF yieldSource = NoSource THEN Pool ELSE yieldSource
  <2>1. tokens' = After(u, to, x)
    BY <1>2 DEF Deposit
  <2>2. to \notin Users /\ to # Keeper /\ Keeper \notin Users
    BY <1>1, ConstantsAssumption DEF TypeOK
  <2>3. \A v \in Users \cup {Keeper} : v \in Accounts /\ tokens[v] \in Nat
    BY <1>1, Parameters DEF TypeOK
  <2> HIDE DEF to
  <2> QED BY <1>2, <2>1, <2>2, <2>3 DEF After
<1>11. x \in Int
  OBVIOUS
<1> QED
  BY <1>3, <1>4, <1>7, <1>9, <1>10, <1>11 DEF AccountMoves

LEMMA WithdrawMoves ==
  ASSUME Inductive, TypeOK', NeverOverbooked, HeldFits, CreditsAreAwarded, TotalIsSumOfBalances,
         NEW u \in Users, NEW amount \in Amounts, NEW sent, Withdraw(u, amount, sent)
  PROVE  \E x \in Int : AccountMoves(u, x)
<1>1. TypeOK /\ RecordsSound /\ amount \in Nat /\ u \in Accounts
  BY Parameters DEF Inductive
<1>2. sent \in Nat /\ sent <= Request(u, amount) /\ Held' = Held - sent
  BY <1>1, WithdrawHeld
<1>3. PICK e, t, p \in Nat : e = Entitled(u) /\ t = SumFunction(Balances) /\ p = pending[u]
  BY <1>1, BooksFit, BalancesType
<1>4. e <= MaxUint64 /\ e <= t + p
  <2>1. PICK b, r, f \in Nat : b = Balances[u] /\ r = reserve /\ f = feePot
    BY <1>1, BooksFit
  <2>2. e = b + p /\ b <= t /\ t + p + (r + f) <= Held /\ Held \in Int /\ MaxUint64 \in Nat
    BY <1>1, <1>3, <2>1, BooksFit, BalancesType, Parameters
  <2> QED BY <2>2 DEF HeldFits
<1>5. /\ BalanceOf(Drained(u)) = e /\ BalanceOf(DrainedTotal(u)) = t + p
      /\ Drained(u) \in Seq(Observation) /\ DrainedTotal(u) \in Seq(Observation)
  BY <1>1, <1>3, DrainedExact, DrainedExtends
<1>6. PICK q \in Nat : q = Request(u, amount) /\ sent <= q /\ q <= e
  BY <1>1, <1>2, <1>5, RequestType
<1>7. /\ userObs' = [userObs EXCEPT ![u] = Push(Drained(u), Refunded(e, q, sent), now)]
      /\ totalObs' = Push(DrainedTotal(u), TrySub(t + p, sent), now)
      /\ pending' = [pending EXCEPT ![u] = 0]
      /\ tokens' = After(Holder, u, sent)
      /\ UNCHANGED <<draws, winnings, reserve, feePot>>
  BY <1>5, <1>6 DEF Withdraw
<1>8. PICK x \in Int : x = 0 - sent
  BY <1>2
<1>9. Refunded(e, q, sent) = e + x /\ TrySub(t + p, sent) = t + p + x
  <2>1. PICK left, back \in Nat : left = e - q /\ back = q - sent
    BY <1>2, <1>6
  <2>2. MaxUint64 \in Nat
    BY Parameters
  <2>3. left + back <= MaxUint64 /\ left + back = e + x
    BY <1>2, <1>4, <1>6, <1>8, <2>1, <2>2
  <2>4. Refunded(e, q, sent) = e + x
    BY <2>1, <2>3, ExactArithmetic DEF Refunded
  <2>5. t + p \in Nat /\ sent <= t + p /\ (t + p) - sent = t + p + x
    BY <1>2, <1>4, <1>6, <1>8
  <2> QED BY <1>2, <2>4, <2>5, ExactArithmetic
<1>10. /\ BalanceOf(userObs'[u]) = e + x /\ pending'[u] = 0 /\ BalanceOf(totalObs') = t + p + x
       /\ \A v \in Users \ {u} : userObs'[v] = userObs[v] /\ pending'[v] = pending[v]
  <2>1. /\ userObs'[u] = Push(Drained(u), e + x, now) /\ pending'[u] = 0
        /\ \A v \in Users \ {u} : userObs'[v] = userObs[v] /\ pending'[v] = pending[v]
    BY <1>1, <1>7, <1>9 DEF TypeOK
  <2>2. totalObs' = Push(DrainedTotal(u), t + p + x, now)
    BY <1>7, <1>9
  <2> QED BY <1>5, <2>1, <2>2, PushedBalance
<1>11. /\ tokens'[u] = tokens[u] - x /\ \A v \in Users \ {u} : tokens'[v] = tokens[v]
       /\ tokens'[Keeper] = tokens[Keeper]
  <2>1. Holder \notin Users /\ Holder # Keeper /\ Keeper \notin Users
    BY <1>1, ConstantsAssumption DEF TypeOK, Holder
  <2>2. \A v \in Users \cup {Keeper} : v \in Accounts /\ tokens[v] \in Nat
    BY <1>1, Parameters DEF TypeOK
  <2> QED BY <1>2, <1>7, <1>8, <2>1, <2>2 DEF After
<1>12. Held' = Held + x
  BY <1>1, <1>2, <1>8, HeldType
<1> QED
  BY <1>3, <1>7, <1>8, <1>10, <1>11, <1>12 DEF AccountMoves

LEMMA ClaimMoves ==
  ASSUME Inductive, TypeOK', NeverOverbooked, HeldFits, CreditsAreAwarded, TotalIsSumOfBalances,
         NEW u \in Users, Claim(u)
  PROVE  \E x \in Int : AccountMoves(u, x)
<1>1. TypeOK /\ RecordsSound
  BY DEF Inductive
<1>2. PICK e, t, p \in Nat : e = Entitled(u) /\ t = SumFunction(Balances) /\ p = pending[u]
  BY <1>1, BooksFit, BalancesType
<1>3. BalanceOf(Drained(u)) = e + 0 /\ BalanceOf(DrainedTotal(u)) = t + p + 0
  BY <1>1, <1>2, DrainedExact
<1>4. /\ userObs'[u] = Drained(u) /\ pending'[u] = 0 /\ totalObs' = DrainedTotal(u)
      /\ \A v \in Users \ {u} : userObs'[v] = userObs[v] /\ pending'[v] = pending[v]
      /\ UNCHANGED <<draws, winnings, reserve, feePot, tokens, lent>>
  BY <1>1 DEF Claim, TypeOK
<1>5. tokens'[u] = tokens[u] - 0
  <2>1. tokens[u] \in Nat
    BY <1>1, Parameters DEF TypeOK
  <2> QED BY <1>4, <2>1
<1>6. Held' = Held + 0
  <2>1. Held' = Held
    BY <1>4 DEF Held
  <2> QED BY <1>1, <2>1, HeldType
<1>7. AccountMoves(u, 0)
  BY <1>2, <1>3, <1>4, <1>5, <1>6 DEF AccountMoves
<1> QED
  BY <1>7


\* What a batch was awarded, account by account: together what the reserve fell
\* by, credited, recorded as won, and written into the draw.
Awarded(d, batch, a) ==
  /\ d \in DOMAIN draws /\ batch \in SUBSET Users /\ a \in [Users -> Nat]
  /\ \A u \in Users : a[u] <= reserve /\ (u \notin batch => a[u] = 0)
  /\ SumFunction(a) = reserve - reserve'
  /\ \A u \in batch : /\ pending'[u] = TryAdd(pending[u], a[u])
                      /\ winnings'[u] = TryAdd(winnings[u], a[u])
  /\ \A u \in Users \ batch : pending'[u] = pending[u] /\ winnings'[u] = winnings[u]
  /\ DOMAIN draws' = DOMAIN draws
  /\ \A i \in DOMAIN draws \ {d} : /\ draws'[i].accrued = draws[i].accrued
                                   /\ draws'[i].cleared = draws[i].cleared
                                   /\ draws'[i].paid = draws[i].paid
  /\ draws'[d].accrued = draws[d].accrued \cup batch
  /\ \A u \in batch : /\ draws'[d].cleared[u] = Credit(u, d)
                      /\ draws'[d].paid[u] = a[u] /\ a[u] \in {0, draws'[d].cleared[u]}
  /\ \A u \in Users \ batch : /\ draws'[d].paid[u] = draws[d].paid[u]
                              /\ draws'[d].cleared[u] = draws[d].cleared[u]

LEMMA SettledEffects ==
  ASSUME TypeOK, NEW d \in DOMAIN draws, NEW batch, NEW w, NEW cl, NEW pd
  PROVE  /\ WithBatch(d, batch, w, cl, pd).accrued = draws[d].accrued \cup batch
         /\ WithBatch(d, batch, w, cl, pd).cleared = cl
         /\ WithBatch(d, batch, w, cl, pd).paid = pd
BY DrawFields DEF DrawRecord, WithBatch

LEMMA SettleAwards ==
  ASSUME Inductive, NEW d \in DOMAIN draws, NEW batch \in SUBSET Users, Settle(d, batch)
  PROVE  \E a \in [Users -> Nat] : Awarded(d, batch, a)
<1> DEFINE n == Cardinality(batch)
           credit == [u \in batch |-> Credit(u, d)]
           turn == [u \in batch |-> Turn(d, batch, u)]
           warm(i) == [u \in Users |-> IF u \in batch THEN SnapshotCumulative(u, i)
                                                      ELSE draws[i].cumAt[u]]
<1>1. PICK left \in ReserveRuns(credit, turn) :
        LET paidTo == [u \in batch |-> left[turn[u] - 1] - left[turn[u]]]
            paidInto(f) == [u \in Users |-> IF u \in batch THEN TryAdd(f[u], paidTo[u]) ELSE f[u]]
            settled == [draws[d] EXCEPT
              !.accrued = @ \cup batch,
              !.cumAt   = warm(d),
              !.cleared = [u \in Users |-> IF u \in batch THEN credit[u] ELSE @[u]],
              !.paid    = [u \in Users |-> IF u \in batch THEN paidTo[u] ELSE @[u]]]
        IN /\ draws' = [i \in DOMAIN draws |->
                IF i = d THEN settled
                ELSE IF i = d - 1 /\ StartsAtPredecessor(d)
                  THEN [draws[i] EXCEPT !.cumAt = warm(i)]
                  ELSE draws[i]]
           /\ reserve' = ReserveAfter(left, batch)
           /\ pending' = paidInto(pending)
           /\ winnings' = paidInto(winnings)
  BY DEF Settle
<1>2. TypeOK /\ n \in Nat /\ d \in 1..MaxDraws /\ reserve \in Nat
  <2>1. d \in 1..MaxDraws
    BY DrawFields, Parameters DEF Inductive, WindowsInOrder
  <2> QED BY <2>1, Parameters, FS_Subset, FS_CardinalityType DEF Inductive, TypeOK
<1>3. credit \in [batch -> Nat] /\ \A u \in batch : credit[u] = Credit(u, d)
  BY <1>2, CreditType
<1>4. left \in [0..n -> 0..reserve] /\ left[0] = reserve /\ left[n] = reserve'
  <2>1. DOMAIN credit = batch
    OBVIOUS
  <2> QED BY <1>1, <2>1 DEF ReserveRuns, ReserveAfter
<1>5. Ranks(turn, batch, n)
  BY <1>2, TurnsRank
<1> DEFINE paidTo == [u \in batch |-> left[turn[u] - 1] - left[turn[u]]]
           a == [u \in Users |-> IF u \in batch THEN paidTo[u] ELSE 0]
           cl == [u \in Users |-> IF u \in batch THEN credit[u] ELSE draws[d].cleared[u]]
           pd == [u \in Users |-> IF u \in batch THEN paidTo[u] ELSE draws[d].paid[u]]
           settled == WithBatch(d, batch, warm(d), cl, pd)
<1>6. \A i \in DOMAIN draws : draws'[i] =
         IF i = d THEN settled
         ELSE IF i = d - 1 /\ StartsAtPredecessor(d)
           THEN [draws[i] EXCEPT !.cumAt = warm(i)]
           ELSE draws[i]
  BY <1>1 DEF WithBatch
<1>7. \A u \in batch : /\ pending'[u] = TryAdd(pending[u], paidTo[u])
                       /\ winnings'[u] = TryAdd(winnings[u], paidTo[u])
  BY <1>1
<1>8. \A u \in Users \ batch : pending'[u] = pending[u] /\ winnings'[u] = winnings[u]
  BY <1>1
<1>9. DOMAIN draws' = DOMAIN draws
  BY <1>1
<1>10. \A u \in batch : paidTo[u] \in Nat /\ paidTo[u] \in {0, credit[u]}
  <2> HIDE DEF credit
  <2> QED BY <1>2, <1>3, KeccakAssumption, ReserveRunsPay
<1>11. \A u \in batch : paidTo[u] <= reserve
  <2> HIDE DEF n
  <2> SUFFICES ASSUME NEW u \in batch PROVE paidTo[u] <= reserve
    OBVIOUS
  <2>1. turn[u] \in 1..n
    BY <1>5 DEF Ranks
  <2> HIDE DEF turn
  <2>2. left[turn[u]] \in 0..reserve /\ left[turn[u] - 1] \in 0..reserve
    BY <1>2, <1>4, <2>1
  <2> QED BY <1>2, <2>2
<1>12. \A i \in DOMAIN draws : warm(i) \in [Users -> Int]
  <2> SUFFICES ASSUME NEW i \in DOMAIN draws PROVE warm(i) \in [Users -> Int]
    OBVIOUS
  <2>1. \A u \in Users : SnapshotCumulative(u, i) \in Int
    BY CacheReads
  <2> QED BY <1>2, <2>1, DrawFields
<1>13. cl \in [Users -> Nat] /\ pd \in [Users -> Nat]
  <2> HIDE DEF credit, paidTo
  <2> QED BY <1>2, <1>3, <1>10, DrawFields
<1>14. /\ settled.accrued = draws[d].accrued \cup batch
       /\ settled.cleared = cl /\ settled.paid = pd
  <2> HIDE DEF cl, pd, warm
  <2> QED BY <1>2, SettledEffects
<1>15. ASSUME NEW i \in DOMAIN draws \ {d}
       PROVE  /\ draws'[i].accrued = draws[i].accrued
              /\ draws'[i].cleared = draws[i].cleared
              /\ draws'[i].paid = draws[i].paid
  <2> DEFINE w == warm(i)
  <2>1. draws'[i] = draws[i] \/ draws'[i] = [draws[i] EXCEPT !.cumAt = w]
    BY <1>6
  <2> HIDE DEF w
  <2> QED BY <1>2, <2>1, DrawFields DEF DrawRecord
<1>16. draws'[d] = settled
  BY <1>6
<1>17. /\ \A u \in batch : a[u] = paidTo[u]
       /\ \A u \in Users \ batch : a[u] = 0
       /\ a \in [Users -> Nat]
  <2> HIDE DEF paidTo
  <2> QED BY <1>10
<1>18. SumFunction(a) = reserve - reserve'
  <2> DEFINE zero == [u \in Users |-> 0]
  <2>1. zero \in [Users -> Int] /\ SumFunction(zero) = 0
    BY Parameters, SumZero
  <2>2. UpToTurn(n, zero, Users, batch, turn, left) = a
    <3>1. \A u \in batch : turn[u] <= n /\ turn[u] \in 1..n
      BY <1>2, <1>5 DEF Ranks
    <3>2. \A u \in batch : left[turn[u] - 1] - left[turn[u]] = 0 + (left[turn[u] - 1] - left[turn[u]])
      <4> HIDE DEF turn, n
      <4> QED BY <1>2, <1>4, <3>1
    <3> HIDE DEF turn, n
    <3> QED BY <3>1, <3>2 DEF UpToTurn
  <2> HIDE DEF turn, n, zero
  <2>3. left \in [0..n -> Int]
    BY <1>2, <1>4
  <2>4. IsRun(n, zero, Users, batch, turn, left)
    BY <1>2, <1>5, <2>1, <2>3, Parameters DEF IsRun
  <2>5. SumFunction(UpToTurn(n, zero, Users, batch, turn, left)) = SumFunction(zero) + left[0] - left[n]
    BY <2>4, Telescope
  <2>6. left[0] \in Int /\ left[n] \in Int
    BY <1>2, <2>3
  <2>7. SumFunction(a) = 0 + left[0] - left[n]
    BY <2>1, <2>2, <2>5, Zenon
  <2>8. SumFunction(a) = left[0] - left[n]
    BY <2>6, <2>7
  <2> QED BY <1>4, <2>8, Zenon
<1>19. \A u \in batch : /\ draws'[d].paid[u] = a[u] /\ draws'[d].cleared[u] = credit[u]
                        /\ a[u] \in {0, draws'[d].cleared[u]}
  <2> HIDE DEF settled, paidTo, credit
  <2> QED BY <1>10, <1>14, <1>16
<1>20. \A u \in Users \ batch : /\ draws'[d].paid[u] = draws[d].paid[u]
                                /\ draws'[d].cleared[u] = draws[d].cleared[u]
  <2> HIDE DEF settled, paidTo, credit
  <2> QED BY <1>14, <1>16
<1>21. draws'[d].accrued = draws[d].accrued \cup batch
  <2> HIDE DEF settled
  <2> QED BY <1>14, <1>16
<1> HIDE DEF a, paidTo, settled, cl, pd
<1>22. \A u \in Users : a[u] <= reserve /\ (u \notin batch => a[u] = 0)
  BY <1>2, <1>11, <1>17
<1>23. \A u \in batch : pending'[u] = TryAdd(pending[u], a[u]) /\ winnings'[u] = TryAdd(winnings[u], a[u])
  BY <1>7, <1>17
<1>24. Awarded(d, batch, a)
  BY <1>3, <1>8, <1>9, <1>15, <1>17, <1>18, <1>19, <1>20, <1>21, <1>22, <1>23 DEF Awarded
<1> QED
  BY <1>17, <1>24


\* The settlement of a draw: who, what they won, what they were paid.
SameSettlement(new, old) ==
  new.accrued = old.accrued /\ new.cleared = old.cleared /\ new.paid = old.paid

SettlementsStay ==
  /\ DOMAIN draws' = DOMAIN draws
  /\ \A d \in DOMAIN draws : SameSettlement(draws'[d], draws[d])

RecordsStay == UNCHANGED <<userObs, totalObs>> /\ \A u \in Users : tokens'[u] = tokens[u]

\* A step that concerns no account.
NoAccountMoves ==
  /\ RecordsStay /\ UNCHANGED <<pending, winnings>> /\ reserve <= reserve'
  /\ SettlementsStay \/ OpenedNext

\* An award to accounts the draw has not settled.
FreshAward ==
  /\ RecordsStay
  /\ \E d \in DOMAIN draws : \E batch \in SUBSET Users : \E a \in [Users -> Nat] :
       /\ MayAccrue(d) /\ tiers' = tiers
       /\ Awarded(d, batch, a) /\ batch \cap draws[d].accrued = {}

\* A payment to the keeper touches no user's tokens.
LEMMA UsersUntouched ==
  ASSUME TypeOK, NEW from \in {Pool, Keeper} \cup Sources, NEW to \in {Pool, Keeper} \cup Sources,
         NEW sent, tokens' = After(from, to, sent)
  PROVE  \A u \in Users : tokens'[u] = tokens[u]
<1> SUFFICES ASSUME NEW u \in Users PROVE tokens'[u] = tokens[u]
  OBVIOUS
<1>1. u \in Accounts /\ u # from /\ u # to
  BY Parameters, ConstantsAssumption
<1>2. tokens[u] \in Nat
  BY <1>1 DEF TypeOK
<1>3. tokens'[u] = tokens[u] - 0 + 0
  BY <1>1 DEF After
<1> QED
  BY <1>2, <1>3

\* What comes in fits beside what is booked.
LEMMA IncomeFits ==
  ASSUME TypeOK, TypeOK', NeverOverbooked, HeldFits', NEW got \in Nat,
         tokens'[Pool] = tokens[Pool] + got, lent' = lent
  PROVE  /\ Held' = Held + got
         /\ TryAdd(reserve, got) = reserve + got /\ TryAdd(feePot, got) = feePot + got
         /\ reserve + feePot + got <= MaxUint64
<1>1. Held' = Held + got /\ Held \in Int
  <2>1. tokens[Pool] \in Int /\ SumFunction(lent) \in Int
    BY Parameters, ClaimsType
  <2>2. Held' = (tokens[Pool] + got) + SumFunction(lent)
    BY DEF Held
  <2> QED BY <2>1, <2>2 DEF Held
<1>2. PICK r, f \in Nat : r = reserve /\ f = feePot
  BY DEF TypeOK
<1>3. r + f <= Held
  <2>1. SumFunction(Claims) \in Nat
    <3>1. Claims \in [Users -> Nat]
      BY ClaimsShape DEF TypeOK, Claims, Entitled
    <3> QED BY <3>1, Parameters, SumTerm
  <2>2. Owed = SumFunction(Claims) + r + f
    BY <1>2 DEF Owed, Claims
  <2> QED BY <1>1, <2>1, <2>2 DEF NeverOverbooked
<1>4. Held + got <= MaxUint64 /\ MaxUint64 \in Nat
  BY <1>1, Parameters DEF HeldFits
<1>5. r + f + got <= MaxUint64 /\ r + got <= MaxUint64 /\ f + got <= MaxUint64
  BY <1>1, <1>3, <1>4
<1>6. TryAdd(r, got) = r + got /\ TryAdd(f, got) = f + got
  BY <1>5, ExactArithmetic
<1> QED
  BY <1>1, <1>2, <1>5, <1>6

LEMMA FundingMovesNoAccount ==
  ASSUME Inductive, TypeOK', NeverOverbooked, HeldFits', Funding
  PROVE  NoAccountMoves
<1>1. /\ TypeOK /\ reserve \in Nat /\ tokens[Pool] \in Nat /\ Keeper # Pool
      /\ Keeper \in Accounts /\ Pool \in Accounts /\ Amounts \subseteq Nat
  BY Parameters, ConstantsAssumption DEF Inductive, TypeOK
<1>2. ASSUME NEW amount \in Amounts, FundReserve(Keeper, amount) PROVE NoAccountMoves
  <2>1. PICK got \in Nat : got = Moved(Keeper, amount)
    BY <1>1, MovedType
  <2>2. tokens' = After(Keeper, Pool, got) /\ reserve' = TryAdd(reserve, got)
    BY <1>2, <2>1 DEF FundReserve
  <2>3. tokens'[Pool] = tokens[Pool] + got
    BY <1>1, <2>1, <2>2 DEF After
  <2>4. UNCHANGED <<userObs, totalObs, pending, winnings, draws, lent>>
    BY <1>2 DEF FundReserve, record
  <2>5. reserve <= reserve'
    BY <1>1, <2>1, <2>2, <2>3, <2>4, IncomeFits
  <2>6. \A u \in Users : tokens'[u] = tokens[u]
    BY <1>1, <2>2, UsersUntouched
  <2> QED BY <2>4, <2>5, <2>6 DEF NoAccountMoves, RecordsStay, SettlementsStay, SameSettlement
<1>3. ASSUME NEW amount \in Amounts, FundFeePot(Keeper, amount) PROVE NoAccountMoves
  <2>1. tokens' = After(Keeper, Pool, Moved(Keeper, amount)) /\ reserve' = reserve
    BY <1>3 DEF FundFeePot, prizes
  <2>2. UNCHANGED <<userObs, totalObs, pending, winnings, draws, lent>>
    BY <1>3 DEF FundFeePot, record, prizes
  <2>3. \A u \in Users : tokens'[u] = tokens[u]
    BY <1>1, <2>1, UsersUntouched
  <2>4. reserve <= reserve'
    BY <1>1, <2>1
  <2> QED BY <2>2, <2>3, <2>4 DEF NoAccountMoves, RecordsStay, SettlementsStay, SameSettlement
<1>4. ASSUME NEW got \in 0..MaxUint64, Harvest(got) PROVE NoAccountMoves
  <2>1. got \in Nat /\ FeeShareDivisor \in Nat \ {0}
    BY Parameters
  <2>2. PICK fee \in Nat : fee = got \div FeeShareDivisor /\ fee <= got
    BY <2>1, DivisionShrinks
  <2>3. PICK rest \in Nat : rest = got - fee
    <3>1. \A a, b \in Nat : b <= a => a - b \in Nat
      OBVIOUS
    <3> QED BY <2>1, <2>2, <3>1, Zenon
  <2>4. /\ tokens' = After(yieldSource, Pool, got) /\ reserve' = TryAdd(reserve, rest)
        /\ UNCHANGED <<userObs, totalObs, pending, winnings, draws, lent>>
        /\ yieldSource # NoSource
    BY <1>4, <2>2, <2>3 DEF Harvest, record
  <2>5. yieldSource \in Sources /\ yieldSource # Pool
    BY <1>1, <2>4, ConstantsAssumption DEF TypeOK
  <2>6. tokens'[Pool] = tokens[Pool] + got
    BY <1>1, <2>1, <2>4, <2>5 DEF After
  <2>7. reserve + feePot + got <= MaxUint64
    BY <1>1, <2>1, <2>4, <2>6, IncomeFits
  <2>8. reserve + rest <= MaxUint64
    <3>1. feePot \in Nat /\ MaxUint64 \in Nat
      BY <1>1, Parameters DEF TypeOK
    <3> QED BY <1>1, <2>1, <2>2, <2>3, <2>7, <3>1
  <2>9. reserve <= reserve'
    BY <1>1, <2>3, <2>4, <2>8, ExactArithmetic
  <2>10. \A u \in Users : tokens'[u] = tokens[u]
    BY <1>1, <2>4, <2>5, UsersUntouched
  <2> QED BY <2>4, <2>9, <2>10 DEF NoAccountMoves, RecordsStay, SettlementsStay, SameSettlement
<1> QED
  BY <1>2, <1>3, <1>4 DEF Funding


LEMMA DrawingMovesNoRecord ==
  ASSUME Inductive, Drawing
  PROVE  (NoAccountMoves /\ reserve' = reserve) \/ FreshAward
<1>1. TypeOK /\ reserve \in Nat
  BY DEF Inductive, TypeOK
<1>2. ASSUME NEW owed, PayFromPot(Keeper, owed) PROVE \A u \in Users : tokens'[u] = tokens[u]
  BY <1>1, <1>2, UsersUntouched DEF PayFromPot
<1>3. ASSUME NEW r \in Rand, OpenDraw(Keeper, r) PROVE NoAccountMoves /\ reserve' = reserve
  <2>1. OpenedNext
    BY <1>3, OpenedCase
  <2>2. UNCHANGED <<userObs, totalObs, pending, winnings, reserve>>
    BY <1>3 DEF OpenDraw, record, prizes
  <2>3. \A u \in Users : tokens'[u] = tokens[u]
    BY <1>2, <1>3 DEF OpenDraw
  <2> QED BY <1>1, <2>1, <2>2, <2>3 DEF NoAccountMoves, RecordsStay
<1>4. ASSUME NEW d \in DOMAIN draws, RevealDraw(Keeper, d) \/ CancelDraw(d)
      PROVE  NoAccountMoves /\ reserve' = reserve
  <2>1. UNCHANGED <<userObs, totalObs, pending, winnings, reserve>>
    BY <1>4 DEF RevealDraw, CancelDraw, record, prizes
  <2>2. \A u \in Users : tokens'[u] = tokens[u]
    BY <1>2, <1>4 DEF RevealDraw, CancelDraw
  <2>3. SettlementsStay
    <3>1. PICK s \in {"Revealed", "Cancelled"} : draws' = [draws EXCEPT ![d].status = s]
      BY <1>4 DEF RevealDraw, CancelDraw
    <3>2. \A i \in DOMAIN draws : draws'[i] = draws[i] \/ draws'[i] = [draws[i] EXCEPT !.status = s]
      BY <3>1
    <3>3. \A i \in DOMAIN draws : SameSettlement(draws'[i], draws[i])
      BY <1>1, <3>2, DrawFields DEF SameSettlement, DrawRecord
    <3> QED BY <3>1, <3>3 DEF SettlementsStay
  <2> QED BY <1>1, <2>1, <2>2, <2>3 DEF NoAccountMoves, RecordsStay
<1>5. ASSUME NEW d \in DOMAIN draws, NEW batch \in SUBSET Users, Settle(d, batch),
             batch \cap draws[d].accrued = {}, RecordsStay, MayAccrue(d), tiers' = tiers
      PROVE  FreshAward
  <2>1. PICK a \in [Users -> Nat] : Awarded(d, batch, a)
    BY <1>5, SettleAwards
  <2> QED BY <1>5, <2>1 DEF FreshAward
<1>6. ASSUME NEW d \in DOMAIN draws, NEW u \in Users, Accrue(u, d) PROVE FreshAward
  <2>1. /\ Settle(d, {u}) /\ {u} \in SUBSET Users /\ {u} \cap draws[d].accrued = {} /\ RecordsStay
        /\ MayAccrue(d) /\ tiers' = tiers
    BY <1>6 DEF Accrue, record, RecordsStay, settings
  <2> QED BY <1>5, <2>1
<1>7. ASSUME NEW d \in DOMAIN draws, NEW batch \in SUBSET Users, AccrueMany(Keeper, batch, d)
      PROVE  FreshAward
  <2> DEFINE fresh == Unsettled(batch, d)
  <2>1. Settle(d, fresh) /\ fresh \in SUBSET Users /\ fresh \cap draws[d].accrued = {}
    BY <1>7 DEF AccrueMany, Unsettled
  <2>2. RecordsStay /\ MayAccrue(d) /\ tiers' = tiers
    BY <1>2, <1>7 DEF AccrueMany, record, RecordsStay, settings
  <2> HIDE DEF fresh
  <2> QED BY <1>5, <2>1, <2>2
<1> QED
  BY <1>3, <1>4, <1>6, <1>7 DEF Drawing

\* What the books know of one another while nothing overflows.
ExactBooks == CreditsAreAwarded /\ TotalIsSumOfBalances

\* Every step moves one account, makes an award, or does neither.
LEMMA BookStep ==
  ASSUME Inductive, NeverOverbooked, HeldFits, HeldFits', ExactBooks, [Next]_vars
  PROVE  \/ \E u \in Users, x \in Int : AccountMoves(u, x)
         \/ NoAccountMoves
         \/ FreshAward
<1>1. TypeOK /\ TypeOK' /\ CreditsAreAwarded /\ TotalIsSumOfBalances
  BY TypeStep DEF Inductive, ExactBooks
<1>2. CASE Record
  <2>1. ASSUME NEW u \in Users, NEW amount \in Amounts, Deposit(u, amount)
        PROVE  \E x \in Int : AccountMoves(u, x)
    BY <1>1, <2>1, DepositMoves
  <2>2. ASSUME NEW u \in Users, NEW amount \in Amounts, NEW sent, Withdraw(u, amount, sent)
        PROVE  \E x \in Int : AccountMoves(u, x)
    BY <1>1, <2>2, WithdrawMoves
  <2>3. ASSUME NEW u \in Users, Claim(u)
        PROVE  \E x \in Int : AccountMoves(u, x)
    BY <1>1, <2>3, ClaimMoves
  <2> QED BY <1>2, <2>1, <2>2, <2>3 DEF Record
<1>3. CASE Drawing
  BY <1>3, DrawingMovesNoRecord
<1>4. CASE Funding
  BY <1>1, <1>4, FundingMovesNoAccount
<1>5. CASE Configuring \/ Tick \/ UNCHANGED vars
  <2>1. UNCHANGED <<userObs, totalObs, pending, winnings, reserve, tokens, draws>>
    BY <1>5 DEF Configuring, SetYieldSource, SetTiers, SetKeeperFee, RenounceOwnership, Tick, vars,
                record, prizes, settings
  <2>2. reserve <= reserve'
    BY <1>1, <2>1 DEF TypeOK
  <2> QED BY <2>1, <2>2 DEF NoAccountMoves, RecordsStay, SettlementsStay, SameSettlement
<1> QED
  BY <1>2, <1>3, <1>4, <1>5 DEF Next

\* A credit only ever comes with an award, and a draw stays settled.
LEMMA CreditsStep ==
  ASSUME Inductive, NeverOverbooked, HeldFits, HeldFits', ExactBooks, [Next]_vars
  PROVE  CreditsAreAwarded'
<1>1. TypeOK /\ TypeOK' /\ Len(draws) \in Nat /\ DOMAIN draws = 1..Len(draws)
  BY TypeStep, LenProperties DEF Inductive, TypeOK
<1> SUFFICES ASSUME NEW v \in Users, pending'[v] # 0 PROVE HasPending(v)'
  BY DEF CreditsAreAwarded
<1>2. CASE pending[v] # 0 /\ (draws' = draws \/ NoAccountMoves \/ FreshAward)
  <2>1. PICK i \in DOMAIN draws : v \in draws[i].accrued
    BY <1>2 DEF ExactBooks, CreditsAreAwarded, HasPending
  <2>2. i \in DOMAIN draws' /\ draws[i].accrued \subseteq draws'[i].accrued
    <3>1. CASE draws' = draws \/ NoAccountMoves
      BY <1>1, <3>1 DEF NoAccountMoves, SettlementsStay, SameSettlement, OpenedNext
    <3>2. CASE FreshAward
      BY <3>2 DEF FreshAward, Awarded
    <3> QED BY <1>2, <3>1, <3>2
  <2> QED BY <2>1, <2>2 DEF HasPending
<1>3. CASE \E u \in Users, x \in Int : AccountMoves(u, x)
  <2>1. PICK u \in Users, x \in Int : AccountMoves(u, x)
    BY <1>3
  <2>2. draws' = draws /\ v # u /\ pending'[v] = pending[v]
    BY <2>1 DEF AccountMoves
  <2> QED BY <1>2, <2>2
<1>4. CASE NoAccountMoves
  <2>1. pending' = pending
    BY <1>4 DEF NoAccountMoves
  <2> QED BY <1>2, <1>4, <2>1
<1>5. CASE FreshAward
  <2>1. PICK d \in DOMAIN draws, batch \in SUBSET Users, a \in [Users -> Nat] : Awarded(d, batch, a)
    BY <1>5 DEF FreshAward
  <2>2. CASE v \in batch
    BY <2>1, <2>2 DEF Awarded, HasPending
  <2>3. CASE v \notin batch
    <3>1. pending'[v] = pending[v]
      BY <2>1, <2>3 DEF Awarded
    <3> QED BY <1>2, <1>5, <3>1
  <2> QED BY <2>2, <2>3
<1> QED
  BY <1>3, <1>4, <1>5, BookStep

\* The total moves by what one account's balance moves by.
LEMMA TotalStep ==
  ASSUME Inductive, NeverOverbooked, HeldFits, HeldFits', ExactBooks, [Next]_vars
  PROVE  TotalIsSumOfBalances'
<1>1. TypeOK /\ TypeOK'
  BY TypeStep DEF Inductive
<1>2. CASE \E u \in Users, x \in Int : AccountMoves(u, x)
  <2>1. PICK u \in Users, x \in Int : AccountMoves(u, x)
    BY <1>2
  <2>2. PICK f \in [Users -> Int] : f = Balances
    BY <1>1, BalancesType
  <2>3. PICK k \in [Users -> Int] : k = [w \in Users |-> BalanceOf(userObs'[w])]
    <3>1. \A w \in Users : BalanceOf(userObs'[w]) \in Int
      BY <1>1, BalanceType DEF TypeOK
    <3> QED BY <3>1
  <2>4. /\ k[u] = f[u] + pending[u] + x
        /\ \A w \in Users \ {u} : k[w] = f[w]
        /\ pending[u] \in Nat
    <3>1. f[u] = BalanceOf(userObs[u]) /\ Entitled(u) = f[u] + pending[u]
      BY <2>2 DEF Balances, Entitled
    <3>2. k[u] = f[u] + pending[u] + x
      BY <2>1, <2>3, <3>1 DEF AccountMoves
    <3>3. \A w \in Users \ {u} : k[w] = f[w]
      BY <2>1, <2>2, <2>3 DEF AccountMoves, Balances
    <3> QED BY <1>1, <3>2, <3>3 DEF TypeOK
  <2>5. DifferAt(u, f, k, Users)
    BY <2>4 DEF DifferAt
  <2>6. SumFunction(k) = SumFunction(f) - f[u] + k[u] /\ SumFunction(f) \in Int
    BY <2>5, Parameters, SumChange, SumType
  <2>7. SumFunction(k) = SumFunction(f) + pending[u] + x
    BY <2>4, <2>6
  <2>8. BalanceOf(totalObs') = SumFunction(f) + pending[u] + x
    BY <2>1, <2>2 DEF AccountMoves
  <2> QED BY <2>3, <2>7, <2>8 DEF TotalIsSumOfBalances
<1>3. CASE NoAccountMoves \/ FreshAward
  <2>1. UNCHANGED <<userObs, totalObs>>
    BY <1>3 DEF NoAccountMoves, FreshAward, RecordsStay
  <2> QED BY <2>1 DEF ExactBooks, TotalIsSumOfBalances
<1> QED
  BY <1>2, <1>3, BookStep

LEMMA InitExact ==
  ASSUME Init
  PROVE  ExactBooks
<1>1. \A u \in Users : pending[u] = 0
  BY DEF Init
<1>2. [u \in Users |-> BalanceOf(userObs[u])] = [u \in Users |-> 0] /\ BalanceOf(totalObs) = 0
  <2>1. \A u \in Users : BalanceOf(userObs[u]) = 0
    BY DEF Init, BalanceOf
  <2> QED BY <2>1 DEF Init, BalanceOf
<1> QED
  BY <1>1, <1>2, Parameters, SumZero DEF ExactBooks, CreditsAreAwarded, TotalIsSumOfBalances

LEMMA ExactHolds == Spec /\ []HeldFits => []ExactBooks
<1>1. Init => ExactBooks
  BY InitExact
<1>2. Inductive /\ NeverOverbooked /\ HeldFits /\ HeldFits' /\ ExactBooks /\ [Next]_vars
        => ExactBooks'
  BY CreditsStep, TotalStep DEF ExactBooks
<1> QED
  BY <1>1, <1>2, InductiveHolds, AlwaysCovered, PTL DEF Spec


-----------------------------------------------------------------------------
(* Weights: the total's record integrates the sum of the accounts' records. *)

CumulativesAt(t) == [u \in Users |-> CumulativeAt(userObs[u], t)]

\* At every moment up to now.
RecordsAgree ==
  \A t \in 0..now : CumulativeAt(totalObs, t) = SumFunction(CumulativesAt(t))

\* The published total is what the total's record says of the draw's window.
WeightsPublished ==
  \A d \in DOMAIN draws :
    draws[d].totalWeight =
      CumulativeAt(totalObs, draws[d].snapshotAt) - CumulativeAt(totalObs, draws[d].periodStart)

\* No step changes what the total's record says of the past.
LEMMA TotalKeepsThePast ==
  ASSUME Inductive, [Next]_vars
  PROVE  \A t \in 0..now : CumulativeAt(totalObs', t) = CumulativeAt(totalObs, t)
<1>1. TypeOK /\ RecordsSound
  BY DEF Inductive
<1>2. ASSUME NEW u \in Users, RecordsExtended(u)
      PROVE  \A t \in 0..now : CumulativeAt(totalObs', t) = CumulativeAt(totalObs, t)
  BY <1>2 DEF RecordsExtended, Extends
<1>3. CASE totalObs' = totalObs
  BY <1>3
<1> QED
  BY <1>1, <1>2, <1>3, RecordFrame, DepositExtends, WithdrawExtends, ClaimExtends DEF Tick, record

LEMMA CumulativesType ==
  ASSUME Inductive, NEW t \in 0..now
  PROVE  /\ CumulativesAt(t) \in [Users -> Int]
         /\ \A u \in Users : CumulativesAt(t)[u] = CumulativeAt(userObs[u], t)
<1>1. \A u \in Users : CumulativeAt(userObs[u], t) \in Int
  <2> SUFFICES ASSUME NEW u \in Users PROVE CumulativeAt(userObs[u], t) \in Int
    OBVIOUS
  <2>1. IsRecord(userObs[u], now) /\ now \in Nat
    BY DEF Inductive, RecordsSound, TypeOK
  <2>2. CumulativeAt(userObs[u], t) \in Nat
    BY <2>1, CumulativeType
  <2> QED BY <2>2
<1> QED
  BY <1>1 DEF CumulativesAt

\* The second that passes adds every account's balance to its cumulative, and the
\* sum of the balances to the total's.
LEMMA TickAgrees ==
  ASSUME Inductive, TotalIsSumOfBalances, RecordsAgree, Tick
  PROVE  CumulativeAt(totalObs, now + 1) = SumFunction(CumulativesAt(now + 1))
<1>1. TypeOK /\ now \in Nat /\ now \in 0..now /\ IsRecord(totalObs, now)
  BY DEF Inductive, RecordsSound, TypeOK
<1>2. PICK f \in [Users -> Int] : f = CumulativesAt(now)
  BY <1>1, CumulativesType
<1>3. PICK g \in [Users -> Int] : g = Balances
  BY <1>1, BalancesType
<1>4. \A u \in Users : CumulativesAt(now + 1)[u] = f[u] + g[u]
  <2> SUFFICES ASSUME NEW u \in Users PROVE CumulativesAt(now + 1)[u] = f[u] + g[u]
    OBVIOUS
  <2>1. IsRecord(userObs[u], now)
    BY DEF Inductive, RecordsSound
  <2>2. CumulativeAt(userObs[u], now + 1) = CumulativeAt(userObs[u], now) + BalanceOf(userObs[u])
    BY <1>1, <2>1, NextSecond
  <2> QED BY <1>2, <1>3, <2>2 DEF CumulativesAt, Balances
<1>5. PICK k \in [Users -> Int] : k = CumulativesAt(now + 1)
  <2>1. \A u \in Users : f[u] + g[u] \in Int
    OBVIOUS
  <2> QED BY <1>4, <2>1 DEF CumulativesAt
<1>6. SumFunction(k) = SumFunction(f) + SumFunction(g)
  BY <1>4, <1>5, Parameters, SumAdd
<1>7. CumulativeAt(totalObs, now + 1) = CumulativeAt(totalObs, now) + BalanceOf(totalObs)
  BY <1>1, NextSecond
<1>8. CumulativeAt(totalObs, now) = SumFunction(f) /\ BalanceOf(totalObs) = SumFunction(g)
  BY <1>1, <1>2, <1>3 DEF RecordsAgree, TotalIsSumOfBalances, Balances
<1> QED
  BY <1>5, <1>6, <1>7, <1>8

LEMMA AgreeStep ==
  ASSUME Inductive, Inductive', TotalIsSumOfBalances, RecordsAgree, [Next]_vars
  PROVE  RecordsAgree'
<1>1. TypeOK /\ RecordsSound /\ now \in Nat
  BY DEF Inductive, TypeOK
<1>2. ASSUME NEW t \in 0..now
      PROVE  CumulativeAt(totalObs', t) = SumFunction([u \in Users |-> CumulativeAt(userObs'[u], t)])
  <2>1. \A u \in Users : CumulativeAt(userObs'[u], t) = CumulativeAt(userObs[u], t)
    BY <1>1, RecordStep
  <2>2. [u \in Users |-> CumulativeAt(userObs'[u], t)] = CumulativesAt(t)
    BY <2>1 DEF CumulativesAt
  <2> QED BY <2>2, TotalKeepsThePast DEF RecordsAgree
<1>3. CASE Tick
  <2>1. now' = now + 1 /\ userObs' = userObs /\ totalObs' = totalObs
    BY <1>3 DEF Tick, record
  <2>2. CumulativeAt(totalObs, now + 1) = SumFunction(CumulativesAt(now + 1))
    BY <1>3, TickAgrees
  <2>3. ASSUME NEW t \in 0..(now + 1)
        PROVE  CumulativeAt(totalObs', t) = SumFunction([u \in Users |-> CumulativeAt(userObs'[u], t)])
    <3>1. t \in 0..now \/ t = now + 1
      BY <1>1
    <3> QED BY <1>2, <2>1, <2>2, <3>1 DEF CumulativesAt
  <2> QED BY <2>1, <2>3 DEF RecordsAgree, CumulativesAt
<1>4. CASE now' = now
  BY <1>2, <1>4 DEF RecordsAgree, CumulativesAt
<1> QED
  BY <1>3, <1>4, RecordFrame

LEMMA PublishedStep ==
  ASSUME Inductive, WeightsPublished, [Next]_vars
  PROVE  WeightsPublished'
<1>1. TypeOK /\ WindowsInOrder /\ RecordsSound
  BY DEF Inductive
<1> SUFFICES ASSUME NEW d \in DOMAIN draws'
             PROVE  draws'[d].totalWeight = CumulativeAt(totalObs', draws'[d].snapshotAt)
                                              - CumulativeAt(totalObs', draws'[d].periodStart)
  BY DEF WeightsPublished
<1>2. CASE d \in DOMAIN draws /\ SameWindow(draws'[d], draws[d])
  <2>1. draws[d].periodStart \in 0..now /\ draws[d].snapshotAt \in 0..now
    BY <1>1, <1>2, DrawMoments
  <2> QED BY <1>2, <2>1, TotalKeepsThePast DEF WeightsPublished, SameWindow
<1>3. CASE \E r \in Rand : draws'[d] = Opened(r)
  <2>1. now \in 0..now /\ Previous \in 0..now
    BY <1>1, PreviousMoment
  <2> QED BY <1>3, <2>1, TotalKeepsThePast DEF Opened
<1>4. CASE OpenedNext
  <2>1. Len(draws) \in Nat /\ DOMAIN draws = 1..Len(draws)
    BY <1>1, LenProperties DEF TypeOK
  <2>2. d \in DOMAIN draws \/ d = Len(draws) + 1
    BY <1>4, <2>1 DEF OpenedNext
  <2> QED BY <1>2, <1>3, <1>4, <2>2 DEF OpenedNext, SameWindow
<1>5. CASE KeptAll
  BY <1>2, <1>5 DEF KeptAll, KeptDraw
<1> QED
  BY <1>4, <1>5, DrawsStep

\* Hence the accounts' weights in a draw add up to its published weight.
LEMMA WeightsAdd ==
  ASSUME Inductive, RecordsAgree, WeightsPublished
  PROVE  WeightsSumToTotal
<1> SUFFICES ASSUME NEW d \in DOMAIN draws
             PROVE  SumFunction([u \in Users |-> AccrualWeight(u, d)]) = draws[d].totalWeight
  BY DEF WeightsSumToTotal
<1>1. TypeOK /\ WindowsInOrder
  BY DEF Inductive
<1>2. draws[d].periodStart \in 0..now /\ draws[d].snapshotAt \in 0..now
  BY <1>1, DrawMoments
<1>3. PICK f \in [Users -> Int] : f = CumulativesAt(draws[d].periodStart)
  BY <1>2, CumulativesType
<1>4. PICK k \in [Users -> Int] : k = CumulativesAt(draws[d].snapshotAt)
  BY <1>2, CumulativesType
<1>5. \A u \in Users : AccrualWeight(u, d) = k[u] - f[u]
  BY <1>3, <1>4, CacheReads DEF AccrualWeight, CumulativesAt
<1>6. PICK g \in [Users -> Int] : g = [u \in Users |-> AccrualWeight(u, d)]
  <2>1. \A u \in Users : k[u] - f[u] \in Int
    OBVIOUS
  <2> QED BY <1>5, <2>1
<1>7. \A u \in Users : k[u] = f[u] + g[u]
  BY <1>5, <1>6
<1>8. SumFunction(k) = SumFunction(f) + SumFunction(g)
  BY <1>7, Parameters, SumAdd
<1>9. SumFunction(f) \in Int /\ SumFunction(g) \in Int
  BY Parameters, SumType
<1>10. draws[d].totalWeight = SumFunction(k) - SumFunction(f)
  BY <1>2, <1>3, <1>4 DEF WeightsPublished, RecordsAgree
<1> QED
  BY <1>6, <1>8, <1>9, <1>10

LEMMA InitAgrees ==
  ASSUME Init
  PROVE  RecordsAgree /\ WeightsPublished
<1>1. DOMAIN draws = {}
  BY DEF Init
<1>2. ASSUME NEW t PROVE CumulativeAt(totalObs, t) = SumFunction(CumulativesAt(t))
  <2>1. CumulativesAt(t) = [u \in Users |-> 0] /\ CumulativeAt(totalObs, t) = 0
    <3>1. \A u \in Users : CumulativeAt(userObs[u], t) = 0
      BY DEF Init, CumulativeAt
    <3> QED BY <3>1 DEF Init, CumulativeAt, CumulativesAt
  <2> QED BY <2>1, Parameters, SumZero
<1> QED
  BY <1>1, <1>2 DEF RecordsAgree, WeightsPublished

\* Odds are stated right (openDraw's total weight, accrue's weights): whatever is
\* deposited, withdrawn, claimed, cancelled or cached, every draw's weights add up
\* to the weight its thresholds are drawn from, as long as what the pool holds
\* fits the width of an amount.
THEOREM WeightsAlwaysAddUp == Spec /\ []HeldFits => []WeightsSumToTotal
<1>1. Init => RecordsAgree /\ WeightsPublished
  BY InitAgrees
<1>2. Inductive /\ Inductive' /\ ExactBooks /\ RecordsAgree /\ WeightsPublished /\ [Next]_vars
        => RecordsAgree' /\ WeightsPublished'
  BY AgreeStep, PublishedStep DEF ExactBooks
<1>3. Inductive /\ RecordsAgree /\ WeightsPublished => WeightsSumToTotal
  BY WeightsAdd
<1> QED
  BY <1>1, <1>2, <1>3, ExactHolds, InductiveHolds, PTL DEF Spec


-----------------------------------------------------------------------------
(* Prizes: while no account's winnings overflow, an award is what the draw  *)
(* paid, and an account's claim moves with its money.                      *)

WinningsFit == \A u \in Users : winnings[u] + reserve <= MaxUint64

\* A draw has paid nothing to an account it has not settled.
PaidIsAwarded ==
  \A d \in DOMAIN draws : \A u \in Users \ draws[d].accrued : draws[d].paid[u] = 0

LEMMA AwardExact ==
  ASSUME TypeOK, NeverOverbooked, HeldFits, WinningsFit,
         NEW d, NEW batch, NEW a \in [Users -> Nat], Awarded(d, batch, a)
  PROVE  \A u \in Users : pending'[u] = pending[u] + a[u] /\ winnings'[u] = winnings[u] + a[u]
<1> SUFFICES ASSUME NEW u \in Users
             PROVE  pending'[u] = pending[u] + a[u] /\ winnings'[u] = winnings[u] + a[u]
  OBVIOUS
<1>1. PICK p, w, r, x, m \in Nat :
        p = pending[u] /\ w = winnings[u] /\ r = reserve /\ x = a[u] /\ m = MaxUint64
  BY Parameters DEF TypeOK
<1>2. x <= r /\ (u \notin batch => x = 0)
  BY <1>1 DEF Awarded
<1>3. p + x <= m
  <2>1. PICK b, f \in Nat : b = SumFunction(Balances) /\ f = feePot
    BY BalancesType, BooksFit
  <2>2. b + p + (r + f) <= Held /\ Held \in Int /\ Held <= m
    BY <1>1, <2>1, BooksFit DEF HeldFits
  <2> QED BY <1>2, <2>2
<1>4. w + x <= m
  <2>1. w + r <= m
    BY <1>1 DEF WinningsFit
  <2> QED BY <1>2, <2>1
<1>5. TryAdd(p, x) = p + x /\ TryAdd(w, x) = w + x
  BY <1>1, <1>3, <1>4, ExactArithmetic
<1>6. CASE u \in batch
  BY <1>1, <1>5, <1>6 DEF Awarded
<1>7. CASE u \notin batch
  <2>1. pending'[u] = p /\ winnings'[u] = w
    BY <1>1, <1>7 DEF Awarded
  <2> QED BY <1>1, <1>2, <1>7, <2>1
<1> QED
  BY <1>6, <1>7

LEMMA PaidType ==
  ASSUME NEW dr \in Seq(DrawRecord), NEW u \in Users
  PROVE  \A i \in DOMAIN dr : dr[i].paid[u] \in Int
<1> SUFFICES ASSUME NEW i \in DOMAIN dr PROVE dr[i].paid[u] \in Int
  OBVIOUS
<1>1. dr[i] \in DrawRecord
  BY LenProperties
<1>2. dr[i].paid \in [Users -> Nat]
  BY <1>1 DEF DrawRecord
<1> QED
  BY <1>2

\* What the draws paid an account.
PaidTo(u) == [d \in DOMAIN draws |-> draws[d].paid[u]]

LEMMA PaidToType ==
  ASSUME TypeOK, NEW u \in Users
  PROVE  /\ PaidTo(u) \in [DOMAIN draws -> Int] /\ IsFiniteSet(DOMAIN draws)
         /\ \A d \in DOMAIN draws : PaidTo(u)[d] = draws[d].paid[u] /\ draws[d].paid[u] \in Nat
<1>1. \A d \in DOMAIN draws : draws[d].paid[u] \in Nat
  BY DrawFields DEF DrawRecord
<1>2. IsFiniteSet(DOMAIN draws)
  <2>1. Len(draws) \in Nat /\ DOMAIN draws = 1..Len(draws)
    BY LenProperties DEF TypeOK
  <2> QED BY <2>1, FS_Interval
<1> QED
  BY <1>1, <1>2 DEF PaidTo

PaidAtMostWon(u) == \A d \in DOMAIN draws : draws[d].paid[u] \in {0, draws[d].cleared[u]}

\* An award adds to the account's winnings what the draw now paid it.
LEMMA AwardPaid ==
  ASSUME TypeOK, TypeOK', NeverOverbooked, HeldFits, WinningsFit, WinningsAddUp, PaidIsAwarded,
         FreshAward, NEW u \in Users
  PROVE  winnings'[u] = SumFunction([i \in DOMAIN draws' |-> draws'[i].paid[u]])
<1>1. PICK d \in DOMAIN draws, batch \in SUBSET Users, a \in [Users -> Nat] :
        Awarded(d, batch, a) /\ batch \cap draws[d].accrued = {}
  BY DEF FreshAward
<1>2. winnings'[u] = winnings[u] + a[u] /\ winnings[u] \in Nat /\ a[u] \in Nat
  BY <1>1, AwardExact DEF TypeOK
<1>3. PICK f \in [DOMAIN draws -> Int] : f = PaidTo(u)
  BY PaidToType
<1>4. DOMAIN draws' = DOMAIN draws
  BY <1>1 DEF Awarded
<1>5. PICK k \in [DOMAIN draws -> Int] : k = [i \in DOMAIN draws' |-> draws'[i].paid[u]]
  <2>1. \A i \in DOMAIN draws' : draws'[i].paid[u] \in Int
    BY PaidType DEF TypeOK
  <2> QED BY <1>4, <2>1
<1>6. winnings[u] = SumFunction(f)
  BY <1>3 DEF WinningsAddUp, PaidTo
<1>7. \A i \in DOMAIN draws \ {d} : k[i] = f[i]
  BY <1>1, <1>3, <1>4, <1>5 DEF Awarded, PaidTo
<1>8. k[d] = f[d] + a[u]
  <2>1. CASE u \in batch
    <3>1. f[d] = 0
      BY <1>1, <1>3, <2>1 DEF PaidIsAwarded, PaidTo
    <3>2. k[d] = a[u]
      BY <1>1, <1>4, <1>5, <2>1 DEF Awarded
    <3> QED BY <1>2, <3>1, <3>2
  <2>2. CASE u \notin batch
    <3>1. a[u] = 0 /\ k[d] = f[d]
      BY <1>1, <1>3, <1>4, <1>5, <2>2 DEF Awarded, PaidTo
    <3> QED BY <3>1
  <2> QED BY <2>1, <2>2
<1>9. DifferAt(d, f, k, DOMAIN draws)
  BY <1>7 DEF DifferAt
<1>10. SumFunction(k) = SumFunction(f) - f[d] + k[d] /\ SumFunction(f) \in Int
  BY <1>9, PaidToType, SumChange, SumType
<1>11. SumFunction(k) = SumFunction(f) + a[u]
  BY <1>2, <1>8, <1>10
<1> QED
  BY <1>2, <1>5, <1>6, <1>11

\* A draw that opens has paid nothing.
LEMMA OpeningPaysNothing ==
  ASSUME TypeOK, TypeOK', OpenedNext, NEW u \in Users
  PROVE  SumFunction([i \in DOMAIN draws' |-> draws'[i].paid[u]]) = SumFunction(PaidTo(u))
<1>1. Len(draws) \in Nat /\ DOMAIN draws = 1..Len(draws) /\ DOMAIN draws' = 1..(Len(draws) + 1)
  BY LenProperties DEF TypeOK, OpenedNext
<1>2. PICK n \in DOMAIN draws' : n = Len(draws) + 1 /\ DOMAIN draws = DOMAIN draws' \ {n}
  BY <1>1
<1>3. IsFiniteSet(DOMAIN draws')
  BY <1>1, FS_Interval
<1>4. PICK k \in [DOMAIN draws' -> Int] : k = [i \in DOMAIN draws' |-> draws'[i].paid[u]]
  <2>1. \A i \in DOMAIN draws' : draws'[i].paid[u] \in Int
    BY PaidType DEF TypeOK
  <2> QED BY <2>1
<1>5. PICK f \in [DOMAIN draws' \ {n} -> Int] : f = PaidTo(u)
  BY <1>2, PaidToType
<1>6. k[n] = 0
  BY <1>2, <1>4 DEF OpenedNext, Opened
<1>7. \A i \in DOMAIN draws' \ {n} : f[i] = k[i]
  BY <1>2, <1>4, <1>5 DEF OpenedNext, PaidTo
<1>8. SumFunction(k) = SumFunction(f)
  BY <1>3, <1>6, <1>7, SumWithout
<1> QED
  BY <1>4, <1>5, <1>8

LEMMA WinningsStep ==
  ASSUME Inductive, NeverOverbooked, HeldFits, HeldFits', ExactBooks, WinningsFit,
         WinningsAddUp, PaidIsAwarded, [Next]_vars
  PROVE  WinningsAddUp' /\ PaidIsAwarded'
<1>1. TypeOK /\ TypeOK' /\ Len(draws) \in Nat /\ DOMAIN draws = 1..Len(draws)
  BY TypeStep, LenProperties DEF Inductive, TypeOK
<1>2. CASE winnings' = winnings /\ SettlementsStay
  <2>1. ASSUME NEW u \in Users
        PROVE  [i \in DOMAIN draws' |-> draws'[i].paid[u]] = [i \in DOMAIN draws |-> draws[i].paid[u]]
    BY <1>2 DEF SettlementsStay, SameSettlement
  <2>2. WinningsAddUp'
    BY <1>2, <2>1 DEF WinningsAddUp, SettlementsStay, SameSettlement
  <2>3. PaidIsAwarded'
    BY <1>2 DEF PaidIsAwarded, SettlementsStay, SameSettlement
  <2> QED BY <2>2, <2>3
<1>3. CASE winnings' = winnings /\ OpenedNext
  <2>1. \A i \in DOMAIN draws' : i \in DOMAIN draws \/ i = Len(draws) + 1
    BY <1>1, <1>3 DEF OpenedNext
  <2>2. ASSUME NEW u \in Users
        PROVE  winnings'[u] = SumFunction([i \in DOMAIN draws' |-> draws'[i].paid[u]])
    BY <1>1, <1>3, OpeningPaysNothing DEF WinningsAddUp, PaidTo
  <2>3. \A i \in DOMAIN draws', u \in Users : draws'[i].paid[u] \in {0, draws'[i].cleared[u]}
    <3> SUFFICES ASSUME NEW i \in DOMAIN draws', NEW u \in Users
                 PROVE  draws'[i].paid[u] \in {0, draws'[i].cleared[u]}
      OBVIOUS
    <3>1. CASE i \in DOMAIN draws
      BY <1>3, <3>1 DEF OpenedNext, WinningsAddUp
    <3>2. CASE i = Len(draws) + 1
      <4>1. draws'[i].paid[u] = 0
        BY <1>3, <3>2 DEF OpenedNext, Opened
      <4> QED BY <4>1
    <3> QED BY <2>1, <3>1, <3>2
  <2>4. PaidIsAwarded'
    BY <1>3, <2>1 DEF OpenedNext, Opened, PaidIsAwarded
  <2> QED BY <2>2, <2>3, <2>4 DEF WinningsAddUp
<1>4. CASE \E u \in Users, x \in Int : AccountMoves(u, x)
  <2>1. winnings' = winnings /\ draws' = draws
    BY <1>4 DEF AccountMoves
  <2> QED BY <1>2, <2>1 DEF SettlementsStay, SameSettlement
<1>5. CASE NoAccountMoves
  BY <1>2, <1>3, <1>5 DEF NoAccountMoves
<1>6. CASE FreshAward
  <2>1. PICK d \in DOMAIN draws, batch \in SUBSET Users, a \in [Users -> Nat] :
          Awarded(d, batch, a) /\ batch \cap draws[d].accrued = {}
    BY <1>6 DEF FreshAward
  <2>2. DOMAIN draws' = DOMAIN draws
    BY <2>1 DEF Awarded
  <2>3. ASSUME NEW u \in Users
        PROVE  winnings'[u] = SumFunction([i \in DOMAIN draws' |-> draws'[i].paid[u]])
    BY <1>1, <1>6, AwardPaid
  <2>4. ASSUME NEW i \in DOMAIN draws', NEW u \in Users
        PROVE  /\ draws'[i].paid[u] \in {0, draws'[i].cleared[u]}
               /\ u \notin draws'[i].accrued => draws'[i].paid[u] = 0
    <3>1. CASE draws'[i].paid[u] = draws[i].paid[u] /\ draws'[i].cleared[u] = draws[i].cleared[u]
                 /\ draws[i].accrued \subseteq draws'[i].accrued
      BY <2>2, <3>1 DEF WinningsAddUp, PaidIsAwarded
    <3>2. CASE i = d /\ u \in batch
      BY <2>1, <3>2 DEF Awarded
    <3>3. CASE i = d /\ u \notin batch
      BY <2>1, <3>1, <3>3 DEF Awarded
    <3>4. CASE i # d
      <4>1. i \in DOMAIN draws \ {d}
        BY <2>2, <3>4
      <4> QED BY <2>1, <3>1, <4>1 DEF Awarded
    <3> QED BY <3>2, <3>3, <3>4
  <2> QED BY <2>3, <2>4 DEF WinningsAddUp, PaidIsAwarded
<1> QED
  BY <1>4, <1>5, <1>6, BookStep

LEMMA InitWinnings ==
  ASSUME Init
  PROVE  WinningsAddUp /\ PaidIsAwarded
<1>1. DOMAIN draws = {} /\ IsFiniteSet({})
  BY FS_EmptySet DEF Init
<1>2. \A u \in Users : winnings[u] = 0
  BY DEF Init
<1>3. ASSUME NEW u \in Users PROVE SumFunction([d \in DOMAIN draws |-> draws[d].paid[u]]) = 0
  <2>1. [d \in DOMAIN draws |-> draws[d].paid[u]] = [d \in {} |-> 0]
    BY <1>1
  <2> QED BY <1>1, <2>1, SumZero
<1> QED
  BY <1>1, <1>2, <1>3 DEF WinningsAddUp, PaidIsAwarded

LEMMA WinningsHold == Spec /\ []HeldFits /\ []WinningsFit => []WinningsAddUp
<1>1. Init => WinningsAddUp /\ PaidIsAwarded
  BY InitWinnings
<1>2. /\ Inductive /\ NeverOverbooked /\ HeldFits /\ HeldFits' /\ ExactBooks /\ WinningsFit
      /\ WinningsAddUp /\ PaidIsAwarded /\ [Next]_vars
      => WinningsAddUp' /\ PaidIsAwarded'
  BY WinningsStep
<1> QED
  BY <1>1, <1>2, ExactHolds, InductiveHolds, AlwaysCovered, PTL DEF Spec


\* What every step does to every account's claim.
ClaimsMoveWithMoney ==
  \A u \in Users :
    Entitled(u)' - Entitled(u) = (tokens[u] - tokens'[u]) + (winnings'[u] - winnings[u])

LEMMA ClaimsMove ==
  ASSUME Inductive, NeverOverbooked, HeldFits, HeldFits', ExactBooks, WinningsFit, [Next]_vars
  PROVE  ClaimsMoveWithMoney
<1>1. TypeOK /\ TypeOK'
  BY TypeStep DEF Inductive
<1> SUFFICES ASSUME NEW v \in Users
             PROVE  (BalanceOf(userObs'[v]) + pending'[v]) - Entitled(v) =
                      (tokens[v] - tokens'[v]) + (winnings'[v] - winnings[v])
  BY DEF ClaimsMoveWithMoney, Entitled
<1>2. PICK b, p, w, t \in Nat :
        /\ b = BalanceOf(userObs[v]) /\ p = pending[v] /\ w = winnings[v] /\ t = tokens[v]
        /\ Entitled(v) = b + p
  <2>1. BalanceOf(userObs[v]) \in Nat
    BY <1>1, BalanceType DEF TypeOK
  <2>2. tokens[v] \in Nat
    BY <1>1, Parameters DEF TypeOK
  <2> QED BY <1>1, <2>1, <2>2 DEF TypeOK, Entitled
<1>3. CASE /\ userObs'[v] = userObs[v] /\ pending'[v] = pending[v]
           /\ winnings'[v] = winnings[v] /\ tokens'[v] = tokens[v]
  <2>1. BalanceOf(userObs'[v]) = b /\ pending'[v] = p /\ tokens'[v] = t /\ winnings'[v] = w
    BY <1>2, <1>3
  <2>2. (b + p) - (b + p) = (t - t) + (w - w)
    OBVIOUS
  <2> QED BY <1>2, <2>1, <2>2, Zenon
<1>4. ASSUME NEW u \in Users, NEW x \in Int, AccountMoves(u, x)
      PROVE  (BalanceOf(userObs'[v]) + pending'[v]) - Entitled(v) =
               (tokens[v] - tokens'[v]) + (winnings'[v] - winnings[v])
  <2>1. CASE u = v
    <3>1. /\ BalanceOf(userObs'[v]) = b + p + x /\ pending'[v] = 0
          /\ tokens'[v] = t - x /\ winnings'[v] = w
      BY <1>2, <1>4, <2>1 DEF AccountMoves
    <3> QED BY <1>2, <3>1
  <2>2. CASE u # v
    BY <1>3, <1>4, <2>2 DEF AccountMoves
  <2> QED BY <2>1, <2>2
<1>5. CASE NoAccountMoves
  BY <1>3, <1>5 DEF NoAccountMoves, RecordsStay
<1>6. CASE FreshAward
  <2>1. PICK d \in DOMAIN draws, batch \in SUBSET Users, a \in [Users -> Nat] :
          Awarded(d, batch, a) /\ RecordsStay
    BY <1>6 DEF FreshAward
  <2>2. PICK x \in Nat : x = a[v]
    OBVIOUS
  <2>3. pending'[v] = p + x /\ winnings'[v] = w + x
    BY <1>1, <1>2, <2>1, <2>2, AwardExact
  <2>4. BalanceOf(userObs'[v]) = b /\ tokens'[v] = t
    BY <1>2, <2>1 DEF RecordsStay
  <2> QED BY <1>2, <2>3, <2>4
<1> QED
  BY <1>4, <1>5, <1>6, BookStep

\* What every step that lowers the reserve does to the winnings.
PrizesComeFromReserve ==
  reserve' < reserve => reserve - reserve' = SumFunction(winnings') - SumFunction(winnings)

LEMMA ReservePays ==
  ASSUME Inductive, NeverOverbooked, HeldFits, HeldFits', ExactBooks, WinningsFit, [Next]_vars
  PROVE  PrizesComeFromReserve
<1>1. TypeOK /\ TypeOK'
  BY TypeStep DEF Inductive
<1>2. CASE reserve <= reserve'
  <2>1. reserve \in Nat /\ reserve' \in Nat
    BY <1>1 DEF TypeOK
  <2>2. ~(reserve' < reserve)
    BY <1>2, <2>1
  <2> QED BY <2>2 DEF PrizesComeFromReserve
<1>3. ASSUME NEW u \in Users, NEW x \in Int, AccountMoves(u, x) PROVE reserve <= reserve'
  BY <1>1, <1>3 DEF AccountMoves, TypeOK
<1>4. CASE FreshAward
  <2>1. PICK d \in DOMAIN draws, batch \in SUBSET Users, a \in [Users -> Nat] : Awarded(d, batch, a)
    BY <1>4 DEF FreshAward
  <2>2. PICK f \in [Users -> Int] : f = winnings
    BY <1>1 DEF TypeOK
  <2>3. PICK k \in [Users -> Int] : k = winnings'
    BY <1>1 DEF TypeOK
  <2>4. \A u \in Users : k[u] = f[u] + a[u]
    BY <1>1, <2>1, <2>2, <2>3, AwardExact
  <2>5. a \in [Users -> Int]
    OBVIOUS
  <2>6. SumFunction(k) = SumFunction(f) + SumFunction(a)
    BY <2>4, <2>5, Parameters, SumAdd
  <2>7. SumFunction(f) \in Int /\ SumFunction(a) \in Int
    BY <2>5, Parameters, SumType
  <2>8. SumFunction(a) = reserve - reserve'
    BY <2>1 DEF Awarded
  <2>9. SumFunction(k) - SumFunction(f) = reserve - reserve'
    BY <2>6, <2>7, <2>8
  <2> QED BY <2>2, <2>3, <2>9 DEF PrizesComeFromReserve
<1> QED
  BY <1>2, <1>3, <1>4, BookStep DEF NoAccountMoves

\* No transaction of one account touches another's claim (deposit, withdraw, claim,
\* accrue, and everything else the pool does), whatever sources are bound.
THEOREM ClaimsFollowMoney == Spec /\ []HeldFits /\ []WinningsFit => EntitlementMovesWithMoney
<1>1. /\ Inductive /\ NeverOverbooked /\ HeldFits /\ HeldFits' /\ ExactBooks /\ WinningsFit
      /\ [Next]_vars
      => ClaimsMoveWithMoney
  BY ClaimsMove
<1>2. Spec /\ []HeldFits /\ []WinningsFit => [][ClaimsMoveWithMoney]_vars
  BY <1>1, ExactHolds, InductiveHolds, AlwaysCovered, PTL DEF Spec
<1> QED
  BY <1>2 DEF EntitlementMovesWithMoney, ClaimsMoveWithMoney

\* Keeper fees and liveness rewards never come out of the prizes (_payKeeper,
\* _payLiveness), whatever sources are bound.
THEOREM ReserveIsForPrizes == Spec /\ []HeldFits /\ []WinningsFit => ReserveBuysOnlyPrizes
<1>1. /\ Inductive /\ NeverOverbooked /\ HeldFits /\ HeldFits' /\ ExactBooks /\ WinningsFit
      /\ [Next]_vars
      => PrizesComeFromReserve
  BY ReservePays
<1>2. Spec /\ []HeldFits /\ []WinningsFit => [][PrizesComeFromReserve]_vars
  BY <1>1, ExactHolds, InductiveHolds, AlwaysCovered, PTL DEF Spec
<1> QED
  BY <1>2 DEF ReserveBuysOnlyPrizes, PrizesComeFromReserve


-----------------------------------------------------------------------------
(* The pool without a source: tokens are only ever moved, so nothing        *)
(* overflows, what it holds is what it owes, and what the keeper put in is  *)
(* in the reserve, in the pot, won, or the keeper's again.                 *)

\* The tokens there are.
Issued == SumFunction([a \in Accounts |-> IF a = Pool THEN 0 ELSE Supply])

LEMMA AccountsFinite == IsFiniteSet(Accounts)
<1>1. IsFiniteSet(Users \cup Sources)
  BY Parameters, FS_Union
<1>2. IsFiniteSet({Keeper}) /\ IsFiniteSet({Pool})
  BY FS_Singleton
<1>3. IsFiniteSet({Keeper} \cup {Pool}) /\ {Keeper} \cup {Pool} = {Keeper, Pool}
  BY <1>2, FS_Union
<1> QED
  BY <1>1, <1>3, FS_Union DEF Accounts

\* A transfer moves tokens from one account to another.
LEMMA TransferConserves ==
  ASSUME TypeOK, NEW from \in Accounts, NEW to \in Accounts, NEW sent \in Nat,
         tokens' = After(from, to, sent)
  PROVE  SumFunction(tokens') = SumFunction(tokens)
<1>1. PICK f \in [Accounts -> Int] : f = tokens
  BY DEF TypeOK
<1>2. SumFunction(f) \in Int
  BY AccountsFinite, SumType
<1>3. PICK less \in Int : less = f[from] - sent
  OBVIOUS
<1>4. PICK mid \in [Accounts -> Int] : mid = [f EXCEPT ![from] = less]
  BY <1>3
<1>5. PICK more \in Int : more = mid[to] + sent
  OBVIOUS
<1>6. SumFunction([mid EXCEPT ![to] = more]) = SumFunction(mid) - mid[to] + more
  BY AccountsFinite, SumUpdate
<1>7. SumFunction([f EXCEPT ![from] = less]) = SumFunction(f) - f[from] + less
  BY <1>3, AccountsFinite, SumUpdate
<1>8. tokens' = [mid EXCEPT ![to] = more]
  <2> DEFINE new == [mid EXCEPT ![to] = more]
  <2>1. new \in [Accounts -> Int] /\ new[to] = more /\ \A a \in Accounts \ {to} : new[a] = mid[a]
    OBVIOUS
  <2>2. mid[from] = less /\ \A a \in Accounts \ {from} : mid[a] = f[a]
    BY <1>4
  <2> HIDE DEF new
  <2>3. ASSUME NEW a \in Accounts
        PROVE  new[a] = tokens[a] - (IF a = from THEN sent ELSE 0) + (IF a = to THEN sent ELSE 0)
    <3>1. f[a] \in Int /\ f[a] = tokens[a]
      BY <1>1
    <3> QED BY <1>3, <1>5, <2>1, <2>2, <3>1
  <2>4. new = After(from, to, sent)
    BY <2>1, <2>3 DEF After
  <2> QED BY <2>4 DEF new
<1>9. SumFunction(mid) = SumFunction(f) - sent
  BY <1>2, <1>3, <1>4, <1>7
<1>10. SumFunction(tokens') = (SumFunction(f) - sent) - mid[to] + more
  BY <1>6, <1>8, <1>9
<1> QED
  BY <1>1, <1>2, <1>5, <1>10

LEMMA PaymentConserves ==
  ASSUME TypeOK, NEW owed \in Nat, PayFromPot(Keeper, owed)
  PROVE  SumFunction(tokens') = SumFunction(tokens)
<1> DEFINE paid == IF owed <= feePot THEN owed ELSE 0
<1>1. paid \in Nat
  OBVIOUS
<1>2. tokens' = After(Pool, Keeper, Moved(Pool, paid))
  BY DEF PayFromPot
<1> HIDE DEF paid
<1>3. Moved(Pool, paid) \in Nat
  BY <1>1, Parameters, MovedType
<1> QED
  BY <1>2, <1>3, Parameters, TransferConserves

\* No step makes or destroys a token.
LEMMA TokensConserved ==
  ASSUME Inductive, [Next]_vars
  PROVE  SumFunction(tokens') = SumFunction(tokens)
<1>1. /\ TypeOK /\ RecordsSound /\ WindowsInOrder /\ keeperFee \in Nat
      /\ Amounts \subseteq Nat /\ Users \subseteq Accounts
      /\ Keeper \in Accounts /\ Pool \in Accounts /\ Holder \in Accounts
  BY Parameters, HolderType DEF Inductive, TypeOK
<1>2. ASSUME NEW u \in Users, NEW amount \in Amounts, Deposit(u, amount)
      PROVE  SumFunction(tokens') = SumFunction(tokens)
  <2>1. Moved(u, amount) \in Nat
    BY <1>1, MovedType
  <2>2. tokens' = After(u, Holder, Moved(u, amount))
    BY <1>2 DEF Deposit, Holder
  <2> QED BY <1>1, <2>1, <2>2, TransferConserves
<1>3. ASSUME NEW u \in Users, NEW amount \in Amounts, NEW sent, Withdraw(u, amount, sent)
      PROVE  SumFunction(tokens') = SumFunction(tokens)
  <2>1. Request(u, amount) \in Nat
    BY <1>1, RequestType
  <2>2. sent \in Nat /\ tokens' = After(Holder, u, sent)
    BY <1>1, <1>3, <2>1, RedeemedType DEF Withdraw
  <2> QED BY <1>1, <2>2, TransferConserves
<1>4. ASSUME NEW r \in Rand, OpenDraw(Keeper, r) PROVE SumFunction(tokens') = SumFunction(tokens)
  <2>1. Previous + MinPeriod \in Nat
    BY <1>1, PreviousMoment, Parameters
  <2>2. LivenessReward(Previous + MinPeriod) \in Nat
    BY <1>1, <2>1, RewardType
  <2> QED BY <1>1, <1>4, <2>2, PaymentConserves DEF OpenDraw
<1>5. ASSUME NEW d \in DOMAIN draws, RevealDraw(Keeper, d)
      PROVE  SumFunction(tokens') = SumFunction(tokens)
  <2>1. LivenessReward(draws[d].snapshotAt) \in Nat
    BY <1>1, DrawFields, RewardType
  <2> QED BY <1>1, <1>5, <2>1, PaymentConserves DEF RevealDraw
<1>6. ASSUME NEW d, NEW batch, AccrueMany(Keeper, batch, d)
      PROVE  SumFunction(tokens') = SumFunction(tokens)
  BY <1>1, <1>6, PaymentConserves DEF AccrueMany
<1>7. ASSUME NEW amount \in Amounts, FundReserve(Keeper, amount) \/ FundFeePot(Keeper, amount)
      PROVE  SumFunction(tokens') = SumFunction(tokens)
  <2>1. Moved(Keeper, amount) \in Nat
    BY <1>1, MovedType
  <2>2. tokens' = After(Keeper, Pool, Moved(Keeper, amount))
    BY <1>7 DEF FundReserve, FundFeePot
  <2> QED BY <1>1, <2>1, <2>2, TransferConserves
<1>8. ASSUME NEW got \in 0..MaxUint64, Harvest(got) PROVE SumFunction(tokens') = SumFunction(tokens)
  <2>1. yieldSource \in Accounts /\ got \in Nat /\ tokens' = After(yieldSource, Pool, got)
    BY <1>1, <1>8, HolderType, Parameters DEF Harvest
  <2> QED BY <1>1, <2>1, TransferConserves
<1>9. CASE tokens' = tokens
  BY <1>9
<1>10. CASE Record
  BY <1>2, <1>3, <1>9, <1>10 DEF Record, Claim
<1>11. CASE Drawing
  BY <1>4, <1>5, <1>6, <1>9, <1>11 DEF Drawing, CancelDraw, Accrue
<1>12. CASE Funding
  BY <1>7, <1>8, <1>12 DEF Funding
<1>13. CASE Configuring \/ Tick \/ UNCHANGED vars
  BY <1>9, <1>13
     DEF Configuring, SetYieldSource, SetTiers, SetKeeperFee, RenounceOwnership, Tick, vars
<1> QED
  BY <1>10, <1>11, <1>12, <1>13 DEF Next

\* Without a source the pool holds some of the tokens there are.
LEMMA HeldIsIssued ==
  ASSUME Sources = {}, TypeOK
  PROVE  /\ Held = tokens[Pool] /\ tokens[Pool] \in Nat
         /\ Held <= SumFunction(tokens)
<1>1. SumFunction(lent) = 0
  <2>1. lent = [s \in Sources |-> 0]
    BY DEF TypeOK
  <2> QED BY <2>1, Parameters, SumZero
<1>2. tokens \in [Accounts -> Nat] /\ Pool \in Accounts /\ tokens[Pool] \in Nat
  BY Parameters DEF TypeOK
<1>3. tokens[Pool] <= SumFunction(tokens)
  BY <1>2, AccountsFinite, SumTerm
<1> QED
  BY <1>1, <1>2, <1>3 DEF Held

AllIssued == SumFunction(tokens) = Issued

LEMMA TokensIssued == Spec => []AllIssued
<1>1. Init => AllIssued
  BY DEF Init, Issued, AllIssued
<1>2. Inductive /\ AllIssued /\ [Next]_vars => AllIssued'
  BY TokensConserved DEF AllIssued, Issued
<1> QED
  BY <1>1, <1>2, InductiveHolds, PTL DEF Spec

LEMMA AloneHeldFits ==
  ASSUME Sources = {}, Issued <= MaxUint64
  PROVE  Spec => []HeldFits
<1>1. TypeOK /\ AllIssued => HeldFits
  <2> SUFFICES ASSUME TypeOK, SumFunction(tokens) = Issued PROVE HeldFits
    BY DEF AllIssued
  <2>1. Held \in Nat /\ Held <= Issued
    BY HeldIsIssued
  <2>2. Issued \in Int /\ MaxUint64 \in Int
    <3>1. SumFunction(tokens) \in Int
      <4>1. tokens \in [Accounts -> Int]
        BY DEF TypeOK
      <4> QED BY <4>1, AccountsFinite, SumType
    <3> QED BY <3>1, Parameters
  <2> QED BY <2>1, <2>2 DEF HeldFits
<1> QED
  BY <1>1, TypesHold, TokensIssued, PTL


\* What the pool holds is owed; what the keeper was issued is the keeper's, in the
\* reserve, in the pot, or won.
Circulates ==
  /\ tokens[Pool] = Owed
  /\ reserve + feePot + SumFunction(winnings) + tokens[Keeper] = Supply

LEMMA WinningsAreSupplied ==
  ASSUME TypeOK, Circulates, Supply <= MaxUint64
  PROVE  WinningsFit
<1> SUFFICES ASSUME NEW u \in Users PROVE winnings[u] + reserve <= MaxUint64
  BY DEF WinningsFit
<1>1. PICK r, f, w, s, k, m, all \in Nat :
        /\ r = reserve /\ f = feePot /\ w = winnings[u] /\ s = SumFunction(winnings)
        /\ k = tokens[Keeper] /\ m = MaxUint64 /\ all = Supply
  <2>1. SumFunction(winnings) \in Nat /\ winnings[u] \in Nat
    BY Parameters, SumTerm DEF TypeOK
  <2>2. tokens[Keeper] \in Nat /\ Supply \in Nat
    BY Parameters, ConstantsAssumption DEF TypeOK
  <2> QED BY <2>1, <2>2, Parameters DEF TypeOK
<1>2. w <= s
  BY <1>1, Parameters, SumTerm DEF TypeOK
<1>3. r + f + s + k = all /\ all <= m
  BY <1>1 DEF Circulates
<1> QED
  BY <1>1, <1>2, <1>3

\* Claims, pots and winnings move with the tokens of the pool and of the keeper.
LEMMA StaysInCirculation ==
  ASSUME TypeOK, TypeOK', Circulates, NEW x \in Int, NEW p \in Int, NEW w \in Int,
         SumFunction(Claims)' = SumFunction(Claims) + x,
         reserve' + feePot' = (reserve + feePot) + p,
         SumFunction(winnings') = SumFunction(winnings) + w,
         tokens'[Pool] = tokens[Pool] + (x + p),
         tokens'[Keeper] = tokens[Keeper] - (p + w)
  PROVE  Circulates'
<1>1. PICK c, r, f, s, t, k \in Int :
        /\ c = SumFunction(Claims) /\ r = reserve /\ f = feePot /\ s = SumFunction(winnings)
        /\ t = tokens[Pool] /\ k = tokens[Keeper]
  <2>1. winnings \in [Users -> Int]
    BY DEF TypeOK
  <2>2. SumFunction(winnings) \in Int
    BY <2>1, Parameters, SumType
  <2>3. SumFunction(Claims) \in Int
    BY ClaimsType
  <2>4. reserve \in Int /\ feePot \in Int /\ tokens[Pool] \in Int /\ tokens[Keeper] \in Int
    BY Parameters DEF TypeOK
  <2> QED BY <2>2, <2>3, <2>4
<1>2. PICK r1, f1, t1, k1 \in Int :
        r1 = reserve' /\ f1 = feePot' /\ t1 = tokens'[Pool] /\ k1 = tokens'[Keeper]
  <2>1. reserve' \in Int /\ feePot' \in Int /\ tokens'[Pool] \in Int /\ tokens'[Keeper] \in Int
    BY Parameters DEF TypeOK
  <2> QED BY <2>1
<1>3. t = c + r + f /\ r + f + s + k = Supply
  BY <1>1 DEF Circulates, Owed, Claims
<1>4. r1 + f1 = (r + f) + p /\ t1 = t + (x + p) /\ k1 = k - (p + w)
  BY <1>1, <1>2
<1>5. t1 = (c + x) + r1 + f1 /\ r1 + f1 + (s + w) + k1 = r + f + s + k
  BY <1>3, <1>4
<1>6. Owed' = (c + x) + r1 + f1
  <2>1. SumFunction([u \in Users |-> Entitled(u)])' = c + x
    BY <1>1 DEF Claims
  <2> QED BY <1>2, <2>1 DEF Owed
<1>7. SumFunction(winnings') = s + w
  BY <1>1
<1> QED
  BY <1>2, <1>3, <1>5, <1>6, <1>7 DEF Circulates

LEMMA AccountCirculates ==
  ASSUME Sources = {}, TypeOK, TypeOK', Circulates, NEW u \in Users, NEW x \in Int,
         AccountMoves(u, x)
  PROVE  Circulates'
<1>1. PICK f \in [Users -> Int] : f = Claims
  BY ClaimsType
<1>2. PICK k \in [Users -> Int] : k = Claims'
  BY ClaimsType
<1>3. f[u] = Entitled(u) /\ k[u] = Entitled(u) + x /\ Entitled(u) \in Nat
  <2>1. f[u] = Entitled(u) /\ k[u] = Entitled(u)'
    BY <1>1, <1>2 DEF Claims
  <2>2. Entitled(u)' = BalanceOf(userObs'[u]) + pending'[u]
    BY DEF Entitled
  <2>3. Entitled(u) \in Nat
    <3>1. BalanceOf(userObs[u]) \in Nat /\ pending[u] \in Nat
      BY BalanceType DEF TypeOK
    <3> QED BY <3>1 DEF Entitled
  <2>4. Entitled(u)' = (Entitled(u) + x) + 0
    BY <2>2 DEF AccountMoves
  <2> QED BY <2>1, <2>3, <2>4
<1>4. \A v \in Users \ {u} : k[v] = f[v]
  BY <1>1, <1>2 DEF AccountMoves, Claims, Entitled
<1>5. DifferAt(u, f, k, Users)
  BY <1>4 DEF DifferAt
<1>6. SumFunction(k) = SumFunction(f) - f[u] + k[u] /\ SumFunction(f) \in Int
  BY <1>5, Parameters, SumChange, SumType
<1>7. SumFunction(k) = SumFunction(f) + x
  BY <1>3, <1>6
<1>8. SumFunction(Claims)' = SumFunction(Claims) + x
  BY <1>1, <1>2, <1>7, Zenon
<1>9. tokens'[Pool] = tokens[Pool] + (x + 0)
  <2>1. Held' = Held + x /\ Held = tokens[Pool] /\ tokens[Pool] \in Nat
    BY HeldIsIssued DEF AccountMoves
  <2>2. Held' = tokens'[Pool]
    <3>1. lent' = lent
      BY DEF TypeOK
    <3>2. SumFunction(lent) = 0
      <4>1. lent = [s \in Sources |-> 0]
        BY DEF TypeOK
      <4> QED BY <4>1, Parameters, SumZero
    <3>3. tokens'[Pool] \in Nat
      BY Parameters DEF TypeOK
    <3> QED BY <3>1, <3>2, <3>3 DEF Held
  <2> QED BY <2>1, <2>2
<1>10. /\ reserve' + feePot' = (reserve + feePot) + 0
       /\ SumFunction(winnings') = SumFunction(winnings) + 0
       /\ tokens'[Keeper] = tokens[Keeper] - (0 + 0)
  <2>1. UNCHANGED <<reserve, feePot, winnings>> /\ tokens'[Keeper] = tokens[Keeper]
    BY DEF AccountMoves
  <2>2. reserve \in Nat /\ feePot \in Nat /\ tokens[Keeper] \in Nat
    BY Parameters DEF TypeOK
  <2>3. SumFunction(winnings) \in Nat
    BY Parameters, SumTerm DEF TypeOK
  <2> QED BY <2>1, <2>2, <2>3
<1> QED
  BY <1>8, <1>9, <1>10, StaysInCirculation


\* The keeper's tokens go to the pool and come from it.
KeeperTrades(y) ==
  tokens'[Pool] = tokens[Pool] + y /\ tokens'[Keeper] = tokens[Keeper] - y

\* A pot that holds what it says pays what it is debited with.
LEMMA PotPaysAll ==
  ASSUME TypeOK, feePot <= tokens[Pool], NEW owed \in Nat, PayFromPot(Keeper, owed)
  PROVE  \E y \in Int : feePot' = feePot + y /\ KeeperTrades(y)
<1>1. /\ feePot \in Nat /\ tokens[Pool] \in Nat /\ tokens[Keeper] \in Nat
      /\ Keeper # Pool /\ Pool \in Accounts /\ Keeper \in Accounts
  BY Parameters, ConstantsAssumption DEF TypeOK
<1>2. PICK paid \in Nat : paid = IF owed <= feePot THEN owed ELSE 0
  OBVIOUS
<1>3. feePot' = feePot - paid /\ paid <= feePot
  BY <1>1, <1>2 DEF PayFromPot, TryDecrease
<1>4. Moved(Pool, paid) = paid
  BY <1>1, <1>3 DEF Moved
<1>5. tokens' = After(Pool, Keeper, paid)
  BY <1>2, <1>4 DEF PayFromPot
<1>6. tokens'[Pool] = tokens[Pool] - paid /\ tokens'[Keeper] = tokens[Keeper] + paid
  BY <1>1, <1>5 DEF After
<1>7. PICK y \in Int : y = 0 - paid
  OBVIOUS
<1>8. feePot' = feePot + y /\ tokens'[Pool] = tokens[Pool] + y /\ tokens'[Keeper] = tokens[Keeper] - y
  BY <1>1, <1>3, <1>6, <1>7
<1> QED
  BY <1>8 DEF KeeperTrades

LEMMA DrawingTrades ==
  ASSUME Inductive, feePot <= tokens[Pool], Drawing
  PROVE  \E y \in Int : feePot' = feePot + y /\ KeeperTrades(y)
<1>1. /\ TypeOK /\ WindowsInOrder /\ keeperFee \in Nat
      /\ feePot \in Nat /\ tokens[Pool] \in Nat /\ tokens[Keeper] \in Nat
  BY Parameters DEF Inductive, TypeOK
<1>2. ASSUME NEW r \in Rand, OpenDraw(Keeper, r)
      PROVE  \E y \in Int : feePot' = feePot + y /\ KeeperTrades(y)
  <2>1. Previous + MinPeriod \in Nat
    BY <1>1, PreviousMoment, Parameters
  <2>2. LivenessReward(Previous + MinPeriod) \in Nat
    BY <1>1, <2>1, RewardType
  <2>3. PayFromPot(Keeper, LivenessReward(Previous + MinPeriod))
    BY <1>2 DEF OpenDraw
  <2> QED BY <1>1, <2>2, <2>3, PotPaysAll
<1>3. ASSUME NEW d \in DOMAIN draws, RevealDraw(Keeper, d)
      PROVE  \E y \in Int : feePot' = feePot + y /\ KeeperTrades(y)
  <2>1. LivenessReward(draws[d].snapshotAt) \in Nat
    BY <1>1, DrawFields, RewardType
  <2>2. PayFromPot(Keeper, LivenessReward(draws[d].snapshotAt))
    BY <1>3 DEF RevealDraw
  <2> QED BY <1>1, <2>1, <2>2, PotPaysAll
<1>4. ASSUME NEW d, NEW batch, AccrueMany(Keeper, batch, d)
      PROVE  \E y \in Int : feePot' = feePot + y /\ KeeperTrades(y)
  BY <1>1, <1>4, PotPaysAll DEF AccrueMany
<1>5. CASE UNCHANGED <<feePot, tokens>>
  <2>1. feePot' = feePot + 0 /\ KeeperTrades(0)
    BY <1>1, <1>5 DEF KeeperTrades
  <2> QED BY <2>1
<1> QED
  BY <1>2, <1>3, <1>4, <1>5 DEF Drawing, CancelDraw, Accrue

\* What the keeper donates reaches the reserve or the pot in full.
LEMMA FundingTrades ==
  ASSUME Sources = {}, Inductive, TypeOK', NeverOverbooked, HeldFits', Funding
  PROVE  \E y \in Int : reserve' + feePot' = (reserve + feePot) + y /\ KeeperTrades(y)
<1>1. /\ TypeOK /\ reserve \in Nat /\ feePot \in Nat /\ tokens[Pool] \in Nat
      /\ tokens[Keeper] \in Nat /\ Keeper # Pool
      /\ Keeper \in Accounts /\ Pool \in Accounts /\ Amounts \subseteq Nat
  BY Parameters, ConstantsAssumption DEF Inductive, TypeOK
<1>2. ASSUME NEW amount \in Amounts, FundReserve(Keeper, amount) \/ FundFeePot(Keeper, amount)
      PROVE  \E y \in Int : reserve' + feePot' = (reserve + feePot) + y /\ KeeperTrades(y)
  <2>1. PICK got \in Nat : got = Moved(Keeper, amount)
    BY <1>1, MovedType
  <2>2. /\ tokens' = After(Keeper, Pool, got) /\ lent' = lent
        /\ \/ reserve' = TryAdd(reserve, got) /\ feePot' = feePot
           \/ feePot' = TryAdd(feePot, got) /\ reserve' = reserve
    BY <1>2, <2>1 DEF FundReserve, FundFeePot, prizes
  <2>3. tokens'[Pool] = tokens[Pool] + got /\ tokens'[Keeper] = tokens[Keeper] - got
    BY <1>1, <2>1, <2>2 DEF After
  <2>4. TryAdd(reserve, got) = reserve + got /\ TryAdd(feePot, got) = feePot + got
    BY <1>1, <2>1, <2>2, <2>3, IncomeFits
  <2>5. reserve' + feePot' = (reserve + feePot) + got
    <3>1. \/ reserve' = reserve + got /\ feePot' = feePot
          \/ feePot' = feePot + got /\ reserve' = reserve
      BY <2>2, <2>4
    <3> QED BY <1>1, <3>1
  <2> QED BY <2>3, <2>5 DEF KeeperTrades
<1>3. ASSUME NEW got, Harvest(got) PROVE FALSE
  BY <1>1, <1>3 DEF Harvest, TypeOK
<1> QED
  BY <1>2, <1>3 DEF Funding

\* An award moves from the reserve to claims and winnings.
LEMMA AwardSums ==
  ASSUME TypeOK, TypeOK', NeverOverbooked, HeldFits, WinningsFit, FreshAward
  PROVE  \E x \in Int : /\ reserve' = reserve - x
                        /\ SumFunction(Claims)' = SumFunction(Claims) + x
                        /\ SumFunction(winnings') = SumFunction(winnings) + x
<1>1. PICK d \in DOMAIN draws, batch \in SUBSET Users, a \in [Users -> Nat] :
        Awarded(d, batch, a) /\ RecordsStay
  BY DEF FreshAward
<1>2. a \in [Users -> Int]
  OBVIOUS
<1>3. PICK x \in Int : x = SumFunction(a)
  BY <1>2, Parameters, SumType
<1>4. reserve' = reserve - x
  <2>1. x = reserve - reserve'
    BY <1>1, <1>3 DEF Awarded
  <2>2. PICK r, r1 \in Int : r = reserve /\ r1 = reserve'
    BY DEF TypeOK
  <2>3. x = r - r1
    BY <2>1, <2>2, Zenon
  <2>4. r1 = r - x
    BY <2>3
  <2> QED BY <2>2, <2>4, Zenon
<1>5. \A u \in Users : pending'[u] = pending[u] + a[u] /\ winnings'[u] = winnings[u] + a[u]
  BY <1>1, AwardExact
<1>6. SumFunction(winnings') = SumFunction(winnings) + x
  <2>1. PICK f \in [Users -> Int] : f = winnings
    BY DEF TypeOK
  <2>2. PICK k \in [Users -> Int] : k = winnings'
    BY DEF TypeOK
  <2>3. SumFunction(k) = SumFunction(f) + SumFunction(a)
    BY <1>2, <1>5, <2>1, <2>2, Parameters, SumAdd
  <2> QED BY <1>3, <2>1, <2>2, <2>3, Zenon
<1>7. SumFunction(Claims)' = SumFunction(Claims) + x
  <2>1. PICK f \in [Users -> Int] : f = Claims
    BY ClaimsType
  <2>2. PICK k \in [Users -> Int] : k = Claims'
    BY ClaimsType
  <2>3. \A u \in Users : k[u] = f[u] + a[u]
    <3> SUFFICES ASSUME NEW u \in Users PROVE k[u] = f[u] + a[u]
      OBVIOUS
    <3>1. BalanceOf(userObs[u]) \in Nat /\ pending[u] \in Nat /\ a[u] \in Nat
      BY BalanceType DEF TypeOK
    <3>2. f[u] = BalanceOf(userObs[u]) + pending[u]
      BY <2>1 DEF Claims, Entitled
    <3>3. k[u] = BalanceOf(userObs[u]) + (pending[u] + a[u])
      BY <1>1, <1>5, <2>2 DEF Claims, Entitled, RecordsStay
    <3> QED BY <3>1, <3>2, <3>3
  <2>4. SumFunction(k) = SumFunction(f) + SumFunction(a)
    BY <1>2, <2>3, Parameters, SumAdd
  <2> QED BY <1>3, <2>1, <2>2, <2>4, Zenon
<1> QED
  BY <1>4, <1>6, <1>7


\* The pot never says more than the pool holds.
LEMMA PotIsHeld ==
  ASSUME TypeOK, Circulates
  PROVE  feePot <= tokens[Pool] /\ feePot \in Int /\ reserve \in Int /\ tokens[Pool] \in Int
         /\ tokens[Keeper] \in Int /\ SumFunction(Claims) \in Int /\ SumFunction(winnings) \in Int
<1>1. SumFunction(Claims) \in Nat
  <2>1. Claims \in [Users -> Nat]
    BY ClaimsShape DEF TypeOK, Claims, Entitled
  <2> QED BY <2>1, Parameters, SumTerm
<1>2. reserve \in Nat /\ feePot \in Nat /\ tokens[Pool] \in Nat /\ tokens[Keeper] \in Nat
  BY Parameters DEF TypeOK
<1>3. tokens[Pool] = SumFunction(Claims) + reserve + feePot
  BY DEF Circulates, Owed, Claims
<1>4. SumFunction(winnings) \in Nat
  BY Parameters, SumTerm DEF TypeOK
<1> QED
  BY <1>1, <1>2, <1>3, <1>4

LEMMA CirculateStep ==
  ASSUME Sources = {}, Supply <= MaxUint64, Inductive, NeverOverbooked, HeldFits, HeldFits',
         ExactBooks, Circulates, [Next]_vars
  PROVE  Circulates'
<1>1. TypeOK /\ TypeOK' /\ WinningsFit
  BY TypeStep, WinningsAreSupplied DEF Inductive
<1>2. PICK c, r, f, s, t, k \in Int :
        /\ c = SumFunction(Claims) /\ r = reserve /\ f = feePot /\ s = SumFunction(winnings)
        /\ t = tokens[Pool] /\ k = tokens[Keeper]
  BY <1>1, PotIsHeld
<1>3. ASSUME NoAccountMoves, NEW y \in Int, reserve' + feePot' = (reserve + feePot) + y,
             KeeperTrades(y)
      PROVE  Circulates'
  <2>1. SumFunction(Claims)' = SumFunction(Claims) /\ winnings' = winnings
    BY <1>3, SameClaims DEF NoAccountMoves, RecordsStay
  <2>2. /\ SumFunction(Claims)' = SumFunction(Claims) + 0
        /\ SumFunction(winnings') = SumFunction(winnings) + 0
    <3>1. c + 0 = c /\ s + 0 = s
      OBVIOUS
    <3> QED BY <1>2, <2>1, <3>1
  <2>3. tokens'[Pool] = tokens[Pool] + (0 + y) /\ tokens'[Keeper] = tokens[Keeper] - (y + 0)
    <3>1. 0 + y = y /\ y + 0 = y
      OBVIOUS
    <3> QED BY <1>3, <3>1 DEF KeeperTrades
  <2> QED BY <1>1, <1>3, <2>2, <2>3, StaysInCirculation
<1>4. CASE Drawing
  <2>1. PICK y \in Int : feePot' = feePot + y /\ KeeperTrades(y)
    BY <1>1, <1>4, PotIsHeld, DrawingTrades
  <2>2. CASE NoAccountMoves /\ reserve' = reserve
    <3>1. reserve' + feePot' = (reserve + feePot) + y
      <4>1. r + (f + y) = (r + f) + y
        OBVIOUS
      <4> QED BY <1>2, <2>1, <2>2, <4>1, Zenon
    <3> QED BY <1>3, <2>1, <2>2, <3>1
  <2>3. CASE FreshAward
    <3>1. PICK x \in Int : /\ reserve' = reserve - x
                           /\ SumFunction(Claims)' = SumFunction(Claims) + x
                           /\ SumFunction(winnings') = SumFunction(winnings) + x
      BY <1>1, <2>3, AwardSums
    <3>2. PICK p \in Int : p = y - x
      OBVIOUS
    <3>3. reserve' + feePot' = (reserve + feePot) + p
      <4>1. (r - x) + (f + y) = (r + f) + p
        BY <3>2
      <4> QED BY <1>2, <2>1, <3>1, <4>1, Zenon
    <3>4. x + p = y /\ p + x = y
      BY <3>2
    <3>5. tokens'[Pool] = tokens[Pool] + (x + p) /\ tokens'[Keeper] = tokens[Keeper] - (p + x)
      BY <2>1, <3>4 DEF KeeperTrades
    <3> QED BY <1>1, <3>1, <3>3, <3>5, StaysInCirculation
  <2> QED BY <1>4, <2>2, <2>3, DrawingMovesNoRecord
<1>5. CASE Funding
  <2>1. PICK y \in Int : reserve' + feePot' = (reserve + feePot) + y /\ KeeperTrades(y)
    BY <1>1, <1>5, FundingTrades
  <2>2. NoAccountMoves
    BY <1>1, <1>5, FundingMovesNoAccount
  <2> QED BY <1>3, <2>1, <2>2
<1>6. CASE Record
  <2>1. ASSUME NEW u \in Users, NEW x \in Int, AccountMoves(u, x) PROVE Circulates'
    BY <1>1, <2>1, AccountCirculates
  <2>2. CreditsAreAwarded /\ TotalIsSumOfBalances
    BY DEF ExactBooks
  <2>3. \E u \in Users, x \in Int : AccountMoves(u, x)
    <3>1. ASSUME NEW u \in Users, NEW amount \in Amounts, Deposit(u, amount)
          PROVE  \E x \in Int : AccountMoves(u, x)
      BY <1>1, <2>2, <3>1, DepositMoves
    <3>2. ASSUME NEW u \in Users, NEW amount \in Amounts, NEW sent, Withdraw(u, amount, sent)
          PROVE  \E x \in Int : AccountMoves(u, x)
      BY <1>1, <2>2, <3>2, WithdrawMoves
    <3>3. ASSUME NEW u \in Users, Claim(u)
          PROVE  \E x \in Int : AccountMoves(u, x)
      BY <1>1, <2>2, <3>3, ClaimMoves
    <3> QED BY <1>6, <3>1, <3>2, <3>3 DEF Record
  <2> QED BY <2>1, <2>3
<1>7. CASE Configuring \/ Tick \/ UNCHANGED vars
  <2>1. UNCHANGED <<userObs, pending, winnings, reserve, feePot, tokens>>
    BY <1>7 DEF Configuring, SetYieldSource, SetTiers, SetKeeperFee, RenounceOwnership, Tick, vars,
                record, prizes, settings
  <2>2. Owed' = Owed
    BY <2>1 DEF Owed, Entitled
  <2> QED BY <2>1, <2>2 DEF Circulates
<1> QED
  BY <1>4, <1>5, <1>6, <1>7 DEF Next

LEMMA InitCirculates ==
  ASSUME Init
  PROVE  Circulates
<1>1. tokens[Pool] = 0 /\ reserve = 0 /\ feePot = 0 /\ tokens[Keeper] = Supply /\ Supply \in Nat
  BY Parameters, ConstantsAssumption DEF Init
<1>2. [u \in Users |-> Entitled(u)] = [u \in Users |-> 0] /\ winnings = [u \in Users |-> 0]
  <2>1. ASSUME NEW u \in Users PROVE Entitled(u) = 0
    BY DEF Init, Entitled, BalanceOf
  <2> QED BY <2>1 DEF Init
<1>3. SumFunction([u \in Users |-> Entitled(u)]) = 0 /\ SumFunction(winnings) = 0
  BY <1>2, Parameters, SumZero
<1> QED
  BY <1>1, <1>3 DEF Circulates, Owed

\* What an account starts with is among the tokens there are.
LEMMA SupplyIsIssued ==
  ASSUME Issued <= MaxUint64
  PROVE  Supply <= MaxUint64
<1> DEFINE start == [a \in Accounts |-> IF a = Pool THEN 0 ELSE Supply]
<1>1. Supply \in Nat /\ Keeper \in Accounts /\ Keeper # Pool /\ MaxUint64 \in Nat
  BY Parameters, ConstantsAssumption
<1>2. start \in [Accounts -> Nat] /\ start[Keeper] = Supply
  BY <1>1
<1>3. Issued = SumFunction(start)
  BY DEF Issued
<1> HIDE DEF start
<1>4. SumFunction(start) \in Nat /\ Supply <= SumFunction(start)
  BY <1>1, <1>2, AccountsFinite, SumTerm
<1> QED
  BY <1>1, <1>3, <1>4

LEMMA AloneCirculates ==
  ASSUME Sources = {}, Issued <= MaxUint64
  PROVE  Spec => [](Circulates /\ HeldFits /\ WinningsFit)
<1>1. Init => Circulates
  BY InitCirculates
<1>2. Inductive /\ NeverOverbooked /\ HeldFits /\ HeldFits' /\ ExactBooks /\ Circulates /\ [Next]_vars
        => Circulates'
  BY SupplyIsIssued, CirculateStep
<1>3. Inductive /\ Circulates => WinningsFit
  BY SupplyIsIssued, WinningsAreSupplied DEF Inductive
<1>4. Spec => []HeldFits
  BY AloneHeldFits
<1> QED
  BY <1>1, <1>2, <1>3, <1>4, ExactHolds, InductiveHolds, AlwaysCovered, PTL DEF Spec

\* Without a source, and with no more tokens than an amount can count, every book
\* is exact for good: the pool holds what it owes, the total record is the sum of
\* the accounts', winnings are the sum of what the draws paid (deposit, withdraw,
\* claim, openDraw, accrue, accrueMany, fundReserve, fundFeePot, _payKeeper,
\* _payLiveness).
THEOREM BooksAlwaysBalance ==
  ASSUME Sources = {}, Issued <= MaxUint64
  PROVE  Spec => []BooksBalance
<1>1. TypeOK /\ Circulates /\ ExactBooks /\ WinningsAddUp => BooksBalance
  BY HeldIsIssued DEF Circulates, ExactBooks, BooksBalance
<1>2. Spec => [](Circulates /\ HeldFits /\ WinningsFit)
  BY AloneCirculates
<1> QED
  BY <1>1, <1>2, TypesHold, ExactHolds, WinningsHold, PTL

\* And the hypotheses of the other exact theorems hold.
THEOREM NothingOverflows ==
  ASSUME Sources = {}, Issued <= MaxUint64
  PROVE  Spec => []WeightsSumToTotal /\ EntitlementMovesWithMoney /\ ReserveBuysOnlyPrizes
<1>1. Spec => []HeldFits /\ []WinningsFit
  BY AloneCirculates, PTL
<1> QED
  BY <1>1, WeightsAlwaysAddUp, ClaimsFollowMoney, ReserveIsForPrizes

=============================================================================
