--------------------------- MODULE EvidenceProofs ---------------------------
(***************************************************************************)
(* What the site shows as evidence, for every rate, price, chunk and order *)
(* of calls.  The source's one balance covers the pot and the principal     *)
(* that is not in the vault, but for what its books lost, and joins take   *)
(* half of a buffer; what it accounts for is the interest of its           *)
(* principal, second by second; its lists name all that is on the way  *)
(* through the vault; and the rows of an audit are of one draw.            *)
(***************************************************************************)
EXTENDS Evidence, SumProofs

IInv == TypeOK /\ BufferIsWhatIsNotInVault

LEMMA MovedFacts ==
  ASSUME NEW have \in Nat, NEW amount \in Nat
  PROVE  Moved(have, amount) \in Nat /\ Moved(have, amount) <= have
                                     /\ Moved(have, amount) <= amount
BY DEF Moved

\* What settling banks is a number, whatever has accrued.
LEMMA SettledIsNat ==
  ASSUME TypeOK, now >= lastAccrual
  PROVE  Settled \in Nat
<1>1. principal \in Nat /\ Rate \in Nat /\ yield \in Nat /\ now \in Nat /\ lastAccrual \in Nat
  BY ReplicaAssumption DEF TypeOK
<1>2. Scale \in Nat /\ Scale > 0
  BY ReplicaAssumption
<1> DEFINE e == now - lastAccrual
<1>3. e \in Nat
  BY <1>1
<1>4. principal * Rate \in Nat
  BY <1>1
<1> HIDE DEF e
<1> DEFINE n == principal * Rate
<1>5. n * e \in Nat
  <2> HIDE DEF n
  <2>1. n \in Nat
    BY <1>4 DEF n
  <2> QED
    BY <2>1, <1>3
<1>6. (n * e) \div Scale \in Nat
  <2> DEFINE m == n * e
  <2> HIDE DEF m
  <2>1. m \in Nat
    BY <1>5 DEF m
  <2>2. m \div Scale \in Nat
    BY <2>1, <1>2
  <2> QED
    BY <2>2 DEF m
<1>7. Accrued(e) \in Nat
  BY <1>6 DEF Accrued
<1>8. TryAdd(yield, Accrued(e)) \in Nat
  BY <1>1, <1>7, ReplicaAssumption DEF TryAdd
<1> QED
  BY <1>8 DEF Settled, e

\* The booked join is at most half of what is not in the vault, if the books are right.
LEMMA JoinIsHalf ==
  ASSUME IInv
  PROVE  /\ JoinAmount \in Nat
         /\ inVault <= principal => 2 * JoinAmount <= principal - inVault
BY DEF IInv, TypeOK, JoinAmount, TryDecrease

\* The books of a batcher: a batch's entry, and the books after an entry is
\* rewritten or a batch is dispatched.
LEMMA EntryIsNat ==
  ASSUME NEW s \in Seq(Nat), NEW i \in DOMAIN s
  PROVE  s[i] \in Nat
OBVIOUS

LEMMA LastIsEntry ==
  ASSUME NEW s \in Seq(Nat), s # <<>>
  PROVE  Len(s) \in DOMAIN s
OBVIOUS

LEMMA EntryRewritten ==
  ASSUME NEW s \in Seq(Nat), s # <<>>, NEW i \in DOMAIN s, NEW n \in Nat
  PROVE  [s EXCEPT ![i] = n] \in Seq(Nat) /\ [s EXCEPT ![i] = n] # <<>>
OBVIOUS

LEMMA BatchAdded ==
  ASSUME NEW s \in Seq(Nat), NEW n \in Nat
  PROVE  Append(s, n) \in Seq(Nat) /\ Append(s, n) # <<>>
<1>1. Append(s, n) \in Seq(Nat)
  OBVIOUS
<1>2. Len(Append(s, n)) = Len(s) + 1 /\ Len(s) \in Nat
  OBVIOUS
<1>3. Len(<<>>) = 0
  OBVIOUS
<1>4. Append(s, n) # <<>>
  BY <1>2, <1>3
<1> QED
  BY <1>1, <1>4

LEMMA BooksOfBatchers ==
  ASSUME IInv
  PROVE  /\ joins \in Seq(Nat) /\ joins # <<>> /\ Len(joins) \in DOMAIN joins
         /\ unwinds \in Seq(Nat) /\ unwinds # <<>> /\ Len(unwinds) \in DOMAIN unwinds
<1>1. joins \in Seq(Nat) /\ joins # <<>> /\ unwinds \in Seq(Nat) /\ unwinds # <<>>
  BY DEF IInv, TypeOK
<1> QED
  BY <1>1, LastIsEntry

LEMMA Numbers ==
  ASSUME IInv
  PROVE  /\ balance \in Nat /\ held \in Nat /\ principal \in Nat /\ inVault \in Nat /\ pot \in Int
         /\ shares \in Nat /\ principal <= MaxUint64 /\ MaxUint64 \in Nat /\ unbooked \in Nat
BY ReplicaAssumption DEF IInv, TypeOK

LEMMA OneBalance ==
  ASSUME IInv
  PROVE  balance + inVault + unbooked >= pot + principal
BY DEF IInv, BufferIsWhatIsNotInVault

LEMMA InitHolds == Init => IInv
BY ReplicaAssumption DEF Init, IInv, TypeOK, BufferIsWhatIsNotInVault

-----------------------------------------------------------------------------
(* One lemma per transaction that moves money.                             *)

LEMMA SupplyKeeps ==
  ASSUME IInv, NEW amount \in Amounts, Supply(amount)
  PROVE  IInv'
<1> USE DEF IInv
<1> DEFINE supplied == Moved(held, amount)
<1>1. supplied \in Nat /\ supplied <= held
  BY MovedFacts, ReplicaAssumption DEF TypeOK
<1> HIDE DEF supplied
<1>2. Settled \in Nat
  BY SettledIsNat DEF TypeOK
<1>3. /\ held' = held - supplied /\ balance' = balance + supplied
      /\ principal' = TryAdd(principal, supplied)
      /\ lastAccrual' = now /\ yield' = Settled
      /\ UNCHANGED <<now, inVault, shares, joins, unwinds, pot, interest, harvested, unbooked>>
  BY DEF Supply, Settle, supplied, vault, history
<1>4. TypeOK'
  BY <1>1, <1>2, <1>3, ReplicaAssumption DEF TypeOK, TryAdd
<1>5. principal' <= principal + supplied
  BY <1>1, <1>3, Numbers DEF TryAdd
<1>6. BufferIsWhatIsNotInVault'
  <2>1. principal' \in Nat
    BY <1>4 DEF TypeOK
  <2> QED
    BY <1>1, <1>3, <1>5, <2>1, Numbers, OneBalance DEF BufferIsWhatIsNotInVault
<1> QED
  BY <1>4, <1>6

LEMMA RedeemKeeps ==
  ASSUME IInv, NEW amount \in Amounts, Redeem(amount)
  PROVE  IInv'
<1> USE DEF IInv
<1> DEFINE sent == Moved(balance, amount)
<1>1. sent \in Nat /\ sent <= balance
  BY MovedFacts, ReplicaAssumption DEF TypeOK
<1> HIDE DEF sent
<1>2. Settled \in Nat
  BY SettledIsNat DEF TypeOK
<1>3. /\ held' = held + sent /\ balance' = balance - sent
      /\ principal' = TryDecrease(principal, sent)
      /\ unbooked' = unbooked + (IF sent > principal THEN sent ELSE 0)
      /\ lastAccrual' = now /\ yield' = Settled
      /\ UNCHANGED <<now, inVault, shares, joins, unwinds, pot, interest, harvested>>
  BY DEF Redeem, Settle, sent, vault
<1>4. TypeOK'
  <2>1. /\ principal' \in Nat /\ principal' <= MaxUint64 /\ balance' \in Nat /\ held' \in Nat
        /\ unbooked' \in Nat
    BY <1>1, <1>3, Numbers DEF TryDecrease
  <2> QED
    BY <1>2, <1>3, <2>1 DEF TypeOK
<1>5. unbooked' - unbooked = sent - (principal - principal')
  BY <1>1, <1>3, Numbers DEF TryDecrease
<1>6. BufferIsWhatIsNotInVault'
  <2>1. principal' \in Nat /\ unbooked' \in Nat
    BY <1>4 DEF TypeOK
  <2> QED
    BY <1>1, <1>3, <1>5, <2>1, Numbers, OneBalance DEF BufferIsWhatIsNotInVault
<1> QED
  BY <1>4, <1>6

LEMMA HarvestKeeps ==
  ASSUME IInv, Harvest
  PROVE  IInv'
<1> USE DEF IInv
<1> DEFINE sent == Moved(balance, Settled)
<1>1. Settled \in Nat
  BY SettledIsNat DEF TypeOK
<1>2. sent \in Nat /\ sent <= balance
  BY <1>1, MovedFacts DEF TypeOK
<1> HIDE DEF sent
<1>3. /\ held' = held + sent /\ balance' = balance - sent
      /\ pot' = pot - sent /\ harvested' = harvested + sent
      /\ lastAccrual' = now /\ yield' = TryDecrease(Settled, sent)
      /\ UNCHANGED <<now, principal, inVault, shares, joins, unwinds, interest, unbooked>>
  BY DEF Harvest, sent, vault
<1>4. yield' \in Nat
  BY <1>1, <1>2, <1>3 DEF TryDecrease
<1>5. TypeOK'
  BY <1>2, <1>3, <1>4 DEF TypeOK
<1>6. BufferIsWhatIsNotInVault'
  BY <1>2, <1>3, Numbers, OneBalance DEF BufferIsWhatIsNotInVault
<1> QED
  BY <1>5, <1>6

LEMMA JoinedSum ==
  ASSUME NEW b \in Nat, NEW v \in Nat, NEW u \in Nat, NEW p \in Int, NEW q \in Nat, NEW j \in Nat,
         NEW m \in Nat, NEW w \in Nat, m <= j, b + v + u >= p + q
  PROVE  (b - m) + w + (u + (v + j - w)) >= p + q
OBVIOUS

LEMMA UnbookedGrows ==
  ASSUME NEW v \in Nat, NEW j \in Nat, NEW u \in Nat, NEW w \in Nat, w <= v + j
  PROVE  u + (v + j - w) \in Nat
OBVIOUS

LEMMA JoinVaultKeeps ==
  ASSUME IInv, JoinVault
  PROVE  /\ IInv'
         /\ inVault <= principal /\ unbooked = 0 => 2 * (balance - balance') <= balance - pot
<1> USE DEF IInv
<1> DEFINE sent == Moved(balance, JoinAmount)
<1>1. JoinAmount \in Nat /\ (inVault <= principal => 2 * JoinAmount <= principal - inVault)
  BY JoinIsHalf
<1>2. sent \in Nat /\ sent <= balance /\ sent <= JoinAmount
  BY <1>1, MovedFacts DEF TypeOK
<1> HIDE DEF sent
<1>3. /\ inVault' = TryAdd(inVault, JoinAmount)
      /\ unbooked' = unbooked + (inVault + JoinAmount - inVault')
      /\ balance' = balance - sent
      /\ joins' = [joins EXCEPT ![Len(joins)] = joins[Len(joins)] + sent]
      /\ UNCHANGED <<now, held, principal, yield, lastAccrual, shares, unwinds, pot, interest,
                     harvested>>
  BY DEF JoinVault, sent
<1> HIDE DEF JoinVault
<1>4. Len(joins) \in DOMAIN joins /\ joins[Len(joins)] + sent \in Nat
  BY <1>2, BooksOfBatchers, EntryIsNat
<1>5. joins' \in Seq(Nat) /\ joins' # <<>>
  BY <1>3, <1>4, BooksOfBatchers, EntryRewritten
<1>6. inVault' \in Nat /\ inVault' <= inVault + JoinAmount
  BY <1>1, <1>3 DEF TypeOK, TryAdd
<1>7. unbooked' \in Nat
  <2>1. PICK left \in Nat, joining \in Nat :
          left = inVault' /\ joining = JoinAmount /\ left <= inVault + joining
    BY <1>1, <1>6
  <2>2. unbooked' = unbooked + (inVault + joining - left)
    BY <1>3, <2>1
  <2> QED
    BY <2>1, <2>2, Numbers, UnbookedGrows
<1>8. TypeOK'
  BY <1>2, <1>3, <1>5, <1>6, <1>7 DEF TypeOK
<1>9. /\ balance' = balance - sent /\ pot' = pot /\ principal' = principal
      /\ sent \in Nat /\ sent <= JoinAmount /\ JoinAmount \in Nat
      /\ balance \in Nat /\ inVault \in Nat /\ unbooked \in Nat /\ pot \in Int /\ principal \in Nat
  BY <1>1, <1>2, <1>3, Numbers
<1>10. balance + inVault + unbooked >= pot + principal
  BY OneBalance
<1>11. balance' + inVault' + unbooked' >= pot' + principal'
  <2>1. PICK left \in Nat : left = inVault'
    BY <1>6
  <2>2. unbooked' = unbooked + (inVault + JoinAmount - left)
    BY <1>3, <2>1
  <2>3. PICK joining \in Nat, moved \in Nat : joining = JoinAmount /\ moved = sent /\ moved <= joining
    BY <1>9
  <2>4. (balance - moved) + left + (unbooked + (inVault + joining - left)) >= pot + principal
    BY <1>9, <1>10, <2>1, <2>3, JoinedSum
  <2> QED
    BY <1>9, <2>1, <2>2, <2>3, <2>4
<1>12. inVault <= principal /\ unbooked = 0 => 2 * (balance - balance') <= balance - pot
  <2>1. inVault <= principal => 2 * JoinAmount <= principal - inVault
    BY <1>1
  <2> QED
    BY ONLY <1>9, <1>10, <2>1
<1> QED
  BY <1>8, <1>11, <1>12 DEF BufferIsWhatIsNotInVault

LEMMA ClaimUnwoundKeeps ==
  ASSUME IInv, NEW id \in DOMAIN unwinds, ClaimUnwound(id)
  PROVE  IInv' /\ inVault' <= inVault
<1> DEFINE returned == unwinds[id]
<1>1. returned \in Nat
  BY BooksOfBatchers, EntryIsNat
<1>2. unwinds' \in Seq(Nat) /\ unwinds' # <<>>
  BY BooksOfBatchers, EntryRewritten DEF ClaimUnwound
<1>3. /\ balance' = balance + returned
      /\ inVault' = TryDecrease(inVault, returned)
      /\ UNCHANGED <<now, held, principal, yield, lastAccrual, shares, joins, pot, interest,
                     harvested, unbooked>>
  BY DEF ClaimUnwound, LeftInVault, history
<1> HIDE DEF returned
<1>4. /\ inVault' \in Nat /\ inVault' <= inVault /\ balance' \in Nat
      /\ balance' - balance >= inVault - inVault'
  BY <1>1, <1>3 DEF IInv, TypeOK, TryDecrease
<1>5. TypeOK'
  BY <1>2, <1>3, <1>4 DEF IInv, TypeOK
<1>6. BufferIsWhatIsNotInVault'
  BY <1>3, <1>4, Numbers, OneBalance DEF BufferIsWhatIsNotInVault
<1> QED
  BY <1>4, <1>5, <1>6 DEF IInv

\* The transactions that leave principal and in-vault books alone.
LEMMA GiftKeeps ==
  ASSUME IInv, NEW amount \in Amounts, Gift(amount)
  PROVE  IInv' /\ inVault' = inVault
<1>1. amount \in Nat
  BY ReplicaAssumption
<1> QED
  BY <1>1 DEF Gift, IInv, TypeOK, BufferIsWhatIsNotInVault, books, vault

LEMMA RequestUnwindKeeps ==
  ASSUME IInv, RequestUnwind
  PROVE  IInv' /\ inVault' = inVault
<1>1. unwinds[Len(unwinds)] \in Nat /\ shares \in Nat
  BY BooksOfBatchers, EntryIsNat DEF IInv, TypeOK
<1> DEFINE sum == unwinds[Len(unwinds)] + shares
<1>2. sum \in Nat
  BY <1>1
<1>3. unwinds' = [unwinds EXCEPT ![Len(unwinds)] = sum]
  BY DEF RequestUnwind
<1> HIDE DEF sum
<1>4. unwinds' \in Seq(Nat) /\ unwinds' # <<>>
  BY <1>2, <1>3, BooksOfBatchers, EntryRewritten
<1>5. shares' = 0 /\ UNCHANGED <<now, balance, held, books, joins, history>>
  BY DEF RequestUnwind
<1> QED
  BY <1>4, <1>5 DEF IInv, TypeOK, BufferIsWhatIsNotInVault, books, history

LEMMA DispatchJoinsKeeps ==
  ASSUME IInv, DispatchJoins
  PROVE  IInv' /\ inVault' = inVault
<1>1. joins' \in Seq(Nat) /\ joins' # <<>>
  BY BooksOfBatchers, BatchAdded DEF DispatchJoins
<1>2. UNCHANGED <<now, balance, held, books, shares, unwinds, history>>
  BY DEF DispatchJoins
<1> QED
  BY <1>1, <1>2 DEF IInv, TypeOK, BufferIsWhatIsNotInVault, books, history

LEMMA TickKeeps ==
  ASSUME IInv, Tick
  PROVE  IInv' /\ inVault' = inVault
<1>1. principal \in Nat /\ Rate \in Nat /\ interest \in Nat
  BY ReplicaAssumption DEF IInv, TypeOK
<1> DEFINE gain == principal * Rate
<1>2. gain \in Nat /\ interest' = interest + gain
  BY <1>1 DEF Tick
<1> HIDE DEF gain
<1>3. interest' \in Nat /\ now' = now + 1
  BY <1>1, <1>2 DEF Tick
<1>4. UNCHANGED <<balance, held, principal, yield, inVault, lastAccrual, shares, joins, unwinds,
                  pot, harvested, unbooked>>
  BY DEF Tick, books, vault
<1> QED
  BY <1>3, <1>4 DEF IInv, TypeOK, BufferIsWhatIsNotInVault

LEMMA ClaimSharesKeeps ==
  ASSUME IInv, NEW id \in DOMAIN joins, ClaimShares(id)
  PROVE  IInv' /\ inVault' = inVault
<1>1. joins[id] \in Nat
  BY BooksOfBatchers, EntryIsNat
<1>2. joins' \in Seq(Nat) /\ joins' # <<>>
  BY BooksOfBatchers, EntryRewritten DEF ClaimShares
<1> DEFINE claimed == shares + joins[id]
<1>3. shares' = claimed /\ claimed \in Nat
  BY <1>1, Numbers DEF ClaimShares
<1> HIDE DEF claimed
<1>4. UNCHANGED <<now, balance, held, books, unwinds, history>>
  BY DEF ClaimShares
<1> QED
  BY <1>2, <1>3, <1>4 DEF IInv, TypeOK, BufferIsWhatIsNotInVault, books, history

LEMMA ClaimedByOthersKeeps ==
  ASSUME IInv, NEW id \in DOMAIN unwinds, ClaimedByOthers(id)
  PROVE  IInv' /\ inVault' = inVault
<1>1. unwinds[id] \in Nat
  BY BooksOfBatchers, EntryIsNat
<1>2. unwinds' \in Seq(Nat) /\ unwinds' # <<>>
  BY BooksOfBatchers, EntryRewritten DEF ClaimedByOthers
<1> DEFINE returned == unwinds[id]
<1>3. balance' = balance + returned /\ returned \in Nat
  BY <1>1 DEF ClaimedByOthers
<1> HIDE DEF returned
<1>4. UNCHANGED <<now, held, books, shares, joins, history>>
  BY DEF ClaimedByOthers
<1> QED
  BY <1>2, <1>3, <1>4 DEF IInv, TypeOK, BufferIsWhatIsNotInVault, books, history

LEMMA DispatchUnwindsKeeps ==
  ASSUME IInv, NEW price \in Prices, DispatchUnwinds(price)
  PROVE  IInv' /\ inVault' = inVault
<1>1. Len(unwinds) \in DOMAIN unwinds /\ unwinds[Len(unwinds)] \in Nat /\ price \in Nat
  BY ReplicaAssumption, BooksOfBatchers, EntryIsNat
<1> DEFINE paid == unwinds[Len(unwinds)] * price
           settled == [unwinds EXCEPT ![Len(unwinds)] = paid]
<1>2. paid \in Nat
  BY <1>1
<1>3. unwinds' = Append(settled, 0)
  BY DEF DispatchUnwinds
<1> HIDE DEF paid
<1>4. settled \in Seq(Nat) /\ settled # <<>>
  BY <1>1, <1>2, BooksOfBatchers, EntryRewritten
<1> HIDE DEF settled
<1>5. unwinds' \in Seq(Nat) /\ unwinds' # <<>>
  BY <1>3, <1>4, BatchAdded
<1>6. UNCHANGED <<now, balance, held, books, shares, joins, history>>
  BY DEF DispatchUnwinds
<1> QED
  BY <1>5, <1>6 DEF IInv, TypeOK, BufferIsWhatIsNotInVault, books, history

LEMMA StepKeeps ==
  ASSUME IInv, [Next]_vars
  PROVE  /\ IInv'
         /\ inVault' > inVault /\ inVault <= principal /\ unbooked = 0 =>
              2 * (balance - balance') <= balance - pot
<1>00. ASSUME IInv', inVault' <= inVault
       PROVE  ~(inVault' > inVault)
  <2>1. inVault \in Nat /\ inVault' \in Nat
    BY <1>00 DEF IInv, TypeOK
  <2> QED
    BY <2>1, <1>00
<1>0. ASSUME IInv', inVault' = inVault
      PROVE  ~(inVault' > inVault)
  <2>1. inVault \in Nat
    BY DEF IInv, TypeOK
  <2> QED
    BY <2>1, <1>0
<1>1. CASE \E amount \in Amounts : Supply(amount)
  <2>1. inVault' = inVault
    BY <1>1 DEF Supply
  <2>2. IInv'
    BY <1>1, SupplyKeeps
  <2> QED
    BY <2>1, <2>2, <1>0
<1>2. CASE \E amount \in Amounts : Redeem(amount)
  <2>1. inVault' = inVault
    BY <1>2 DEF Redeem
  <2>2. IInv'
    BY <1>2, RedeemKeeps
  <2> QED
    BY <2>1, <2>2, <1>0
<1>3. CASE Harvest
  <2>1. inVault' = inVault
    BY <1>3 DEF Harvest
  <2>2. IInv'
    BY <1>3, HarvestKeeps
  <2> QED
    BY <2>1, <2>2, <1>0
<1>4. CASE JoinVault
  BY <1>4, JoinVaultKeeps
<1>5. CASE \E id \in DOMAIN unwinds : ClaimUnwound(id)
  <2>1. PICK id \in DOMAIN unwinds : ClaimUnwound(id)
    BY <1>5
  <2>2. IInv' /\ inVault' <= inVault
    BY <2>1, ClaimUnwoundKeeps
  <2> QED
    BY <2>2, <1>00
<1>6. ASSUME \/ \E amount \in Amounts : Gift(amount)
             \/ RequestUnwind \/ DispatchJoins \/ Tick
             \/ \E id \in DOMAIN joins : ClaimShares(id)
             \/ \E id \in DOMAIN unwinds : ClaimedByOthers(id)
             \/ \E price \in Prices : DispatchUnwinds(price)
      PROVE  IInv' /\ inVault' = inVault
  BY <1>6, GiftKeeps, RequestUnwindKeeps, DispatchJoinsKeeps, TickKeeps, ClaimSharesKeeps,
     ClaimedByOthersKeeps, DispatchUnwindsKeeps
<1>7. CASE UNCHANGED vars
  BY <1>7 DEF vars, books, vault, history, IInv, TypeOK, BufferIsWhatIsNotInVault
<1> QED
  BY <1>0, <1>1, <1>2, <1>3, <1>4, <1>5, <1>6, <1>7 DEF Next

-----------------------------------------------------------------------------
(* What the source accounts for, against the interest of its principal.    *)

\* In parts of one token by Scale: banked, paid and still running.
Accounted == Scale * (yield + harvested) + principal * Rate * (now - lastAccrual)

\* A settlement drops less than one token, and none when the clock has not moved.
InterestIsAccounted ==
  /\ Accounted <= interest
  /\ interest <= Accounted + Scale * lastAccrual

\* What the principal has earned is a number of tokens of the yield's width.
InterestFits == interest <= Scale * MaxUint64

LEMMA Quotient ==
  ASSUME NEW m \in Nat, NEW k \in Nat \ {0}
  PROVE  /\ m \div k \in Nat
         /\ k * (m \div k) <= m
         /\ m < k * (m \div k) + k
OBVIOUS

LEMMA ProductIsNat ==
  ASSUME NEW a \in Nat, NEW b \in Nat
  PROVE  a * b \in Nat
OBVIOUS

LEMMA ProductGrows ==
  ASSUME NEW a \in Nat, NEW b \in Nat, NEW k \in Nat, a < b
  PROVE  a * k + k <= b * k
<1>1. PICK d \in Nat : b = a + 1 + d
  <2>1. b - a - 1 \in Nat /\ b = a + 1 + (b - a - 1)
    OBVIOUS
  <2> QED BY <2>1
<1>2. b * k = a * k + k + d * k
  BY <1>1
<1>3. d * k \in Nat /\ a * k \in Nat
  BY ProductIsNat
<1> QED
  BY <1>2, <1>3

LEMMA Operands ==
  ASSUME IInv
  PROVE  /\ principal \in Nat /\ yield \in Nat /\ harvested \in Nat /\ interest \in Nat
         /\ now \in Nat /\ lastAccrual \in Nat /\ lastAccrual <= now
         /\ now - lastAccrual \in Nat
         /\ Rate \in Nat /\ MaxUint64 \in Nat /\ Scale \in Nat \ {0}
<1>1. /\ principal \in Nat /\ yield \in Nat /\ harvested \in Nat /\ interest \in Nat
      /\ now \in Nat /\ lastAccrual \in Nat /\ lastAccrual <= now
  BY DEF IInv, TypeOK
<1>2. Rate \in Nat /\ MaxUint64 \in Nat /\ Scale \in Nat \ {0}
  BY ReplicaAssumption
<1> QED
  BY <1>1, <1>2

\* The terms of the account are naturals, named so that sums of them are linear.
LEMMA Terms ==
  ASSUME IInv, NEW elapsed \in Nat
  PROVE  /\ principal * Rate \in Nat
         /\ principal * Rate * elapsed \in Nat
         /\ Accrued(elapsed) \in Nat
         /\ Scale * Accrued(elapsed) <= principal * Rate * elapsed
         /\ principal * Rate * elapsed < Scale * Accrued(elapsed) + Scale
<1>1. principal * Rate \in Nat
  BY Operands, ProductIsNat
<1> DEFINE n == principal * Rate
<1>2. n * elapsed \in Nat
  <2> HIDE DEF n
  <2>1. n \in Nat
    BY <1>1 DEF n
  <2> QED BY <2>1, ProductIsNat
<1> DEFINE m == n * elapsed
<1>3. Accrued(elapsed) = m \div Scale
  BY DEF Accrued
<1>4. m \in Nat
  BY <1>2
<1> HIDE DEF m
<1>5. /\ m \div Scale \in Nat
      /\ Scale * (m \div Scale) <= m
      /\ m < Scale * (m \div Scale) + Scale
  BY <1>4, Quotient, Operands
<1> QED
  BY <1>1, <1>3, <1>4, <1>5 DEF m

\* While the interest fits, nothing is dropped by the yield's width.
LEMMA SettledExact ==
  ASSUME IInv, InterestIsAccounted, InterestFits
  PROVE  Settled = yield + Accrued(now - lastAccrual)
<1>1. PICK e \in Nat : e = now - lastAccrual
  BY Operands
<1>2. PICK a \in Nat : a = Accrued(e)
  BY Terms
<1>3. PICK m \in Nat : m = principal * Rate * e
  BY Terms
<1>4. Scale * a <= m
  BY <1>2, <1>3, Terms
<1>5. Scale * (yield + harvested) + m <= interest
  BY <1>1, <1>3 DEF InterestIsAccounted, Accounted
<1>6. Scale * (yield + harvested + a) = Scale * (yield + harvested) + Scale * a
  BY Operands
<1>7. Scale * (yield + harvested + a) <= Scale * MaxUint64
  <2>1. PICK x \in Nat : x = Scale * (yield + harvested)
    BY Operands, ProductIsNat
  <2>2. PICK y \in Nat : y = Scale * a
    BY Operands, ProductIsNat
  <2>3. PICK z \in Nat : z = Scale * MaxUint64
    BY Operands, ProductIsNat
  <2>4. x + y <= z
    BY <1>4, <1>5, <2>1, <2>2, <2>3, Operands DEF InterestFits
  <2> QED
    BY <1>6, <2>1, <2>2, <2>3, <2>4
<1>8. yield + a <= MaxUint64
  <2>1. SUFFICES ASSUME MaxUint64 < yield + harvested + a PROVE FALSE
    BY Operands
  <2>2. MaxUint64 * Scale + Scale <= (yield + harvested + a) * Scale
    BY <2>1, Operands, ProductGrows
  <2>3. PICK x \in Nat : x = Scale * MaxUint64
    BY Operands, ProductIsNat
  <2>4. PICK y \in Nat : y = Scale * (yield + harvested + a)
    BY Operands, ProductIsNat
  <2>5. MaxUint64 * Scale = x /\ (yield + harvested + a) * Scale = y
    BY <2>3, <2>4, Operands
  <2> QED
    BY <1>7, <2>2, <2>3, <2>4, <2>5, Operands
<1> QED
  BY <1>1, <1>2, <1>8, Operands DEF Settled, TryAdd

\* Settling banks what was running; a second's settlements share one rounding.
LEMMA SettlingAccounts ==
  ASSUME IInv, InterestIsAccounted, InterestFits,
         NEW banked \in Nat, NEW paid \in Nat, banked + paid = Settled + harvested
  PROVE  /\ Scale * (banked + paid) <= interest
         /\ interest <= Scale * (banked + paid) + Scale * now
<1>1. PICK e \in Nat : e = now - lastAccrual
  BY Operands
<1>2. PICK a \in Nat : a = Accrued(e)
  BY Terms
<1>3. PICK m \in Nat : m = principal * Rate * e
  BY Terms
<1>4. Scale * a <= m /\ m < Scale * a + Scale
  BY <1>2, <1>3, Terms
<1>5. PICK h \in Nat : h = yield + harvested
  BY Operands
<1>6. PICK x \in Nat : x = Scale * h
  BY Operands, ProductIsNat
<1>7. PICK y \in Nat : y = Scale * a
  BY Operands, ProductIsNat
<1>8. Scale * (banked + paid) = x + y
  <2>1. banked + paid = h + a
    BY <1>1, <1>2, <1>5, SettledExact, Operands
  <2>2. Scale * (h + a) = Scale * h + Scale * a
    BY Operands
  <2> QED
    BY <2>1, <2>2, <1>6, <1>7
<1>9. PICK w \in Nat : w = Scale * lastAccrual
  BY Operands, ProductIsNat
<1>10. x + m <= interest /\ interest <= x + m + w
  <2>1. Accounted = x + m
    BY <1>1, <1>3, <1>5, <1>6 DEF Accounted
  <2> QED
    BY <2>1, <1>9 DEF InterestIsAccounted
<1>11. PICK v \in Nat : v = Scale * now
  BY Operands, ProductIsNat
<1>12. x + y <= interest
  BY <1>4, <1>7, <1>10, Operands
<1>13. CASE e = 0
  <2>1. m = 0
    BY <1>3, <1>13, Terms, Operands
  <2>2. v = w
    BY <1>1, <1>13, <1>9, <1>11, Operands
  <2> QED
    BY <1>8, <1>10, <1>11, <1>12, <2>1, <2>2, Operands
<1>14. CASE lastAccrual < now
  <2>1. lastAccrual * Scale + Scale <= now * Scale
    BY <1>14, Operands, ProductGrows
  <2>2. w + Scale <= v
    BY <2>1, <1>9, <1>11, Operands
  <2> QED
    BY <1>4, <1>7, <1>8, <1>10, <1>11, <1>12, <2>2, Operands
<1> QED
  BY <1>1, <1>13, <1>14, Operands

\* A transaction that settles, and moves the principal or pays the yield.
LEMMA SettlementAccounts ==
  ASSUME IInv, IInv', InterestIsAccounted, InterestFits,
         lastAccrual' = now, now' = now, interest' = interest,
         yield' + harvested' = Settled + harvested
  PROVE  InterestIsAccounted'
<1>1. yield' \in Nat /\ harvested' \in Nat /\ principal' \in Nat
  BY DEF IInv, TypeOK
<1>2. PICK x \in Nat : x = Scale * (yield' + harvested')
  BY <1>1, Operands, ProductIsNat
<1>3. principal' * Rate * 0 = 0
  <2>1. principal' * Rate \in Nat
    BY <1>1, Operands, ProductIsNat
  <2> QED BY <2>1
<1>4. Accounted' = x
  <2>1. now' - lastAccrual' = 0
    BY Operands
  <2>2. Accounted' = x + principal' * Rate * 0
    BY <1>2, <2>1 DEF Accounted
  <2> QED
    BY <1>2, <1>3, <2>2
<1>5. x <= interest /\ interest <= x + Scale * now
  BY <1>1, <1>2, SettlingAccounts
<1> QED
  BY <1>4, <1>5 DEF InterestIsAccounted

\* A second adds to the account what it adds to the interest.
LEMMA TickAccounts ==
  ASSUME IInv, InterestIsAccounted, Tick
  PROVE  InterestIsAccounted'
<1>1. PICK e \in Nat : e = now - lastAccrual
  BY Operands
<1>2. PICK g \in Nat : g = principal * Rate
  BY Operands, ProductIsNat
<1>3. PICK m \in Nat : m = g * e
  BY ProductIsNat
<1>4. PICK x \in Nat : x = Scale * (yield + harvested)
  BY Operands, ProductIsNat
<1>5. PICK w \in Nat : w = Scale * lastAccrual
  BY Operands, ProductIsNat
<1>6. /\ now' = now + 1 /\ interest' = interest + g
      /\ UNCHANGED <<principal, yield, harvested, lastAccrual>>
  BY <1>2 DEF Tick, books
<1>7. Accounted = x + m
  BY <1>1, <1>2, <1>3, <1>4 DEF Accounted
<1>8. Accounted' = x + (m + g)
  <2>1. now' - lastAccrual' = e + 1
    BY <1>1, <1>6, Operands
  <2>2. g * (e + 1) = m + g
    BY <1>3
  <2>3. Accounted' = x + g * (e + 1)
    BY <1>2, <1>4, <1>6, <2>1 DEF Accounted
  <2> QED
    BY <2>2, <2>3
<1>9. x + m <= interest /\ interest <= x + m + w
  BY <1>5, <1>7 DEF InterestIsAccounted
<1>10. x + (m + g) <= interest + g /\ interest + g <= x + (m + g) + w
  BY <1>9, Operands
<1> QED
  BY <1>5, <1>6, <1>8, <1>10 DEF InterestIsAccounted

LEMMA InterestUntouched ==
  ASSUME InterestIsAccounted,
         UNCHANGED <<now, interest, principal, yield, harvested, lastAccrual>>
  PROVE  InterestIsAccounted'
BY DEF InterestIsAccounted, Accounted

LEMMA InterestStep ==
  ASSUME IInv, [Next]_vars, InterestIsAccounted, InterestFits
  PROVE  InterestIsAccounted'
<1>0. IInv'
  BY StepKeeps
<1>1. ASSUME NEW amount \in Amounts, Supply(amount) \/ Redeem(amount)
      PROVE  InterestIsAccounted'
  <2>1. /\ lastAccrual' = now /\ yield' = Settled
        /\ now' = now /\ interest' = interest /\ harvested' = harvested
    BY <1>1 DEF Supply, Redeem, Settle, history
  <2> QED
    BY <1>0, <2>1, SettlementAccounts
<1>2. CASE Harvest
  <2>1. PICK sent : sent = Moved(balance, Settled)
    OBVIOUS
  <2>2. Settled \in Nat /\ sent \in Nat /\ sent <= Settled
    BY <2>1, SettledIsNat, MovedFacts, Numbers, Operands DEF IInv
  <2>3. /\ lastAccrual' = now /\ now' = now /\ interest' = interest
        /\ yield' = TryDecrease(Settled, sent) /\ harvested' = harvested + sent
    BY <1>2, <2>1 DEF Harvest
  <2>4. yield' + harvested' = Settled + harvested
    BY <2>2, <2>3, Operands DEF TryDecrease
  <2> QED
    BY <1>0, <2>3, <2>4, SettlementAccounts
<1>3. CASE Tick
  BY <1>3, TickAccounts
<1>4. ASSUME \/ \E amount \in Amounts : Gift(amount)
             \/ JoinVault \/ RequestUnwind \/ DispatchJoins
             \/ \E id \in DOMAIN joins : ClaimShares(id)
             \/ \E id \in DOMAIN unwinds : ClaimUnwound(id) \/ ClaimedByOthers(id)
             \/ \E price \in Prices : DispatchUnwinds(price)
             \/ UNCHANGED vars
      PROVE  InterestIsAccounted'
  <2>1. UNCHANGED <<now, interest, principal, yield, harvested, lastAccrual>>
    BY <1>4 DEF Gift, JoinVault, RequestUnwind, DispatchJoins, ClaimShares, ClaimUnwound,
                ClaimedByOthers, DispatchUnwinds, vars, books, history
  <2> QED
    BY <2>1, InterestUntouched
<1> QED
  BY <1>1, <1>2, <1>3, <1>4 DEF Next

LEMMA InitAccounts == Init => InterestIsAccounted
<1> SUFFICES ASSUME Init PROVE InterestIsAccounted
  OBVIOUS
<1>1. IInv
  BY InitHolds
<1>2. now = 0 /\ lastAccrual = 0 /\ principal = 0 /\ yield = 0 /\ harvested = 0 /\ interest = 0
  BY DEF Init
<1>3. 0 * Rate * 0 = 0 /\ Scale * 0 = 0
  BY <1>1, Operands
<1>4. Accounted = 0
  BY <1>2, <1>3 DEF Accounted
<1> QED
  BY <1>2, <1>3, <1>4 DEF InterestIsAccounted

-----------------------------------------------------------------------------
(* The threshold.                                                          *)

\* n div k is where k times a number passes n.
LEMMA Threshold ==
  ASSUME NEW p \in Nat, NEW n \in Nat, NEW k \in Nat \ {0}
  PROVE  /\ p > n \div k => p * k > n
         /\ p < n \div k => p * k < n
<1>1. PICK q \in Nat : q = n \div k
  BY Quotient
<1>2. PICK qk \in Nat : qk = q * k
  BY ProductIsNat
<1>3. qk <= n /\ n < qk + k
  <2>1. k * q <= n /\ n < k * q + k
    BY <1>1, Quotient
  <2>2. k * q = qk
    BY <1>2
  <2> QED
    BY <2>1, <2>2
<1>4. PICK pk \in Nat : pk = p * k
  BY ProductIsNat
<1>5. p > q => qk + k <= pk
  BY <1>2, <1>4, ProductGrows
<1>6. p < q => pk + k <= qk
  BY <1>2, <1>4, ProductGrows
<1>7. (p > q => pk > n) /\ (p < q => pk < n)
  BY <1>3, <1>5, <1>6
<1> QED
  BY <1>1, <1>4, <1>7

LEMMA ThresholdHolds ==
  ASSUME IInv, Rate # 0
  PROVE  BreakEvenIsTheThreshold
<1> SUFFICES ASSUME NEW expected \in 1..MaxUint64 \div Scale, NEW elapsed \in 1..MaxTime,
                    elapsed >= Period
             PROVE  /\ principal > BreakEven(expected, elapsed) => Accrued(elapsed) >= expected
                    /\ principal < BreakEven(expected, elapsed) => Accrued(elapsed) < expected
  BY DEF BreakEvenIsTheThreshold
<1>1. expected \in Nat /\ elapsed \in Nat \ {0} /\ Period \in Nat
  <2>1. MaxTime \in Nat /\ Period \in Nat /\ MaxUint64 \div Scale \in Nat
    BY ReplicaAssumption, Quotient, Operands
  <2> QED BY <2>1
<1>2. PICK k \in Nat \ {0} : k = Rate * elapsed
  BY <1>1, Operands
<1>3. PICK n \in Nat : n = expected * Scale
  BY <1>1, Operands, ProductIsNat
<1>4. BreakEven(expected, elapsed) = n \div k
  <2>1. ~ (elapsed < Period)
    BY <1>1
  <2> QED
    BY <1>2, <1>3, <2>1 DEF BreakEven
<1>5. PICK m \in Nat : m = principal * k
  BY Operands, ProductIsNat
<1>6. principal * Rate * elapsed = m
  BY <1>1, <1>2, <1>5, Operands
<1>7. Accrued(elapsed) = m \div Scale
  BY <1>6 DEF Accrued
<1>8. PICK a \in Nat : a = m \div Scale
  BY Quotient, Operands
<1>9. Scale * a <= m /\ m < Scale * a + Scale
  BY <1>8, Quotient, Operands
<1>10. /\ principal > n \div k => m > n
       /\ principal < n \div k => m < n
  BY <1>5, Threshold, Operands
<1>11. PICK y \in Nat : y = Scale * a /\ y = a * Scale
  BY Operands, ProductIsNat
<1>12. m > n => a >= expected
  <2>1. a < expected => a * Scale + Scale <= expected * Scale
    BY <1>1, Operands, ProductGrows
  <2>2. a < expected => y + Scale <= n
    BY <1>3, <1>11, <2>1
  <2> QED
    BY <1>1, <1>9, <1>11, <2>2, Operands
<1>13. m < n => a < expected
  <2>1. expected < a => expected * Scale + Scale <= a * Scale
    BY <1>1, Operands, ProductGrows
  <2>2. expected < a => n + Scale <= y
    BY <1>3, <1>11, <2>1
  <2>3. expected = a => n = y
    BY <1>3, <1>11
  <2> QED
    BY <1>1, <1>9, <1>11, <2>2, <2>3, Operands
<1> QED
  BY <1>4, <1>7, <1>8, <1>10, <1>12, <1>13

LEMMA AccountBounds ==
  ASSUME IInv, InterestIsAccounted, Rate # 0
  PROVE  YieldFollowsPrincipal
<1>1. PICK w \in Nat : w = Scale * lastAccrual
  BY Operands, ProductIsNat
<1>2. PICK v \in Nat : v = Scale * now
  BY Operands, ProductIsNat
<1>3. w <= v
  <2>1. CASE lastAccrual = now
    BY <1>1, <1>2, <2>1
  <2>2. CASE lastAccrual < now
    <3>1. lastAccrual * Scale + Scale <= now * Scale
      BY <2>2, Operands, ProductGrows
    <3>2. w + Scale <= v
      BY <3>1, <1>1, <1>2, Operands
    <3> QED BY <3>2, Operands
  <2> QED BY <2>1, <2>2, Operands
<1>4. PICK x \in Nat : x = Accounted
  <2>1. PICK e \in Nat : e = now - lastAccrual
    BY Operands
  <2>2. principal * Rate * e \in Nat /\ Scale * (yield + harvested) \in Nat
    BY Terms, Operands, ProductIsNat
  <2> QED
    BY <2>1, <2>2 DEF Accounted
<1>5. x <= interest /\ interest <= x + v
  <2>1. x <= interest /\ interest <= x + w
    BY <1>1, <1>4 DEF InterestIsAccounted
  <2> QED
    BY <1>3, <2>1, Operands
<1>6. Accounted <= interest /\ interest <= Accounted + Scale * now
  BY <1>2, <1>4, <1>5
<1> QED
  BY <1>6, ThresholdHolds DEF YieldFollowsPrincipal, Accounted

-----------------------------------------------------------------------------
(* The lists of batches and who reads them.                                *)

\* A batch in which something waits is on its list, and the lists name batches there are.
BatchesAreListed ==
  /\ joined \subseteq DOMAIN joins
  /\ \A id \in DOMAIN joins : joins[id] > 0 => id \in joined
  /\ \A id \in DOMAIN unwinds : unwinds[id] > 0 => id \in redeems

\* Before the first join nothing is on the trip.
NothingIsOut ==
  joined = {} => inVault = 0 /\ shares = 0 /\ \A id \in DOMAIN unwinds : unwinds[id] = 0

\* A status read across dispatches: its list is of batches up to the current one, a
\* current batch that it read as settled was dispatched, and the assistant's own batch
\* is listed, in the source and in the answer.
AnswerHolds ==
  /\ answer.own > 0 => answer.own \in joined
  /\ answer.at # "idle" => /\ answer.own > 0 => answer.own \in answer.open
                           /\ answer.open \subseteq DOMAIN joins
  /\ answer.at \in {"current", "state"} =>
       /\ answer.batch \in DOMAIN joins
       /\ \A id \in answer.open : id <= answer.batch
  /\ answer.at = "state" /\ answer.state = "settled" => answer.batch < Len(joins)

AnswerType ==
  answer \in [at : {"idle", "open", "current", "state"}, open : SUBSET Nat, batch : Nat,
              state : {"unread", "open", "settled"}, own : Nat]

ListInv == BatchesAreListed /\ NothingIsOut /\ AnswerType /\ AnswerHolds

LEMMA AnswerFields ==
  ASSUME NEW at, NEW open, NEW batch, NEW state, NEW own
  PROVE  /\ Answer(at, open, batch, state, own).at = at
         /\ Answer(at, open, batch, state, own).open = open
         /\ Answer(at, open, batch, state, own).batch = batch
         /\ Answer(at, open, batch, state, own).state = state
         /\ Answer(at, open, batch, state, own).own = own
BY DEF Answer

\* Entries of a batcher's books.
LEMMA Entries ==
  ASSUME IInv
  PROVE  /\ DOMAIN joins = 1..Len(joins) /\ Len(joins) \in Nat \ {0}
         /\ DOMAIN unwinds = 1..Len(unwinds) /\ Len(unwinds) \in Nat \ {0}
         /\ \A id \in DOMAIN joins : joins[id] \in Nat
         /\ \A id \in DOMAIN unwinds : unwinds[id] \in Nat
<1>1. joins \in Seq(Nat) /\ unwinds \in Seq(Nat) /\ joins # <<>> /\ unwinds # <<>>
  BY DEF IInv, TypeOK
<1> QED
  BY <1>1

\* An answer stays true while the list and the batches only grow.
LEMMA AnswerStays ==
  ASSUME AnswerHolds, joined \subseteq joined', answer' = answer,
         DOMAIN joins = 1..Len(joins), DOMAIN joins' = 1..Len(joins'),
         Len(joins) \in Nat, Len(joins') \in Nat, Len(joins) <= Len(joins')
  PROVE  AnswerHolds'
<1>1. DOMAIN joins \subseteq DOMAIN joins'
  OBVIOUS
<1>2. ASSUME answer.at = "state", answer.state = "settled"
      PROVE  answer.batch < Len(joins')
  <2>1. answer.batch \in DOMAIN joins /\ answer.batch < Len(joins)
    BY <1>2 DEF AnswerHolds
  <2> QED
    BY <2>1
<1> QED
  BY <1>1, <1>2 DEF AnswerHolds

LEMMA SameAnswer ==
  ASSUME AnswerType, answer' = answer
  PROVE  AnswerType'
BY DEF AnswerType

\* joinVault: the batch it joins is put on the list.
LEMMA JoinLists ==
  ASSUME IInv, ListInv, Join, answer' = answer \/ answer' = Answer("idle", {}, 0, "unread", Len(joins))
  PROVE  ListInv'
<1>1. Len(joins) \in DOMAIN joins /\ DOMAIN joins' = DOMAIN joins /\ Len(joins') = Len(joins)
      /\ \A id \in DOMAIN joins : id # Len(joins) => joins'[id] = joins[id]
  <2>1. joins \in Seq(Nat) /\ Len(joins) \in DOMAIN joins
    BY BooksOfBatchers
  <2> DEFINE n == joins[Len(joins)] + Moved(balance, JoinAmount)
  <2>2. joins' = [joins EXCEPT ![Len(joins)] = n]
    BY DEF Join, JoinVault
  <2> HIDE DEF n
  <2> QED
    BY <2>1, <2>2
<1>2. /\ joined' = joined \union {Len(joins)} /\ UNCHANGED <<redeems, unwinds, shares>>
  BY DEF Join, JoinVault, Listed
<1>3. BatchesAreListed'
  BY <1>1, <1>2 DEF ListInv, BatchesAreListed
<1>4. NothingIsOut'
  BY <1>2 DEF NothingIsOut
<1>5. AnswerHolds'
  <2>1. CASE answer' = answer
    BY <1>1, <1>2, <2>1, Entries, AnswerStays DEF ListInv
  <2>2. CASE answer' = Answer("idle", {}, 0, "unread", Len(joins))
    <3>1. answer'.at = "idle" /\ answer'.own = Len(joins)
      BY <2>2, AnswerFields
    <3> QED
      BY <1>2, <3>1 DEF AnswerHolds
  <2> QED
    BY <2>1, <2>2
<1>6. AnswerType'
  <2>1. Len(joins) \in Nat
    BY Entries
  <2>2. {} \in SUBSET Nat /\ 0 \in Nat
    OBVIOUS
  <2>3. Answer("idle", {}, 0, "unread", Len(joins)) \in
          [at : {"idle", "open", "current", "state"}, open : SUBSET Nat, batch : Nat,
           state : {"unread", "open", "settled"}, own : Nat]
    BY <2>1, <2>2 DEF Answer
  <2> QED
    BY <2>3 DEF ListInv, AnswerType
<1> QED
  BY <1>3, <1>4, <1>5, <1>6 DEF ListInv

\* requestUnwind: the shares there are wait in the batch it lists.
LEMMA UnwindLists ==
  ASSUME IInv, ListInv, Unwind
  PROVE  ListInv'
<1>1. Len(unwinds) \in DOMAIN unwinds /\ DOMAIN unwinds' = DOMAIN unwinds
      /\ unwinds'[Len(unwinds)] = unwinds[Len(unwinds)] + shares
      /\ \A id \in DOMAIN unwinds : id # Len(unwinds) => unwinds'[id] = unwinds[id]
  <2>1. unwinds \in Seq(Nat) /\ Len(unwinds) \in DOMAIN unwinds
    BY BooksOfBatchers
  <2> DEFINE n == unwinds[Len(unwinds)] + shares
  <2>2. unwinds' = [unwinds EXCEPT ![Len(unwinds)] = n]
    BY DEF Unwind, RequestUnwind
  <2> HIDE DEF n
  <2>3. DOMAIN unwinds' = DOMAIN unwinds /\ unwinds'[Len(unwinds)] = n
        /\ \A id \in DOMAIN unwinds : id # Len(unwinds) => unwinds'[id] = unwinds[id]
    BY <2>1, <2>2
  <2> QED
    BY <2>1, <2>3 DEF n
<1>2. /\ redeems' = redeems \union {Len(unwinds)} /\ shares' = 0
      /\ UNCHANGED <<joined, joins, inVault, answer>>
  BY DEF Unwind, RequestUnwind, Listed, books
<1>3. BatchesAreListed'
  BY <1>1, <1>2 DEF ListInv, BatchesAreListed
<1>4. NothingIsOut'
  <2>1. ASSUME joined = {} PROVE unwinds'[Len(unwinds)] = 0
    BY <1>1, <2>1 DEF ListInv, NothingIsOut
  <2> QED
    BY <1>1, <1>2, <2>1 DEF ListInv, NothingIsOut
<1>5. AnswerHolds'
  BY <1>2, Entries, AnswerStays DEF ListInv
<1> QED
  BY <1>2, <1>3, <1>4, <1>5, SameAnswer DEF ListInv

\* claimShares, and an answer's batch claimed by the assistant.
LEMMA ClaimSharesLists ==
  ASSUME IInv, ListInv, NEW id \in DOMAIN joins, ClaimShares(id), UNCHANGED views
  PROVE  ListInv'
<1>1. joins' = [joins EXCEPT ![id] = 0] /\ shares' = shares + joins[id]
      /\ UNCHANGED <<inVault, unwinds, joined, redeems, answer>>
  BY DEF ClaimShares, views, books
<1>2. DOMAIN joins' = DOMAIN joins /\ Len(joins') = Len(joins) /\ joins'[id] = 0
      /\ \A i \in DOMAIN joins : i # id => joins'[i] = joins[i]
  BY <1>1, BooksOfBatchers
<1>3. BatchesAreListed'
  BY <1>1, <1>2 DEF ListInv, BatchesAreListed
<1>4. NothingIsOut'
  <2>1. ASSUME joined = {} PROVE joins[id] = 0 /\ shares = 0
    BY <2>1, Entries DEF ListInv, BatchesAreListed, NothingIsOut
  <2>2. ASSUME joined = {} PROVE shares' = 0
    BY <1>1, <2>1, <2>2
  <2> QED
    BY <1>1, <2>2 DEF ListInv, NothingIsOut
<1>5. AnswerHolds'
  BY <1>1, <1>2, Entries, AnswerStays DEF ListInv
<1> QED
  BY <1>1, <1>3, <1>4, <1>5, SameAnswer DEF ListInv

\* A batch that returned is claimed, by the source or by somebody for it.
LEMMA ClaimUnwoundLists ==
  ASSUME IInv, ListInv, NEW id \in DOMAIN unwinds, ClaimUnwound(id) \/ ClaimedByOthers(id),
         UNCHANGED views
  PROVE  ListInv'
<1>1. unwinds' = [unwinds EXCEPT ![id] = 0]
      /\ UNCHANGED <<shares, joins, joined, redeems, answer>>
  BY DEF ClaimUnwound, ClaimedByOthers, views
<1>2. inVault' = inVault \/ inVault' = TryDecrease(inVault, unwinds[id])
  BY DEF ClaimUnwound, ClaimedByOthers, LeftInVault, books
<1>3. DOMAIN unwinds' = DOMAIN unwinds /\ unwinds'[id] = 0
      /\ \A i \in DOMAIN unwinds : i # id => unwinds'[i] = unwinds[i]
  BY <1>1, BooksOfBatchers
<1>4. BatchesAreListed'
  BY <1>1, <1>3 DEF ListInv, BatchesAreListed
<1>5. NothingIsOut'
  <2>1. ASSUME joined = {} PROVE inVault = 0 /\ unwinds[id] = 0
    BY <2>1 DEF ListInv, NothingIsOut
  <2>2. ASSUME joined = {} PROVE inVault' = 0
    BY <1>2, <2>1, <2>2 DEF TryDecrease
  <2> QED
    BY <1>1, <1>3, <2>2 DEF ListInv, NothingIsOut
<1>6. AnswerHolds'
  BY <1>1, Entries, AnswerStays DEF ListInv
<1> QED
  BY <1>1, <1>4, <1>5, <1>6, SameAnswer DEF ListInv

\* A batch is dispatched and an empty one opened.
LEMMA DispatchJoinsLists ==
  ASSUME IInv, ListInv, DispatchJoins, UNCHANGED views
  PROVE  ListInv'
<1>1. joins' = Append(joins, 0)
      /\ UNCHANGED <<inVault, shares, unwinds, joined, redeems, answer>>
  BY DEF DispatchJoins, views, books
<1>2. joins \in Seq(Nat)
  BY BooksOfBatchers
<1>3. /\ Len(joins') = Len(joins) + 1 /\ DOMAIN joins' = 1..Len(joins')
      /\ joins'[Len(joins) + 1] = 0
      /\ \A i \in DOMAIN joins : joins'[i] = joins[i]
  BY <1>1, <1>2
<1>4. DOMAIN joins = 1..Len(joins) /\ Len(joins) \in Nat
  BY Entries
<1>5. DOMAIN joins' = DOMAIN joins \union {Len(joins) + 1}
  BY <1>3, <1>4
<1>6. BatchesAreListed'
  <2>1. joined' \subseteq DOMAIN joins'
    BY <1>1, <1>5 DEF ListInv, BatchesAreListed
  <2>2. \A i \in DOMAIN joins' : joins'[i] > 0 => i \in joined'
    BY <1>1, <1>3, <1>5 DEF ListInv, BatchesAreListed
  <2> QED
    BY <1>1, <2>1, <2>2 DEF ListInv, BatchesAreListed
<1>7. NothingIsOut'
  BY <1>1 DEF ListInv, NothingIsOut
<1>8. AnswerHolds'
  BY <1>1, <1>3, <1>4, AnswerStays DEF ListInv
<1> QED
  BY <1>1, <1>6, <1>7, <1>8, SameAnswer DEF ListInv

LEMMA DispatchUnwindsLists ==
  ASSUME IInv, ListInv, NEW price \in Prices, DispatchUnwinds(price), UNCHANGED views
  PROVE  ListInv'
<1> DEFINE n == unwinds[Len(unwinds)] * price
           settled == [unwinds EXCEPT ![Len(unwinds)] = n]
<1>1. unwinds' = Append(settled, 0)
      /\ UNCHANGED <<inVault, shares, joins, joined, redeems, answer>>
  BY DEF DispatchUnwinds, views, books
<1>2. unwinds \in Seq(Nat) /\ Len(unwinds) \in DOMAIN unwinds /\ price \in Nat
      /\ unwinds[Len(unwinds)] \in Nat
  BY BooksOfBatchers, Entries, ReplicaAssumption
<1>3. n \in Nat /\ (unwinds[Len(unwinds)] = 0 => n = 0)
  BY <1>2
<1> HIDE DEF n
<1>4. /\ settled \in Seq(Nat) /\ Len(settled) = Len(unwinds)
      /\ settled[Len(unwinds)] = n
      /\ \A i \in DOMAIN unwinds : i # Len(unwinds) => settled[i] = unwinds[i]
  BY <1>2, <1>3
<1>5. \A i \in DOMAIN unwinds : unwinds[i] = 0 => settled[i] = 0
  BY <1>2, <1>3, <1>4
<1> HIDE DEF settled
<1>6. /\ Len(unwinds') = Len(unwinds) + 1 /\ DOMAIN unwinds' = 1..Len(unwinds')
      /\ unwinds'[Len(unwinds) + 1] = 0
      /\ \A i \in 1..Len(unwinds) : unwinds'[i] = settled[i]
  BY <1>1, <1>4
<1>7. DOMAIN unwinds = 1..Len(unwinds) /\ Len(unwinds) \in Nat
  BY Entries
<1>8. \A i \in DOMAIN unwinds' : i \in DOMAIN unwinds \/ unwinds'[i] = 0
  BY <1>6, <1>7
<1>9. \A i \in DOMAIN unwinds' : unwinds'[i] = 0 \/ (i \in DOMAIN unwinds /\ unwinds[i] # 0)
  BY <1>5, <1>6, <1>7, <1>8
<1>10. BatchesAreListed'
  <2>1. ASSUME NEW i \in DOMAIN unwinds', unwinds'[i] > 0 PROVE i \in redeems
    <3>1. i \in DOMAIN unwinds /\ unwinds[i] # 0
      BY <1>9, <2>1
    <3>2. unwinds[i] \in Nat
      BY <3>1, Entries
    <3> QED
      BY <3>1, <3>2 DEF ListInv, BatchesAreListed
  <2> QED
    BY <1>1, <2>1 DEF ListInv, BatchesAreListed
<1>11. NothingIsOut'
  BY <1>1, <1>9 DEF ListInv, NothingIsOut
<1>12. AnswerHolds'
  BY <1>1, Entries, AnswerStays DEF ListInv
<1> QED
  BY <1>1, <1>10, <1>11, <1>12, SameAnswer DEF ListInv

\* What moves nothing on the trip.
LEMMA QuietLists ==
  ASSUME IInv, ListInv, UNCHANGED <<inVault, shares, joins, unwinds, views>>
  PROVE  ListInv'
<1>1. AnswerHolds'
  BY Entries, AnswerStays DEF ListInv, views
<1>2. AnswerType'
  BY SameAnswer DEF ListInv, views
<1> QED
  BY <1>1, <1>2 DEF ListInv, BatchesAreListed, NothingIsOut, views

\* The assistant's status, one reading after the other.
LEMMA StatusLists ==
  ASSUME IInv, ListInv, StatusOpen \/ StatusCurrent \/ StatusState
  PROVE  ListInv'
<1>1. UNCHANGED <<inVault, shares, joins, unwinds, joined, redeems>>
  BY DEF StatusOpen, StatusCurrent, StatusState, vars, books, vault
<1>2. DOMAIN joins = 1..Len(joins) /\ Len(joins) \in Nat \ {0} /\ joined \subseteq DOMAIN joins
      /\ joined \in SUBSET Nat
  BY Entries DEF ListInv, BatchesAreListed
<1>3. BatchesAreListed' /\ NothingIsOut'
  BY <1>1 DEF ListInv, BatchesAreListed, NothingIsOut
<1>4. answer.own \in Nat /\ (answer.own > 0 => answer.own \in joined)
  BY DEF ListInv, AnswerType, AnswerHolds
<1>5. CASE StatusOpen
  <2>1. /\ answer'.at = "open" /\ answer'.open = joined /\ answer'.own = answer.own
    BY <1>5, AnswerFields DEF StatusOpen
  <2>2. AnswerHolds'
    BY <1>1, <1>2, <1>4, <2>1 DEF AnswerHolds
  <2>3. AnswerType'
    BY <1>2, <1>4, <1>5 DEF AnswerType, Answer, StatusOpen
  <2> QED
    BY <1>3, <2>2, <2>3 DEF ListInv
<1>6. CASE StatusCurrent
  <2>1. /\ answer' = [answer EXCEPT !.at = "current", !.batch = Len(joins)] /\ answer.at = "open"
    BY <1>6 DEF StatusCurrent
  <2>2. AnswerType' /\ answer'.at = "current" /\ answer'.batch = Len(joins)
        /\ answer'.open = answer.open /\ answer'.own = answer.own
    BY <1>2, <2>1 DEF ListInv, AnswerType
  <2>3. answer.open \subseteq DOMAIN joins /\ (answer.own > 0 => answer.own \in answer.open)
    BY <2>1 DEF ListInv, AnswerHolds
  <2>4. AnswerHolds'
    BY <1>1, <1>2, <1>4, <2>2, <2>3 DEF AnswerHolds
  <2> QED
    BY <1>3, <2>2, <2>4 DEF ListInv
<1>7. CASE StatusState
  <2>1. /\ answer' = [answer EXCEPT !.at = "state", !.state = BatchState(answer.batch)]
        /\ answer.at = "current"
    BY <1>7 DEF StatusState
  <2>2. BatchState(answer.batch) \in {"open", "settled"}
    BY DEF BatchState
  <2>3. AnswerType' /\ answer'.at = "state" /\ answer'.state = BatchState(answer.batch)
        /\ answer'.open = answer.open /\ answer'.own = answer.own /\ answer'.batch = answer.batch
    BY <2>1, <2>2 DEF ListInv, AnswerType
  <2>4. /\ answer.open \subseteq DOMAIN joins /\ (answer.own > 0 => answer.own \in answer.open)
        /\ answer.batch \in DOMAIN joins
        /\ \A id \in answer.open : id <= answer.batch
    BY <2>1 DEF ListInv, AnswerHolds
  <2>5. answer'.state = "settled" => answer'.batch < Len(joins)
    BY <1>2, <2>3, <2>4 DEF BatchState
  <2>6. AnswerHolds'
    BY <1>1, <1>4, <2>3, <2>4, <2>5 DEF AnswerHolds
  <2> QED
    BY <1>3, <2>3, <2>6 DEF ListInv
<1> QED
  BY <1>5, <1>6, <1>7

\* Each of these is a transaction of the source, or only reads it.
LEMMA ViewStepIsStep ==
  ASSUME ViewNext, joined \subseteq DOMAIN joins
  PROVE  [Next]_vars
BY DEF ViewNext, PressJoin, VaultJoin, Join, Unwind, Unlisted, VaultClaim, StatusOpen,
         StatusCurrent, StatusState, Next

LEMMA ListStep ==
  ASSUME IInv, ListInv, ViewNext
  PROVE  ListInv'
<1>2. CASE PressJoin \/ VaultJoin
  BY <1>2, JoinLists DEF PressJoin, VaultJoin
<1>3. CASE Unwind
  BY <1>3, UnwindLists
<1>4. ASSUME NEW id \in joined, VaultClaim(id) PROVE ListInv'
  <2>1. id \in DOMAIN joins
    BY DEF ListInv, BatchesAreListed
  <2> QED
    BY <1>4, <2>1, ClaimSharesLists DEF VaultClaim
<1>5. CASE StatusOpen \/ StatusCurrent \/ StatusState
  BY <1>5, StatusLists
<1>6. CASE Unlisted
  <2>1. UNCHANGED views
    BY <1>6 DEF Unlisted
  <2>2. ASSUME \/ \E amount \in Amounts : Supply(amount) \/ Redeem(amount) \/ Gift(amount)
               \/ Harvest \/ Tick
        PROVE  ListInv'
    <3>1. UNCHANGED <<inVault, shares, joins, unwinds>>
      BY <2>2 DEF Supply, Redeem, Gift, Harvest, Tick, books, vault
    <3> QED
      BY <2>1, <3>1, QuietLists
  <2>3. CASE DispatchJoins
    BY <2>1, <2>3, DispatchJoinsLists
  <2>4. CASE \E id \in DOMAIN joins : ClaimShares(id)
    BY <2>1, <2>4, ClaimSharesLists
  <2>5. CASE \E id \in DOMAIN unwinds : ClaimUnwound(id) \/ ClaimedByOthers(id)
    BY <2>1, <2>5, ClaimUnwoundLists
  <2>6. CASE \E price \in Prices : DispatchUnwinds(price)
    BY <2>1, <2>6, DispatchUnwindsLists
  <2> QED
    BY <1>6, <2>2, <2>3, <2>4, <2>5, <2>6 DEF Unlisted
<1> QED
  BY <1>2, <1>3, <1>4, <1>5, <1>6 DEF ViewNext

LEMMA ListsShow ==
  ASSUME IInv, ListInv
  PROVE  WhatIsOutIsListed
<1>1. DOMAIN joins = 1..Len(joins) /\ Len(joins) \in Nat \ {0}
  BY Entries
<1>2. PrincipalPlace = "nothing joined yet" => joined = {}
  BY DEF PrincipalPlace, ScreenReads
<1>3. ScreenReads.batches = joined /\ ScreenReads.redeems = redeems
  BY DEF ScreenReads
<1>4. VaultStatus.batches = answer.open /\ VaultStatus.where[1] = answer.batch
      /\ VaultStatus.where[2] = answer.state
  BY DEF VaultStatus
<1>5. ASSUME answer.at = "state", NEW id \in answer.open
      PROVE  /\ id <= answer.batch
             /\ id < answer.batch \/ answer.state = "settled" => id < Len(joins)
  <2>1. /\ answer.batch \in 1..Len(joins) /\ id \in 1..Len(joins) /\ id <= answer.batch
        /\ answer.state = "settled" => answer.batch < Len(joins)
    BY <1>1, <1>5 DEF ListInv, AnswerHolds
  <2> QED
    BY <1>1, <2>1
<1>6. answer.at # "idle" /\ answer.own > 0 => answer.own \in answer.open
  BY DEF ListInv, AnswerHolds
<1> QED
  BY <1>2, <1>3, <1>4, <1>5, <1>6
     DEF WhatIsOutIsListed, ListInv, BatchesAreListed, NothingIsOut

LEMMA InitLists == ViewInit => IInv /\ ListInv
<1> SUFFICES ASSUME ViewInit PROVE IInv /\ ListInv
  OBVIOUS
<1>1. IInv
  BY InitHolds DEF ViewInit
<1>2. /\ joins = <<0>> /\ unwinds = <<0>> /\ inVault = 0 /\ shares = 0
      /\ joined = {} /\ redeems = {} /\ answer = Answer("idle", {}, 0, "unread", 0)
  BY DEF ViewInit, Init
<1>3. \A id \in DOMAIN joins : joins[id] = 0
  BY <1>2
<1>4. \A id \in DOMAIN unwinds : unwinds[id] = 0
  BY <1>2
<1>5. BatchesAreListed /\ NothingIsOut
  BY <1>2, <1>3, <1>4 DEF BatchesAreListed, NothingIsOut
<1>6. AnswerType
  <2>1. {} \in SUBSET Nat /\ 0 \in Nat
    OBVIOUS
  <2> QED
    BY <1>2, <2>1 DEF AnswerType, Answer
<1>7. AnswerHolds
  <2>1. answer.at = "idle" /\ answer.own = 0
    BY <1>2, AnswerFields
  <2> QED
    BY <2>1 DEF AnswerHolds
<1> QED
  BY <1>1, <1>5, <1>6, <1>7 DEF ListInv

-----------------------------------------------------------------------------
(* The audits.                                                             *)

Statuses == {"Open", "Revealed", "Cancelled"}

Draws == [status : Statuses, in : SUBSET Depositors]
Odds  == [draw : Nat, who : Depositors, k : Nat]
Pairs == [mine : Odds, chain : Odds]
Jobs  == [at : {"idle", "head", "scan", "tiers", "rows"}, draw : Nat, k : Nat, head : Nat,
          next : Nat \ {0}, users : SUBSET Depositors, read : SUBSET Pairs]
Tables == [draw : Nat, k : Nat, users : SUBSET Depositors, read : SUBSET Pairs]

AuditType ==
  /\ rounds \in Seq(Draws) /\ Len(rounds) <= MaxDraws
  /\ blocks \in Seq(Depositors) /\ Len(blocks) <= MaxBlocks
  /\ shape \in Nat /\ ks \in Nat /\ ks <= shape
  /\ latest \in 0..Len(rounds) /\ drawId \in 0..latest
  /\ record \in [Ids -> {Unseen} \union Statuses]
  /\ job \in Jobs /\ rows \in Tables
  /\ auditor \in {"page", "script"} /\ strayed \in BOOLEAN

\* The depositors of the blocks up to a head.
Named(head) == {blocks[b] : b \in 1..head}

\* A draw takes in somebody, and nobody who is in no block.
DrawsAreOfDepositors ==
  \A d \in DOMAIN rounds : rounds[d].in # {} /\ rounds[d].in \subseteq Named(Len(blocks))

\* Only the last draw is open, and what was read as revealed is revealed.
RevealedStays ==
  /\ \A d \in DOMAIN rounds : rounds[d].status = "Open" => d = Len(rounds)
  /\ \A d \in Ids : record[d] = "Revealed" => d \in DOMAIN rounds /\ rounds[d].status = "Revealed"

\* Rows of one draw and one table of tiers; one that differs from the contract's was
\* asked for after the tiers were set again.
RowsAgree(read, d, k) ==
  \A r \in read : /\ r.mine.draw = d /\ r.mine.k = k
                  /\ r.chain = r.mine \/ k < shape

\* What an audit has of its draw, at every stage of it.
JobState(j) ==
  /\ j.draw \in DOMAIN rounds /\ rounds[j.draw].status = "Revealed" /\ j.k <= shape
  /\ j.at = "head" => j.next = 1 /\ j.users = {}
  /\ j.at # "head" => j.head <= Len(blocks) /\ rounds[j.draw].in \subseteq Named(j.head)
  /\ j.at = "scan" => /\ j.next <= j.head => j.users = Named(j.next - 1)
                      /\ j.next > j.head => j.users = Named(j.head)
  /\ j.at = "tiers" => j.users = Named(j.head)
  /\ j.at = "rows" => j.users \union {r.mine.who : r \in j.read} = Named(j.head)
  /\ j.at # "rows" => j.read = {}
  /\ RowsAgree(j.read, j.draw, j.k)

JobHolds == Running => rows = NoRows /\ JobState(job)

\* What a table shows, for good.
TableHolds ==
  rows # NoRows =>
    /\ rows.draw \in DOMAIN rounds /\ rounds[rows.draw].status = "Revealed" /\ rows.k <= shape
    /\ rows.users = {r.mine.who : r \in rows.read}
    /\ rounds[rows.draw].in \subseteq rows.users
    /\ \E head \in 0..Len(blocks) : rows.users = Named(head)
    /\ RowsAgree(rows.read, rows.draw, rows.k)

\* The page is at the draw of its audit, until it turned to another behind it.
PageIsAtIt ==
  auditor = "page" /\ ~strayed =>
    /\ Running => Target = job.draw /\ Revealed
    /\ rows # NoRows => Target = rows.draw /\ Revealed

AuditInv == AuditType /\ DrawsAreOfDepositors /\ RevealedStays /\ JobHolds /\ TableHolds /\ PageIsAtIt

LEMMA AuditNumbers ==
  ASSUME AuditType
  PROVE  /\ DOMAIN rounds = 1..Len(rounds) /\ Len(rounds) \in Nat
         /\ DOMAIN blocks = 1..Len(blocks) /\ Len(blocks) \in Nat
         /\ \A d \in DOMAIN rounds : rounds[d] \in Draws
         /\ MaxDraws \in Nat /\ MaxBlocks \in Nat /\ ChunkSize \in Nat \ {0}
<1>1. rounds \in Seq(Draws) /\ blocks \in Seq(Depositors)
  BY DEF AuditType
<1>2. MaxDraws \in Nat /\ MaxBlocks \in Nat /\ ChunkSize \in Nat \ {0}
  BY AuditAssumption
<1> QED
  BY <1>1, <1>2

LEMMA JobFields ==
  ASSUME AuditType
  PROVE  /\ job.at \in {"idle", "head", "scan", "tiers", "rows"}
         /\ job.draw \in Nat /\ job.k \in Nat /\ job.head \in Nat /\ job.next \in Nat \ {0}
         /\ job.users \in SUBSET Depositors /\ job.read \in SUBSET Pairs
         /\ rows.draw \in Nat /\ rows.k \in Nat
         /\ rows.users \in SUBSET Depositors /\ rows.read \in SUBSET Pairs
<1>1. job \in Jobs /\ rows \in Tables
  BY DEF AuditType
<1> QED
  BY <1>1 DEF Jobs, Tables

LEMMA NamedAreDepositors ==
  ASSUME AuditType, NEW head \in 0..Len(blocks)
  PROVE  Named(head) \in SUBSET Depositors
<1>1. \A b \in 1..head : b \in DOMAIN blocks /\ blocks[b] \in Depositors
  <2>1. blocks \in Seq(Depositors)
    BY DEF AuditType
  <2> QED
    BY <2>1
<1> QED
  BY <1>1 DEF Named

LEMMA NamedGrow ==
  ASSUME AuditType, NEW n \in 0..Len(blocks), NEW m \in 0..n
  PROVE  Named(m) \subseteq Named(n)
<1>1. 1..m \subseteq 1..n
  BY AuditNumbers
<1> QED
  BY <1>1 DEF Named

\* An audit reads no more than the blocks up to its head.
LEMMA ChunkNames ==
  ASSUME AuditType, NEW head \in 0..Len(blocks), NEW from \in 1..head
  PROVE  /\ from + ChunkSize \in Nat \ {0}
         /\ LastOf(from, head) \in from..head
         /\ from + ChunkSize <= head => LastOf(from, head) = from + ChunkSize - 1
         /\ from + ChunkSize > head => LastOf(from, head) = head
<1>1. from \in Nat \ {0} /\ head \in Nat /\ ChunkSize \in Nat \ {0}
  BY AuditNumbers
<1> QED
  BY <1>1 DEF LastOf

-----------------------------------------------------------------------------
(* The count of depositors: what the walk over chunks returns.             *)

LEMMA CountIsOfNamed ==
  ASSUME AuditType, NEW head \in 0..Len(blocks)
  PROVE  DepositorCount(head) = Cardinality(Named(head))
<1> DEFINE S == 1..MaxBlocks + ChunkSize
           Rest(from) == {blocks[b] : b \in from..head}
           Chunk(from) == {blocks[b] : b \in from..LastOf(from, head)}
           Eq(f) == f = [from \in S |-> IF from > head THEN {} ELSE Chunk(from) \union f[from + ChunkSize]]
           chunks == CHOOSE f : Eq(f)
<1>0. head \in Nat /\ head <= MaxBlocks /\ MaxBlocks \in Nat /\ ChunkSize \in Nat \ {0}
  BY AuditNumbers DEF AuditType
<1>1. DepositorCount(head) = Cardinality(chunks[1])
  BY DEF DepositorCount
<1>2. ASSUME NEW from \in S, from <= head
      PROVE  from + ChunkSize \in S /\ Rest(from) = Chunk(from) \union Rest(from + ChunkSize)
  <2>1. from \in 1..head
    BY <1>0, <1>2
  <2>2. from + ChunkSize \in S
    BY <1>0, <1>2
  <2>3. from..head = (from..LastOf(from, head)) \union (from + ChunkSize..head)
    <3>1. CASE from + ChunkSize <= head
      <4>1. LastOf(from, head) = from + ChunkSize - 1
        BY <2>1, <3>1, ChunkNames
      <4> QED
        BY <1>0, <2>1, <3>1, <4>1
    <3>2. CASE from + ChunkSize > head
      <4>1. LastOf(from, head) = head
        BY <2>1, <3>2, ChunkNames
      <4> QED
        BY <1>0, <2>1, <3>2, <4>1
    <3> QED
      BY <1>0, <2>1, <3>1, <3>2
  <2> QED
    BY <2>2, <2>3
<1>3. ASSUME NEW from \in S, from > head
      PROVE  Rest(from) = {}
  BY <1>0, <1>3
<1>4. Eq([from \in S |-> Rest(from)])
  <2> HIDE DEF Rest, Chunk, S
  <2>1. \A from \in S : from <= head \/ from > head
    BY <1>0 DEF S
  <2>2. \A from \in S : Rest(from) = IF from > head THEN {} ELSE
                          Chunk(from) \union [g \in S |-> Rest(g)][from + ChunkSize]
    <3> SUFFICES ASSUME NEW from \in S
                 PROVE  Rest(from) = IF from > head THEN {} ELSE
                          Chunk(from) \union [g \in S |-> Rest(g)][from + ChunkSize]
      OBVIOUS
    <3>1. CASE from > head
      BY <3>1, <1>3
    <3>2. CASE ~ (from > head)
      <4>1. from <= head
        BY <2>1, <3>2
      <4> QED
        BY <3>2, <4>1, <1>2
    <3> QED
      BY <3>1, <3>2
  <2> QED
    BY <2>2
<1>5. Eq(chunks)
  <2> HIDE DEF Eq
  <2> QED
    BY <1>4
<1>6. \A from \in S : chunks[from] = IF from > head THEN {} ELSE Chunk(from) \union chunks[from + ChunkSize]
  <2> HIDE DEF chunks, Chunk, S
  <2> QED
    BY <1>5
<1> HIDE DEF chunks, Rest, Chunk, Eq
<1> DEFINE Bad == {n \in 0..MaxBlocks + ChunkSize : \E from \in S : from + n = MaxBlocks + ChunkSize
                                                          /\ chunks[from] # Rest(from)}
<1>7. Bad = {}
  <2> SUFFICES ASSUME Bad # {} PROVE FALSE
    OBVIOUS
  <2>1. PICK m \in Bad : \A k \in Bad : m <= k
    <3>1. Bad \subseteq Nat
      BY <1>0
    <3> HIDE DEF Bad
    <3> QED
      BY <3>1, LeastNatural
  <2>2. PICK from \in S : from + m = MaxBlocks + ChunkSize /\ chunks[from] # Rest(from)
    OBVIOUS
  <2>3. m \in Nat /\ from \in Nat
    BY <1>0
  <2>4. from <= head
    <3>1. SUFFICES ASSUME from > head PROVE FALSE
      BY <1>0, <2>3
    <3> QED
      BY <3>1, <2>2, <1>3, <1>6
  <2>5. from + ChunkSize \in S /\ Rest(from) = Chunk(from) \union Rest(from + ChunkSize)
    BY <2>4, <1>2
  <2>6. PICK k \in Int : k = m - ChunkSize
    BY <1>0, <2>3
  <2>7. k < m /\ (from + ChunkSize) + k = MaxBlocks + ChunkSize /\ k \in 0..MaxBlocks + ChunkSize
    BY <1>0, <2>2, <2>3, <2>5, <2>6
  <2>8. k \notin Bad
    <3> HIDE DEF Bad
    <3>1. k \in Bad => m <= k
      BY <2>1
    <3> QED
      BY <2>3, <2>6, <2>7, <3>1
  <2>9. chunks[from + ChunkSize] = Rest(from + ChunkSize)
    BY <2>5, <2>7, <2>8
  <2>10. ~ (from > head)
    BY <1>0, <2>3, <2>4
  <2>11. chunks[from] = Chunk(from) \union chunks[from + ChunkSize]
    BY <1>6, <2>10
  <2> QED
    BY <2>2, <2>5, <2>9, <2>11
<1>8. 1 \in S /\ MaxBlocks + ChunkSize - 1 \in 0..MaxBlocks + ChunkSize
      /\ 1 + (MaxBlocks + ChunkSize - 1) = MaxBlocks + ChunkSize
  BY <1>0
<1>9. chunks[1] = Rest(1)
  BY <1>7, <1>8
<1> QED
  BY <1>1, <1>9 DEF Rest, Named

-----------------------------------------------------------------------------
(* The pool goes on.                                                       *)

\* Blocks are only added, draws only closed, tiers only set anew.
PoolGrows ==
  /\ Len(blocks) <= Len(blocks')
  /\ \A b \in DOMAIN blocks : blocks'[b] = blocks[b]
  /\ \A d \in DOMAIN rounds : /\ d \in DOMAIN rounds'
                              /\ rounds'[d].in = rounds[d].in
                              /\ rounds[d].status = "Revealed" => rounds'[d].status = "Revealed"
  /\ shape <= shape'
  /\ UNCHANGED <<auditor, pageVars, job, rows, strayed>>

LEMMA NamedStays ==
  ASSUME AuditType, AuditType', PoolGrows, NEW head \in 0..Len(blocks)
  PROVE  Named(head)' = Named(head) /\ head \in 0..Len(blocks')
<1>1. Len(blocks) \in Nat /\ Len(blocks') \in Nat /\ DOMAIN blocks = 1..Len(blocks)
  <2>1. blocks \in Seq(Depositors) /\ blocks' \in Seq(Depositors)
    BY DEF AuditType
  <2> QED
    BY <2>1
<1>2. \A b \in 1..head : blocks'[b] = blocks[b]
  BY <1>1 DEF PoolGrows
<1> QED
  BY <1>1, <1>2 DEF PoolGrows, Named

LEMMA RowsStillAgree ==
  ASSUME NEW read \in SUBSET Pairs, NEW d, NEW k \in Nat, RowsAgree(read, d, k),
         shape \in Nat, shape' \in Nat, shape <= shape'
  PROVE  RowsAgree(read, d, k)'
BY DEF RowsAgree

LEMMA PoolKeepsAudit ==
  ASSUME AuditInv, AuditType', PoolGrows
  PROVE  JobHolds' /\ TableHolds' /\ PageIsAtIt'
         /\ \A d \in Ids : record'[d] = "Revealed" => d \in DOMAIN rounds' /\ rounds'[d].status = "Revealed"
<1>0. AuditType /\ UNCHANGED <<auditor, latest, drawId, record, ks, job, rows, strayed>>
  BY DEF AuditInv, PoolGrows, pageVars
<1>1. shape \in Nat /\ shape' \in Nat /\ shape <= shape'
  BY <1>0 DEF AuditType, PoolGrows
<1>2. \A d \in Ids : record'[d] = "Revealed" => d \in DOMAIN rounds' /\ rounds'[d].status = "Revealed"
  BY <1>0 DEF AuditInv, RevealedStays, PoolGrows
<1>3. PageIsAtIt'
  BY <1>0 DEF AuditInv, PageIsAtIt, Running, Target, Revealed, Draw
<1>4. JobHolds'
  <2> SUFFICES ASSUME Running' PROVE JobHolds'
    BY DEF JobHolds, JobState
  <2>1. Running
    BY <1>0 DEF Running
  <2>2. /\ job.draw \in DOMAIN rounds' /\ rounds'[job.draw].status = "Revealed" /\ job.k <= shape'
        /\ rounds'[job.draw].in = rounds[job.draw].in
    BY <1>0, <1>1, <2>1, JobFields DEF AuditInv, JobHolds, JobState, PoolGrows
  <2>3. RowsAgree(job.read, job.draw, job.k)'
    BY <1>0, <1>1, <2>1, JobFields, RowsStillAgree DEF AuditInv, JobHolds, JobState
  <2>4. CASE job.at = "head"
    BY <1>0, <2>1, <2>2, <2>3, <2>4 DEF AuditInv, JobHolds, JobState
  <2>5. CASE job.at # "head"
    <3>1. job.head \in 0..Len(blocks) /\ job.next \in Nat \ {0} /\ Len(blocks) \in Nat
      BY <1>0, <2>1, <2>5, JobFields, AuditNumbers DEF AuditInv, JobHolds, JobState
    <3>2. Named(job.head)' = Named(job.head) /\ job.head <= Len(blocks')
      <4>1. PICK h \in 0..Len(blocks) : h = job.head
        BY <3>1
      <4>2. Named(h)' = Named(h) /\ h \in 0..Len(blocks')
        BY <1>0, NamedStays
      <4>3. Named(job.head)' = Named(job.head)
        BY <1>0, <4>1, <4>2 DEF Named
      <4>4. Len(blocks') \in Nat
        BY <3>1 DEF AuditType, PoolGrows
      <4> QED
        BY <4>1, <4>2, <4>3, <4>4
    <3>3. job.next <= job.head => Named(job.next - 1)' = Named(job.next - 1)
      <4>1. SUFFICES ASSUME job.next <= job.head
                     PROVE  Named(job.next - 1)' = Named(job.next - 1)
        OBVIOUS
      <4>2. PICK h \in 0..Len(blocks) : h = job.next - 1
        BY <3>1, <4>1
      <4>3. Named(h)' = Named(h)
        BY <1>0, NamedStays
      <4> QED
        BY <1>0, <4>2, <4>3 DEF Named
    <3> QED
      BY <1>0, <2>1, <2>2, <2>3, <2>5, <3>2, <3>3 DEF AuditInv, JobHolds, JobState
  <2> QED
    BY <2>4, <2>5
<1>5. TableHolds'
  <2> SUFFICES ASSUME rows' # NoRows PROVE TableHolds'
    BY DEF TableHolds
  <2>1. rows # NoRows
    BY <1>0
  <2>2. /\ rows.draw \in DOMAIN rounds' /\ rounds'[rows.draw].status = "Revealed" /\ rows.k <= shape'
        /\ rounds'[rows.draw].in = rounds[rows.draw].in
    BY <1>0, <1>1, <2>1, JobFields DEF AuditInv, TableHolds, PoolGrows
  <2>3. RowsAgree(rows.read, rows.draw, rows.k)'
    BY <1>0, <1>1, <2>1, JobFields, RowsStillAgree DEF AuditInv, TableHolds
  <2>4. PICK head \in 0..Len(blocks) : rows.users = Named(head)
    BY <2>1 DEF AuditInv, TableHolds
  <2>5. head \in 0..Len(blocks') /\ rows.users = Named(head)'
    BY <1>0, <2>4, NamedStays
  <2> QED
    BY <1>0, <2>1, <2>2, <2>3, <2>5 DEF AuditInv, TableHolds
<1> QED
  BY <1>2, <1>3, <1>4, <1>5

LEMMA DepositAudited ==
  ASSUME AuditInv, NEW u \in Depositors, PoolDeposit(u)
  PROVE  AuditInv'
<1>1. blocks' = Append(blocks, u) /\ Len(blocks) < MaxBlocks
      /\ UNCHANGED <<auditor, rounds, shape, pageVars, job, rows, strayed>>
  BY DEF PoolDeposit
<1>2. AuditType /\ blocks \in Seq(Depositors)
  BY DEF AuditInv, AuditType
<1>3. /\ blocks' \in Seq(Depositors) /\ Len(blocks') = Len(blocks) + 1 /\ Len(blocks) \in Nat
      /\ DOMAIN blocks = 1..Len(blocks)
      /\ \A b \in DOMAIN blocks : blocks'[b] = blocks[b]
  BY <1>1, <1>2
<1>4. Len(blocks') <= MaxBlocks
  BY <1>1, <1>2, <1>3, AuditNumbers
<1>5. AuditType'
  BY <1>1, <1>2, <1>3, <1>4 DEF AuditType, pageVars
<1>6. PoolGrows
  BY <1>1, <1>2, <1>3 DEF PoolGrows, AuditType
<1>7. Named(Len(blocks)) \subseteq Named(Len(blocks))'
  <2>1. \A b \in 1..Len(blocks) : b \in 1..Len(blocks') /\ blocks'[b] = blocks[b]
    BY <1>3
  <2> QED
    BY <2>1 DEF Named
<1>8. DrawsAreOfDepositors'
  BY <1>1, <1>7 DEF AuditInv, DrawsAreOfDepositors
<1> QED
  BY <1>1, <1>5, <1>6, <1>8, PoolKeepsAudit DEF AuditInv, RevealedStays

LEMMA OpeningAudited ==
  ASSUME AuditInv, PoolOpens
  PROVE  AuditInv'
<1> DEFINE new == [status |-> "Open", in |-> Range(blocks)]
<1>1. rounds' = Append(rounds, new) /\ Len(rounds) < MaxDraws /\ blocks # <<>>
      /\ (rounds # <<>> => rounds[Len(rounds)].status # "Open")
      /\ UNCHANGED <<auditor, blocks, shape, pageVars, job, rows, strayed>>
  BY DEF PoolOpens
<1>2. AuditType /\ rounds \in Seq(Draws) /\ blocks \in Seq(Depositors)
  BY DEF AuditInv, AuditType
<1>3. Range(blocks) = Named(Len(blocks)) /\ Range(blocks) # {} /\ Range(blocks) \in SUBSET Depositors
  <2>1. DOMAIN blocks = 1..Len(blocks) /\ Len(blocks) \in Nat \ {0}
        /\ \A b \in DOMAIN blocks : blocks[b] \in Depositors
    BY <1>1, <1>2
  <2>2. 1 \in DOMAIN blocks
    BY <2>1
  <2> QED
    BY <2>1, <2>2 DEF Range, Named
<1>4. new \in Draws /\ new.in = Named(Len(blocks)) /\ new.status = "Open"
  BY <1>3 DEF Draws, Statuses
<1> HIDE DEF new
<1>5. /\ rounds' \in Seq(Draws) /\ Len(rounds') = Len(rounds) + 1 /\ Len(rounds) \in Nat
      /\ DOMAIN rounds = 1..Len(rounds) /\ DOMAIN rounds' = 1..(Len(rounds) + 1)
      /\ rounds'[Len(rounds) + 1] = new
      /\ \A d \in DOMAIN rounds : rounds'[d] = rounds[d]
  BY <1>1, <1>2, <1>4
<1>6. AuditType'
  <2>1. Len(rounds') <= MaxDraws /\ latest \in 0..Len(rounds')
    BY <1>1, <1>2, <1>5, AuditNumbers DEF AuditType
  <2> QED
    BY <1>1, <1>2, <1>5, <2>1 DEF AuditType, pageVars
<1>7. PoolGrows
  <2>1. \A d \in DOMAIN rounds : d \in DOMAIN rounds' /\ rounds'[d] = rounds[d]
    BY <1>5
  <2>2. Len(blocks) <= Len(blocks') /\ shape <= shape'
    BY <1>1, <1>2, AuditNumbers DEF AuditType
  <2> QED
    BY <1>1, <2>1, <2>2 DEF PoolGrows
<1>8. \A d \in DOMAIN rounds' : d \in DOMAIN rounds \/ (d = Len(rounds) + 1 /\ rounds'[d] = new)
  BY <1>5
<1>9. DrawsAreOfDepositors'
  <2>1. Named(Len(blocks))' = Named(Len(blocks))
    BY <1>1 DEF Named
  <2>2. \A d \in DOMAIN rounds' : rounds'[d].in # {} /\ rounds'[d].in \subseteq Named(Len(blocks))
    BY <1>3, <1>4, <1>5, <1>8 DEF AuditInv, DrawsAreOfDepositors
  <2> QED
    BY <2>1, <2>2 DEF DrawsAreOfDepositors
<1>10. \A d \in DOMAIN rounds' : rounds'[d].status = "Open" => d = Len(rounds')
  <2>1. \A d \in DOMAIN rounds : rounds[d].status # "Open"
    <3>1. \A d \in DOMAIN rounds : rounds[d].status = "Open" => d = Len(rounds) /\ rounds # <<>>
      BY <1>2, <1>5 DEF AuditInv, RevealedStays
    <3> QED
      BY <1>1, <3>1
  <2> QED
    BY <1>5, <1>8, <2>1
<1> QED
  BY <1>6, <1>7, <1>9, <1>10, PoolKeepsAudit DEF AuditInv, RevealedStays

LEMMA ClosingAudited ==
  ASSUME AuditInv, NEW status \in {"Revealed", "Cancelled"}, PoolCloses(status)
  PROVE  AuditInv'
<1> DEFINE last == Len(rounds)
           closed == [rounds[last] EXCEPT !.status = status]
<1>1. rounds # <<>> /\ rounds[last].status = "Open"
      /\ rounds' = [rounds EXCEPT ![last] = closed]
      /\ UNCHANGED <<auditor, blocks, shape, pageVars, job, rows, strayed>>
  BY DEF PoolCloses
<1>2. AuditType /\ rounds \in Seq(Draws)
  BY DEF AuditInv, AuditType
<1>3. last \in DOMAIN rounds /\ rounds[last] \in Draws /\ last \in Nat
  BY <1>1, <1>2
<1>4. closed \in Draws /\ closed.in = rounds[last].in /\ closed.status = status
  BY <1>3 DEF Draws, Statuses
<1> HIDE DEF closed
<1>5. /\ rounds' \in Seq(Draws) /\ Len(rounds') = last /\ DOMAIN rounds' = DOMAIN rounds
      /\ rounds'[last] = closed
      /\ \A d \in DOMAIN rounds : d # last => rounds'[d] = rounds[d]
  BY <1>1, <1>2, <1>3, <1>4
<1> HIDE DEF last
<1>6. AuditType'
  <2>1. last = Len(rounds)
    BY DEF last
  <2> QED
    BY <1>1, <1>2, <1>5, <2>1 DEF AuditType, pageVars
<1>7. PoolGrows
  <2>1. \A d \in DOMAIN rounds : /\ d \in DOMAIN rounds' /\ rounds'[d].in = rounds[d].in
                                 /\ rounds[d].status = "Revealed" => rounds'[d].status = "Revealed"
    BY <1>1, <1>4, <1>5
  <2>2. Len(blocks) <= Len(blocks') /\ shape <= shape'
    BY <1>1, <1>2, AuditNumbers DEF AuditType
  <2> QED
    BY <1>1, <2>1, <2>2 DEF PoolGrows
<1>8. DrawsAreOfDepositors'
  <2>1. Named(Len(blocks))' = Named(Len(blocks))
    BY <1>1 DEF Named
  <2>2. \A d \in DOMAIN rounds' : rounds'[d].in = rounds[d].in
    BY <1>4, <1>5
  <2> QED
    BY <1>5, <2>1, <2>2 DEF AuditInv, DrawsAreOfDepositors
<1>9. \A d \in DOMAIN rounds' : rounds'[d].status = "Open" => d = Len(rounds')
  <2>1. \A d \in DOMAIN rounds : rounds[d].status = "Open" => d = last
    BY DEF AuditInv, RevealedStays, last
  <2> QED
    BY <1>4, <1>5, <2>1
<1> QED
  BY <1>6, <1>7, <1>8, <1>9, PoolKeepsAudit DEF AuditInv, RevealedStays

LEMMA TiersAudited ==
  ASSUME AuditInv, PoolSetsTiers
  PROVE  AuditInv'
<1>1. shape' = shape + 1 /\ UNCHANGED <<auditor, rounds, blocks, pageVars, job, rows, strayed>>
  BY DEF PoolSetsTiers
<1>2. AuditType /\ Len(blocks) \in Nat
  BY AuditNumbers DEF AuditInv
<1>3. AuditType'
  <2>1. shape' \in Nat /\ ks <= shape'
    BY <1>1, <1>2 DEF AuditType
  <2> QED
    BY <1>1, <1>2, <2>1 DEF AuditType, pageVars
<1>4. shape <= shape'
  BY <1>1, <1>2 DEF AuditType
<1>5. PoolGrows
  BY <1>1, <1>2, <1>4 DEF PoolGrows
<1>6. DrawsAreOfDepositors'
  BY <1>1 DEF AuditInv, DrawsAreOfDepositors, Named
<1> QED
  BY <1>1, <1>3, <1>5, <1>6, PoolKeepsAudit DEF AuditInv, RevealedStays

-----------------------------------------------------------------------------
(* The page and the script.                                                *)

\* What they do leaves the pool alone.
LEMMA PoolUntouched ==
  ASSUME AuditInv, UNCHANGED <<rounds, blocks, shape>>
  PROVE  /\ DrawsAreOfDepositors'
         /\ \A d \in DOMAIN rounds' : rounds'[d].status = "Open" => d = Len(rounds')
         /\ \A head : Named(head)' = Named(head)
         /\ UNCHANGED record =>
              \A d \in Ids : record'[d] = "Revealed" => d \in DOMAIN rounds' /\ rounds'[d].status = "Revealed"
BY DEF AuditInv, DrawsAreOfDepositors, RevealedStays, Named

LEMMA JobUntouched ==
  ASSUME AuditInv, UNCHANGED <<rounds, blocks, shape, job>>, rows' = rows \/ rows' = NoRows
  PROVE  JobHolds'
<1>1. \A head : Named(head)' = Named(head)
  BY DEF Named
<1>2. Running => rows = NoRows
  BY DEF AuditInv, JobHolds, JobState
<1> QED
  BY <1>1, <1>2 DEF AuditInv, JobHolds, JobState, Running, RowsAgree, Named

LEMMA TableUntouched ==
  ASSUME AuditInv, UNCHANGED <<rounds, blocks, shape>>, rows' = rows \/ rows' = NoRows
  PROVE  TableHolds'
BY DEF AuditInv, TableHolds, RowsAgree, Named

LEMMA NoRowsIsTable == NoRows \in Tables
BY DEF NoRows, Tables

LEMMA DrawOfTarget ==
  ASSUME AuditType
  PROVE  /\ Target \in 0..latest /\ latest \in Nat /\ latest <= Len(rounds)
         /\ Target # 0 => Target \in Ids /\ Target \in DOMAIN rounds /\ Draw = record[Target]
         /\ Revealed => Target # 0
<1>1. latest \in Nat /\ latest <= Len(rounds) /\ drawId \in 0..latest /\ Len(rounds) <= MaxDraws
      /\ Len(rounds) \in Nat /\ MaxDraws \in Nat /\ DOMAIN rounds = 1..Len(rounds)
  BY AuditNumbers DEF AuditType
<1>2. Target \in 0..latest
  BY <1>1 DEF Target
<1>3. Unseen # "Revealed"
  BY AuditAssumption
<1> QED
  BY <1>1, <1>2, <1>3 DEF Ids, Draw, Revealed

\* A page whose audit is at the draw reads it as what it is.
LEMMA ReadingAudited ==
  ASSUME AuditInv, NEW d \in Ids, ReadDraw(d)
  PROVE  AuditInv'
<1>1. d <= latest /\ record' = [record EXCEPT ![d] = rounds[d].status]
      /\ UNCHANGED <<auditor, rounds, blocks, shape, latest, drawId, ks, job, rows, strayed>>
  BY DEF ReadDraw, poolVars
<1>2. AuditType /\ record \in [Ids -> {Unseen} \union Statuses] /\ latest \in Nat /\ latest <= Len(rounds)
      /\ DOMAIN rounds = 1..Len(rounds) /\ Len(rounds) \in Nat
  BY AuditNumbers DEF AuditInv, AuditType
<1>3. d \in DOMAIN rounds /\ rounds[d].status \in Statuses
  <2>1. d \in DOMAIN rounds
    BY <1>1, <1>2, AuditNumbers DEF Ids
  <2>2. rounds[d] \in Draws
    BY <1>2, <2>1, AuditNumbers
  <2> QED
    BY <2>1, <2>2 DEF Draws
<1>4. record' \in [Ids -> {Unseen} \union Statuses] /\ record'[d] = rounds[d].status
      /\ \A e \in Ids : e # d => record'[e] = record[e]
  BY <1>1, <1>2, <1>3
<1>5. AuditType'
  BY <1>1, <1>2, <1>4 DEF AuditType
<1>6. \A e \in Ids : record'[e] = "Revealed" => e \in DOMAIN rounds' /\ rounds'[e].status = "Revealed"
  BY <1>1, <1>3, <1>4 DEF AuditInv, RevealedStays
<1>7. ASSUME NEW e \in DOMAIN rounds, rounds[e].status = "Revealed", Target = e, Revealed
      PROVE  Target' = e /\ Revealed'
  <2>1. Target' = Target
    BY <1>1 DEF Target
  <2>2. e \in Ids /\ e # 0 /\ record[e] = "Revealed"
    BY <1>2, <1>7, DrawOfTarget DEF Revealed
  <2>3. record'[e] = "Revealed"
    BY <1>4, <1>7, <2>2
  <2> QED
    BY <1>7, <2>1, <2>2, <2>3 DEF Revealed, Draw
<1>8. PageIsAtIt'
  <2>1. Running' = Running
    BY <1>1 DEF Running
  <2>2. ASSUME auditor = "page", ~strayed, Running PROVE Target' = job.draw /\ Revealed'
    BY <1>7, <2>2 DEF AuditInv, JobHolds, JobState, PageIsAtIt
  <2>3. ASSUME auditor = "page", ~strayed, rows # NoRows PROVE Target' = rows.draw /\ Revealed'
    BY <1>7, <2>3 DEF AuditInv, TableHolds, PageIsAtIt
  <2> QED
    BY <1>1, <2>1, <2>2, <2>3 DEF PageIsAtIt
<1> QED
  BY <1>1, <1>5, <1>6, <1>8, PoolUntouched, JobUntouched, TableUntouched DEF AuditInv, RevealedStays

LEMMA TiersReadAudited ==
  ASSUME AuditInv, ReadTiers
  PROVE  AuditInv'
<1>1. ks' = shape /\ UNCHANGED <<auditor, rounds, blocks, shape, latest, drawId, record, job, rows, strayed>>
  BY DEF ReadTiers, poolVars
<1>2. AuditType'
  BY <1>1 DEF AuditInv, AuditType
<1>3. PageIsAtIt'
  BY <1>1 DEF AuditInv, PageIsAtIt, Running, Target, Revealed, Draw
<1> QED
  BY <1>1, <1>2, <1>3, PoolUntouched, JobUntouched, TableUntouched DEF AuditInv, RevealedStays

LEMMA PollAudited ==
  ASSUME AuditInv, Poll
  PROVE  AuditInv'
<1>1. latest' = Len(rounds) /\ latest < Len(rounds)
      /\ strayed' = (strayed \/ (drawId = 0 /\ Turned(Len(rounds))))
      /\ UNCHANGED <<auditor, rounds, blocks, shape, drawId, record, ks, job, rows>>
  BY DEF Poll, poolVars
<1>2. AuditType /\ latest \in Nat /\ drawId \in 0..latest /\ Len(rounds) \in Nat
  BY AuditNumbers DEF AuditInv, AuditType
<1>3. strayed' \in BOOLEAN /\ latest' \in 0..Len(rounds) /\ drawId \in 0..latest'
  BY <1>1, <1>2 DEF AuditType
<1>4. AuditType'
  BY <1>1, <1>2, <1>3 DEF AuditType
<1>5. PageIsAtIt'
  <2> SUFFICES ASSUME auditor = "page", ~strayed', Running \/ rows # NoRows
               PROVE  Target' = Target /\ (Revealed => Revealed')
    BY <1>1 DEF AuditInv, PageIsAtIt, Running
  <2>1. ~strayed /\ (drawId = 0 => Len(rounds) = Target)
    BY <1>1 DEF Turned
  <2>2. Target' = Target
    BY <1>1, <2>1 DEF Target
  <2> QED
    BY <1>1, <2>2 DEF Revealed, Draw
<1> QED
  BY <1>1, <1>4, <1>5, PoolUntouched, JobUntouched, TableUntouched DEF AuditInv, RevealedStays

LEMMA PickAudited ==
  ASSUME AuditInv, NEW d \in Ids, Pick(d)
  PROVE  AuditInv'
<1>0. d <= latest /\ drawId' = d /\ rows' = NoRows
      /\ UNCHANGED <<auditor, rounds, blocks, shape, latest, record, ks, job>>
  BY DEF Pick, poolVars
<1>1. d <= latest /\ drawId' = d /\ rows' = NoRows
      /\ strayed' = (strayed \/ (Running /\ d # Target))
      /\ UNCHANGED <<auditor, rounds, blocks, shape, latest, record, ks, job>>
  BY <1>0 DEF Pick
<1>2. AuditType /\ latest \in Nat /\ MaxDraws \in Nat
  BY AuditNumbers DEF AuditInv, AuditType
<1>3. strayed' \in BOOLEAN /\ d \in 0..latest /\ d # 0
  BY <1>1, <1>2 DEF AuditType, Ids
<1>4. AuditType'
  BY <1>1, <1>2, <1>3, NoRowsIsTable DEF AuditType
<1>5. PageIsAtIt'
  <2> SUFFICES ASSUME auditor = "page", ~strayed', Running
               PROVE  Target' = Target /\ (Revealed => Revealed')
    BY <1>1 DEF AuditInv, PageIsAtIt, Running
  <2>1. Target' = Target
    BY <1>1, <1>3 DEF Target
  <2> QED
    BY <1>1, <2>1 DEF Revealed, Draw
<1> QED
  BY <1>1, <1>4, <1>5, PoolUntouched, JobUntouched, TableUntouched DEF AuditInv, RevealedStays

\* An audit of a draw with the tiers that were read, before anything else of it.
NewJob(d, k) ==
  {j \in Jobs : /\ j.at = "head" /\ j.draw = d /\ j.k = k /\ j.next = 1
                /\ j.users = {} /\ j.read = {}}

LEMMA NewJobs ==
  ASSUME NEW d \in Nat, NEW k \in Nat
  PROVE  /\ [NoJob EXCEPT !.at = "head", !.draw = d, !.k = k] \in NewJob(d, k)
         /\ [NoJob EXCEPT !.at = "head", !.draw = d] \in NewJob(d, 0)
<1> DEFINE r == [NoJob EXCEPT !.at = "head", !.draw = d]
           q == [NoJob EXCEPT !.at = "head", !.draw = d, !.k = k]
<1>1. /\ NoJob \in Jobs
      /\ NoJob.k = 0 /\ NoJob.next = 1 /\ NoJob.users = {} /\ NoJob.read = {}
  <2>1. {} \in SUBSET Depositors /\ {} \in SUBSET Pairs
    OBVIOUS
  <2> QED
    BY <2>1 DEF NoJob, Jobs
<1>2. r \in Jobs /\ r.at = "head" /\ r.draw = d /\ r.k = 0 /\ r.next = 1 /\ r.users = {} /\ r.read = {}
  BY <1>1 DEF Jobs
<1>3. q \in Jobs /\ q.at = "head" /\ q.draw = d /\ q.k = k /\ q.next = 1 /\ q.users = {} /\ q.read = {}
  BY <1>1 DEF Jobs
<1> HIDE DEF r, q
<1>4. r \in NewJob(d, 0) /\ q \in NewJob(d, k)
  BY <1>2, <1>3 DEF NewJob
<1> QED
  BY <1>4 DEF r, q

\* A new audit is of a draw that has been revealed.
LEMMA AuditStarts ==
  ASSUME AuditInv, NEW d \in DOMAIN rounds, NEW k \in Nat, rounds[d].status = "Revealed", k <= shape,
         job' \in NewJob(d, k), rows' = NoRows,
         UNCHANGED <<auditor, rounds, blocks, shape, latest, drawId, record, ks>>,
         strayed' \in BOOLEAN, auditor = "page" => Target = d /\ Revealed
  PROVE  AuditInv'
<1>1. AuditType /\ d \in Nat
  BY AuditNumbers DEF AuditInv
<1>2. /\ job' \in Jobs /\ job'.at = "head" /\ job'.draw = d /\ job'.k = k /\ job'.next = 1
      /\ job'.users = {} /\ job'.read = {}
  BY DEF NewJob
<1>3. AuditType'
  BY <1>1, <1>2, NoRowsIsTable DEF AuditType
<1>4. JobHolds'
  BY <1>2 DEF JobHolds, JobState, RowsAgree
<1>5. PageIsAtIt'
  <2>1. Target' = Target /\ (Revealed => Revealed')
    BY DEF Target, Revealed, Draw
  <2> QED
    BY <1>2, <2>1 DEF PageIsAtIt
<1> QED
  BY <1>3, <1>4, <1>5, PoolUntouched, TableUntouched DEF AuditInv, RevealedStays

LEMMA PressAudited ==
  ASSUME AuditInv, PressVerify
  PROVE  AuditInv'
<1>1. AuditType /\ ks \in Nat /\ ks <= shape
  BY DEF AuditInv, AuditType
<1>2. Target \in DOMAIN rounds /\ rounds[Target].status = "Revealed" /\ Revealed
  <2>1. Revealed /\ Target \in Ids /\ record[Target] = "Revealed"
    BY <1>1, DrawOfTarget DEF PressVerify, Revealed
  <2> QED
    BY <2>1 DEF AuditInv, RevealedStays
<1>3. /\ job' \in NewJob(Target, ks) /\ rows' = NoRows
      /\ strayed' \in BOOLEAN
      /\ UNCHANGED <<auditor, rounds, blocks, shape, latest, drawId, record, ks>>
  <2>1. Target \in Nat
    BY <1>1, <1>2, AuditNumbers
  <2>2. [NoJob EXCEPT !.at = "head", !.draw = Target, !.k = ks] \in NewJob(Target, ks)
    BY <1>1, <2>1, NewJobs
  <2> QED
    BY <2>2 DEF PressVerify, poolVars, pageVars
<1> QED
  BY <1>1, <1>2, <1>3, AuditStarts

LEMMA ScriptAudited ==
  ASSUME AuditInv, NEW asked, ScriptStarts(asked)
  PROVE  AuditInv'
<1>1. PICK d : /\ d \in DOMAIN rounds /\ rounds[d].status = "Revealed" /\ auditor = "script"
               /\ job' \in NewJob(d, 0) /\ rows' = NoRows
               /\ UNCHANGED <<auditor, rounds, blocks, shape, latest, drawId, record, ks, strayed>>
  <2>1. AuditType
    BY DEF AuditInv
  <2>2. PICK d : /\ d \in DOMAIN rounds /\ rounds[d].status = "Revealed" /\ auditor = "script"
                 /\ job' = [NoJob EXCEPT !.at = "head", !.draw = d] /\ rows' = NoRows
                 /\ UNCHANGED <<auditor, rounds, blocks, shape, latest, drawId, record, ks, strayed>>
    BY DEF ScriptStarts, poolVars, pageVars
  <2>3. d \in Nat
    BY <2>1, <2>2, AuditNumbers
  <2>4. job' \in NewJob(d, 0)
    BY <2>2, <2>3, NewJobs
  <2> QED
    BY <2>2, <2>4
<1>3. shape \in Nat /\ strayed' \in BOOLEAN
  BY <1>1 DEF AuditInv, AuditType
<1>4. 0 <= shape
  BY <1>3
<1> QED
  BY <1>1, <1>3, <1>4, AuditStarts

-----------------------------------------------------------------------------
(* The stages of an audit.                                                 *)

AroundJob == <<auditor, rounds, blocks, shape, latest, drawId, record, ks, rows, strayed>>

LEMMA StageKeeps ==
  ASSUME AuditInv, Running, UNCHANGED AroundJob,
         NEW j \in Jobs, job' = j, j.draw = job.draw, JobState(j)
  PROVE  AuditInv'
<1>1. AuditType'
  BY DEF AuditInv, AuditType, AroundJob
<1>2. PageIsAtIt'
  <2>1. Target' = Target /\ (Revealed => Revealed')
    BY DEF Target, Revealed, Draw, AroundJob
  <2>2. rows' = NoRows
    BY DEF AuditInv, JobHolds, AroundJob
  <2> QED
    BY <2>1, <2>2 DEF AuditInv, PageIsAtIt, AroundJob
<1>3. UNCHANGED <<rounds, blocks, shape, record, rows>>
  BY DEF AroundJob
<1>4. JobHolds'
  BY <1>3 DEF AuditInv, JobHolds, JobState, RowsAgree, Named
<1> QED
  BY <1>1, <1>2, <1>3, <1>4, PoolUntouched, TableUntouched DEF AuditInv, RevealedStays

LEMMA StageFacts ==
  ASSUME AuditInv, Running
  PROVE  /\ AuditType /\ job \in Jobs /\ JobState(job) /\ rows = NoRows
         /\ Len(blocks) \in Nat /\ shape \in Nat /\ ChunkSize \in Nat \ {0}
         /\ job.next \in Nat \ {0} /\ job.head \in Nat /\ job.k \in Nat /\ job.draw \in Nat
         /\ job.users \in SUBSET Depositors /\ job.read \in SUBSET Pairs
<1>1. AuditType
  BY DEF AuditInv
<1>2. job \in Jobs /\ shape \in Nat
  BY <1>1 DEF AuditType
<1> QED
  BY <1>1, <1>2, AuditNumbers, JobFields DEF AuditInv, JobHolds

LEMMA HeadAudited ==
  ASSUME AuditInv, ReadHead
  PROVE  AuditInv'
<1>1. /\ job.at = "head" /\ Running /\ UNCHANGED AroundJob
      /\ job' = [job EXCEPT !.at = "scan", !.head = Len(blocks)]
  BY DEF ReadHead, Running, AroundJob, poolVars, pageVars
<1>2. PICK j : j = [job EXCEPT !.at = "scan", !.head = Len(blocks)]
  OBVIOUS
<1>3. /\ j \in Jobs /\ j.at = "scan" /\ j.head = Len(blocks) /\ j.draw = job.draw /\ j.k = job.k
      /\ j.next = job.next /\ j.users = job.users /\ j.read = job.read
  BY <1>1, <1>2, StageFacts DEF Jobs
<1>4. job.next = 1 /\ job.users = {} /\ job.read = {} /\ job.draw \in DOMAIN rounds
  BY <1>1, StageFacts DEF JobState
<1>5. rounds[job.draw].in \subseteq Named(Len(blocks))
  BY <1>4 DEF AuditInv, DrawsAreOfDepositors
<1>6. Named(0) = {} /\ (1 > Len(blocks) => Len(blocks) = 0)
  BY <1>1, StageFacts DEF Named
<1>7. JobState(j)
  BY <1>1, <1>3, <1>4, <1>5, <1>6, StageFacts DEF JobState
<1> QED
  BY <1>1, <1>2, <1>3, <1>7, StageKeeps

LEMMA ChunkAudited ==
  ASSUME AuditInv, ScanChunk
  PROVE  AuditInv'
<1> DEFINE chunk == {blocks[b] : b \in job.next..LastOf(job.next, job.head)}
<1>1. /\ job.at = "scan" /\ job.next <= job.head /\ Running /\ UNCHANGED AroundJob
      /\ job' = [job EXCEPT !.users = job.users \union chunk, !.next = job.next + ChunkSize]
  BY DEF ScanChunk, NextChunk, Running, AroundJob, poolVars, pageVars
<1>2. /\ job.next \in 1..job.head /\ job.head \in 0..Len(blocks) /\ job.users = Named(job.next - 1)
      /\ job.next \in Nat /\ job.head \in Nat /\ Len(blocks) \in Nat /\ job.head <= Len(blocks)
      /\ ChunkSize \in Nat
  BY <1>1, StageFacts DEF JobState
<1>3. /\ job.next + ChunkSize \in Nat \ {0} /\ LastOf(job.next, job.head) \in job.next..job.head
      /\ job.next + ChunkSize <= job.head => LastOf(job.next, job.head) = job.next + ChunkSize - 1
      /\ job.next + ChunkSize > job.head => LastOf(job.next, job.head) = job.head
  BY <1>1, <1>2, StageFacts, ChunkNames
<1>4. job.users \union chunk = Named(LastOf(job.next, job.head))
  <2>1. PICK last \in job.next..job.head : last = LastOf(job.next, job.head)
    BY <1>3
  <2>2. 1..last = (1..job.next - 1) \union (job.next..last)
    BY <1>2
  <2> QED
    BY <1>2, <2>1, <2>2 DEF Named
<1>5. job.users \union chunk \in SUBSET Depositors
  <2>1. LastOf(job.next, job.head) \in 0..Len(blocks)
    BY <1>2, <1>3
  <2> QED
    BY <1>1, <1>4, <2>1, StageFacts, NamedAreDepositors
<1> HIDE DEF chunk
<1>6. PICK j : j = [job EXCEPT !.users = job.users \union chunk, !.next = job.next + ChunkSize]
  OBVIOUS
<1>7. /\ j \in Jobs /\ j.at = "scan" /\ j.head = job.head /\ j.draw = job.draw /\ j.k = job.k
      /\ j.next = job.next + ChunkSize /\ j.users = job.users \union chunk /\ j.read = job.read
  BY <1>1, <1>3, <1>5, <1>6, StageFacts DEF Jobs
<1>8. JobState(j)
  BY <1>1, <1>3, <1>4, <1>7, StageFacts, SMTT(30) DEF JobState
<1> QED
  BY <1>1, <1>6, <1>7, <1>8, StageKeeps

LEMMA ScannedAudited ==
  ASSUME AuditInv, Scanned
  PROVE  AuditInv'
<1>1. PICK at \in {"tiers", "rows"} :
        /\ job.at = "scan" /\ job.next > job.head /\ Running /\ UNCHANGED AroundJob
        /\ job' = [job EXCEPT !.at = at]
  BY DEF Scanned, Running, AroundJob, poolVars, pageVars
<1>2. PICK j : j = [job EXCEPT !.at = at]
  OBVIOUS
<1>3. /\ j \in Jobs /\ j.at = at /\ j.head = job.head /\ j.draw = job.draw /\ j.k = job.k
      /\ j.users = job.users /\ j.read = job.read
  BY <1>1, <1>2, StageFacts DEF Jobs
<1>4. JobState(j)
  BY <1>1, <1>3, StageFacts DEF JobState
<1> QED
  BY <1>1, <1>2, <1>3, <1>4, StageKeeps

LEMMA ScriptTiersAudited ==
  ASSUME AuditInv, ScriptReadsTiers
  PROVE  AuditInv'
<1>1. /\ job.at = "tiers" /\ Running /\ UNCHANGED AroundJob
      /\ job' = [job EXCEPT !.at = "rows", !.k = shape]
  BY DEF ScriptReadsTiers, Running, AroundJob, poolVars, pageVars
<1>2. PICK j : j = [job EXCEPT !.at = "rows", !.k = shape]
  OBVIOUS
<1>3. /\ j \in Jobs /\ j.at = "rows" /\ j.head = job.head /\ j.draw = job.draw /\ j.k = shape
      /\ j.users = job.users /\ j.read = job.read
  BY <1>1, <1>2, StageFacts DEF Jobs
<1>4. job.read = {} /\ shape <= shape
  BY <1>1, StageFacts DEF JobState
<1>5. JobState(j)
  BY <1>1, <1>3, <1>4, StageFacts DEF JobState, RowsAgree
<1> QED
  BY <1>1, <1>2, <1>3, <1>5, StageKeeps

LEMMA OneAudited ==
  ASSUME AuditInv, NEW u \in Depositors, AuditOne(u)
  PROVE  AuditInv'
<1> DEFINE row == [mine |-> LocalThreshold(job.draw, u, job.k),
                   chain |-> ContractThreshold(job.draw, u)]
<1>1. /\ job.at = "rows" /\ u \in job.users /\ Running /\ UNCHANGED AroundJob
      /\ job' = [job EXCEPT !.users = job.users \ {u}, !.read = job.read \union {row}]
  BY DEF AuditOne, Running, AroundJob, poolVars, pageVars
<1>2. /\ row \in Pairs /\ row.mine.who = u /\ row.mine.draw = job.draw /\ row.mine.k = job.k
      /\ row.chain = row.mine \/ job.k < shape
  <2>1. job.k <= shape /\ job.k \in Nat /\ shape \in Nat /\ job.draw \in Nat
    BY <1>1, StageFacts DEF JobState
  <2>2. row \in Pairs /\ row.mine.who = u /\ row.mine.draw = job.draw /\ row.mine.k = job.k
    BY <2>1 DEF Pairs, Odds, LocalThreshold, ContractThreshold
  <2>3. job.k = shape => row.chain = row.mine
    BY DEF LocalThreshold, ContractThreshold
  <2> QED
    BY <2>1, <2>2, <2>3
<1> HIDE DEF row
<1>3. PICK j : j = [job EXCEPT !.users = job.users \ {u}, !.read = job.read \union {row}]
  OBVIOUS
<1>4. /\ j \in Jobs /\ j.at = "rows" /\ j.head = job.head /\ j.draw = job.draw /\ j.k = job.k
      /\ j.users = job.users \ {u} /\ j.read = job.read \union {row}
  BY <1>1, <1>2, <1>3, StageFacts DEF Jobs
<1>5. j.users \union {r.mine.who : r \in j.read} = job.users \union {r.mine.who : r \in job.read}
  BY <1>1, <1>2, <1>4
<1>6. RowsAgree(j.read, j.draw, j.k)
  BY <1>1, <1>2, <1>4, StageFacts DEF JobState, RowsAgree
<1>7. JobState(j)
  BY <1>1, <1>4, <1>5, <1>6, StageFacts DEF JobState
<1> QED
  BY <1>1, <1>3, <1>4, <1>7, StageKeeps

LEMMA ShowAudited ==
  ASSUME AuditInv, ShowRows
  PROVE  AuditInv'
<1> DEFINE table == [draw |-> job.draw, k |-> job.k, read |-> job.read,
                     users |-> {r.mine.who : r \in job.read}]
<1>1. /\ job.at = "rows" /\ job.users = {} /\ Running /\ rows' = table /\ job' = NoJob
      /\ UNCHANGED <<auditor, rounds, blocks, shape, latest, drawId, record, ks, strayed>>
  BY DEF ShowRows, Running, poolVars, pageVars
<1>2. /\ job.draw \in DOMAIN rounds /\ rounds[job.draw].status = "Revealed" /\ job.k <= shape
      /\ job.head \in 0..Len(blocks) /\ rounds[job.draw].in \subseteq Named(job.head)
      /\ {r.mine.who : r \in job.read} = Named(job.head)
      /\ RowsAgree(job.read, job.draw, job.k)
  BY <1>1, StageFacts DEF JobState
<1>3. table \in Tables /\ NoJob \in Jobs /\ NoJob.at = "idle"
  <2>1. {r.mine.who : r \in job.read} \in SUBSET Depositors
    BY <1>1, <1>2, StageFacts, NamedAreDepositors
  <2>2. {} \in SUBSET Depositors /\ {} \in SUBSET Pairs
    OBVIOUS
  <2> QED
    BY <1>1, <2>1, <2>2, StageFacts DEF Tables, NoJob, Jobs
<1>4. table.draw = job.draw /\ table.k = job.k /\ table.read = job.read
      /\ table.users = {r.mine.who : r \in job.read}
  OBVIOUS
<1> HIDE DEF table
<1>5. AuditType'
  BY <1>1, <1>3 DEF AuditInv, AuditType
<1>6. JobHolds'
  BY <1>1, <1>3 DEF JobHolds, Running
<1>7. TableHolds'
  <2>1. /\ rows'.draw = job.draw /\ rows'.k = job.k /\ rows'.read = job.read
        /\ rows'.users = {r.mine.who : r \in job.read}
    BY <1>1, <1>4
  <2>2. RowsAgree(rows.read, rows.draw, rows.k)'
    BY <1>1, <1>2, <2>1 DEF RowsAgree
  <2>3. PICK head \in 0..Len(blocks) : head = job.head
    BY <1>2
  <2>4. rows'.users = Named(head)' /\ head \in 0..Len(blocks')
    BY <1>1, <1>2, <2>1, <2>3 DEF Named
  <2>5. /\ rows'.draw \in DOMAIN rounds' /\ rounds'[rows'.draw].status = "Revealed"
        /\ rows'.k <= shape' /\ rounds'[rows'.draw].in \subseteq rows'.users
    BY <1>1, <1>2, <2>1
  <2> QED
    BY <2>1, <2>2, <2>4, <2>5 DEF TableHolds
<1>8. PageIsAtIt'
  <2>1. Target' = Target /\ (Revealed => Revealed')
    BY <1>1 DEF Target, Revealed, Draw
  <2> QED
    BY <1>1, <1>3, <1>4, <2>1 DEF AuditInv, PageIsAtIt, Running
<1> QED
  BY <1>1, <1>5, <1>6, <1>7, <1>8, PoolUntouched DEF AuditInv, RevealedStays

LEMMA FailedAudited ==
  ASSUME AuditInv, AuditFails
  PROVE  AuditInv'
<1>1. /\ Running /\ job' = NoJob
      /\ UNCHANGED <<auditor, rounds, blocks, shape, latest, drawId, record, ks, rows, strayed>>
  BY DEF AuditFails, poolVars, pageVars
<1>2. NoJob \in Jobs /\ NoJob.at = "idle"
  <2>1. {} \in SUBSET Depositors /\ {} \in SUBSET Pairs
    OBVIOUS
  <2> QED
    BY <2>1 DEF NoJob, Jobs
<1>3. AuditType'
  BY <1>1, <1>2 DEF AuditInv, AuditType
<1>4. JobHolds'
  BY <1>1, <1>2 DEF JobHolds, Running
<1>5. PageIsAtIt'
  BY <1>1, <1>2 DEF AuditInv, JobHolds, PageIsAtIt, Running
<1> QED
  BY <1>1, <1>3, <1>4, <1>5, PoolUntouched, TableUntouched DEF AuditInv, RevealedStays

LEMMA AuditStep ==
  ASSUME AuditInv, AuditNext
  PROVE  AuditInv'
<1>1. CASE PoolGoesOn
  BY <1>1, DepositAudited, OpeningAudited, ClosingAudited, TiersAudited DEF PoolGoesOn
<1>2. CASE Poll \/ ReadTiers \/ PressVerify
  BY <1>2, PollAudited, TiersReadAudited, PressAudited
<1>3. CASE \E d \in Ids : ReadDraw(d) \/ Pick(d) \/ PickRow(d)
  BY <1>3, ReadingAudited, PickAudited DEF PickRow
<1>4. CASE \E asked \in {0} \union Ids : ScriptStarts(asked)
  BY <1>4, ScriptAudited
<1>5. CASE ReadHead \/ ScanChunk \/ Scanned \/ ScriptReadsTiers
  BY <1>5, HeadAudited, ChunkAudited, ScannedAudited, ScriptTiersAudited
<1>6. CASE (\E u \in Depositors : AuditOne(u)) \/ ShowRows \/ AuditFails
  BY <1>6, OneAudited, ShowAudited, FailedAudited
<1> QED
  BY <1>1, <1>2, <1>3, <1>4, <1>5, <1>6 DEF AuditNext

LEMMA InitAudited == AuditInit => AuditInv
<1> SUFFICES ASSUME AuditInit PROVE AuditInv
  OBVIOUS
<1>1. /\ rounds = <<>> /\ blocks = <<>> /\ shape = 1 /\ latest = 0 /\ drawId = 0 /\ ks = 0
      /\ record = [d \in Ids |-> Unseen] /\ job = NoJob /\ rows = NoRows /\ strayed = FALSE
      /\ auditor \in {"page", "script"}
  BY DEF AuditInit
<1>2. NoJob \in Jobs /\ NoJob.at = "idle"
  <2>1. {} \in SUBSET Depositors /\ {} \in SUBSET Pairs
    OBVIOUS
  <2> QED
    BY <2>1 DEF NoJob, Jobs
<1>3. Len(rounds) = 0 /\ DOMAIN rounds = {} /\ rounds \in Seq(Draws)
      /\ Len(blocks) = 0 /\ blocks \in Seq(Depositors)
  BY <1>1
<1>4. AuditType
  <2>1. MaxDraws \in Nat /\ MaxBlocks \in Nat
    BY AuditAssumption
  <2>2. record \in [Ids -> {Unseen} \union Statuses]
    BY <1>1
  <2>3. Len(rounds) <= MaxDraws /\ Len(blocks) <= MaxBlocks
    BY <1>3, <2>1
  <2>4. latest \in 0..Len(rounds) /\ drawId \in 0..latest /\ shape \in Nat /\ ks \in Nat /\ ks <= shape
    BY <1>1, <1>3
  <2> QED
    BY <1>1, <1>2, <1>3, <2>2, <2>3, <2>4, NoRowsIsTable DEF AuditType
<1>5. \A d \in Ids : record[d] # "Revealed"
  BY <1>1, AuditAssumption
<1> QED
  BY <1>1, <1>2, <1>3, <1>4, <1>5
     DEF AuditInv, DrawsAreOfDepositors, RevealedStays, JobHolds, Running, TableHolds, PageIsAtIt

-----------------------------------------------------------------------------
(* What the table shows.                                                   *)

LEMMA AuditShows ==
  ASSUME AuditInv
  PROVE  AuditIsOfOneDraw
<1> SUFFICES ASSUME rows # NoRows PROVE AuditIsOfOneDraw
  BY DEF AuditIsOfOneDraw
<1>1. /\ rows.draw \in DOMAIN rounds /\ rounds[rows.draw].status = "Revealed" /\ rows.k <= shape
      /\ rows.users = {r.mine.who : r \in rows.read}
      /\ rounds[rows.draw].in \subseteq rows.users
      /\ RowsAgree(rows.read, rows.draw, rows.k)
  BY DEF AuditInv, TableHolds
<1>2. \A r, s \in rows.read : r.mine.draw = s.mine.draw /\ r.mine.k = s.mine.k
  BY <1>1 DEF RowsAgree
<1>3. AllMatch \/ shape > rows.k
  <2>1. rows.read # {}
    BY <1>1 DEF AuditInv, DrawsAreOfDepositors
  <2>2. \A r \in rows.read : r.mine = r.chain \/ rows.k < shape
    BY <1>1 DEF RowsAgree
  <2>3. shape \in Nat /\ rows.k \in Nat
    BY JobFields DEF AuditInv, AuditType
  <2> QED
    BY <2>1, <2>2, <2>3 DEF AllMatch, Match
<1>4. ASSUME ~strayed, ks = rows.k PROVE PercentagesAre = "right"
  <2>1. CASE auditor = "script"
    BY <2>1 DEF PercentagesAre
  <2>2. CASE auditor = "page"
    <3>1. Target = rows.draw /\ Revealed
      BY <1>4, <2>2 DEF AuditInv, PageIsAtIt
    <3>2. Draw # Unseen
      BY <3>1, AuditAssumption DEF Revealed
    <3> QED
      BY <1>4, <2>2, <3>1, <3>2 DEF PercentagesAre
  <2> QED
    BY <2>1, <2>2 DEF AuditInv, AuditType
<1>5. CountsTheSame
  <2>1. PICK head \in 0..Len(blocks) : rows.users = Named(head)
    BY DEF AuditInv, TableHolds
  <2>2. DepositorCount(head) = Cardinality(Named(head))
    BY CountIsOfNamed DEF AuditInv
  <2> QED
    BY <2>1, <2>2 DEF CountsTheSame
<1> QED
  BY <1>1, <1>2, <1>3, <1>4, <1>5 DEF AuditIsOfOneDraw

\* Whatever is supplied, paid, joined, returned and claimed, in any order and by anybody:
\* balance, vault and the payments the principal did not register come to the pot and
\* the principal (supply, redeem, harvest, joinVault, claimUnwound), for all constants.
THEOREM BufferHolds == Spec => [](TypeOK /\ BufferIsWhatIsNotInVault)
<1>1. Init => IInv
  BY InitHolds
<1>2. IInv /\ [Next]_vars => IInv'
  BY StepKeeps
<1> QED
  BY <1>1, <1>2, PTL DEF Spec, IInv

\* However often and by whomever joinVault is called, a join made while the books show a
\* buffer takes at most half of what the balance holds over the pot; a redeem may take
\* the principal below what is counted as in the vault, which ends that.
THEOREM JoinsSpare == Spec => JoinsSpareTheBuffer
<1>1. Init => IInv
  BY InitHolds
<1>2. IInv /\ [Next]_vars => IInv'
  BY StepKeeps
<1>3. IInv /\ [Next]_vars =>
        [inVault' > inVault /\ inVault <= principal /\ unbooked = 0 =>
           2 * (balance - balance') <= balance - pot]_vars
  BY StepKeeps
<1> QED
  BY <1>1, <1>2, <1>3, PTL DEF Spec, JoinsSpareTheBuffer

\* As long as what the principal earned is a number of tokens the yield can hold, what
\* the source has banked, paid and still runs is that interest, short of less than one
\* token for each second in which it settled, and the principal the keeper prints is
\* the one that earns the prizes (_settle, _accrued, harvest, logBreakEven).  A
\* source that pays no interest has no such principal.
THEOREM YieldIsInterest ==
  ASSUME Rate # 0
  PROVE  Spec /\ []InterestFits => []YieldFollowsPrincipal
<1>1. Init => IInv /\ InterestIsAccounted
  BY InitHolds, InitAccounts
<1>2. IInv /\ [Next]_vars => IInv'
  BY StepKeeps
<1>3. IInv /\ InterestIsAccounted /\ InterestFits /\ [Next]_vars => InterestIsAccounted'
  BY InterestStep
<1>4. IInv /\ InterestIsAccounted => YieldFollowsPrincipal
  BY AccountBounds
<1> QED
  BY <1>1, <1>2, <1>3, <1>4, PTL DEF Spec

\* Nothing on the way through the vault is missing from the lists, and a status read
\* across dispatches is coherent, for any number of joins, claims and unwinds by anybody
\* (joinVault and requestUnwind list, VaultClient.status and the Vault screen read).
THEOREM ListsNameWhatIsOut == EvidenceSpec => []ListsAreComplete
<1>1. EvidenceInit => IInv /\ ListInv
  BY InitLists DEF EvidenceInit
<1> DEFINE Listing == studied = "views" => IInv /\ ListInv
<1>2. Listing /\ [Books \/ Lists \/ Audits]_evidenceVars => Listing'
  <2> SUFFICES ASSUME Listing, Books \/ Lists \/ Audits \/ UNCHANGED evidenceVars,
                      studied' = "views"
               PROVE  (IInv /\ ListInv)'
    OBVIOUS
  <2>1. studied = "views" /\ IInv /\ ListInv
    BY DEF Books, Lists, Audits, evidenceVars
  <2>2. CASE Lists
    BY <2>1, <2>2, ListStep, ViewStepIsStep, StepKeeps DEF Lists, ListInv, BatchesAreListed
  <2>3. CASE UNCHANGED evidenceVars
    <3>1. UNCHANGED vars /\ UNCHANGED <<inVault, shares, joins, unwinds, views>>
      BY <2>3 DEF evidenceVars, vars, books, vault
    <3> QED
      BY <2>1, <3>1, QuietLists, StepKeeps
  <2> QED
    BY <2>1, <2>2, <2>3 DEF Books, Audits
<1>3. Listing => ListsAreComplete
  BY ListsShow DEF ListsAreComplete
<1> QED
  BY <1>1, <1>2, <1>3, PTL DEF EvidenceSpec

\* The rows of an audit are of one draw and one reading of the tiers, name everybody with
\* weight in it and nobody twice, cry mismatch only after setTiers, and carry the right
\* percentages until the page turned away, for any length of chain, any chunk and any
\* order of polls, picks and deposits (Verify.tsx, verify-draw.ts, useDepositorCount).
THEOREM AuditsAreOfOneDraw == EvidenceSpec => []AuditIsOfOneDraw
<1>1. EvidenceInit => AuditInv
  BY InitAudited DEF EvidenceInit
<1>2. AuditInv /\ [Books \/ Lists \/ Audits]_evidenceVars => AuditInv'
  <2> SUFFICES ASSUME AuditInv, Books \/ Lists \/ Audits \/ UNCHANGED evidenceVars
               PROVE  AuditInv'
    OBVIOUS
  <2>1. CASE Audits
    BY <2>1, AuditStep DEF Audits
  <2>2. CASE Books \/ Lists \/ UNCHANGED evidenceVars
    <3>1. UNCHANGED <<auditor, rounds, blocks, shape, latest, drawId, record, ks, job, rows, strayed>>
      BY <2>2 DEF Books, Lists, evidenceVars, auditVars, poolVars, pageVars
    <3>2. AuditType'
      BY <3>1 DEF AuditInv, AuditType
    <3>3. PageIsAtIt'
      BY <3>1 DEF AuditInv, PageIsAtIt, Running, Target, Revealed, Draw
    <3> QED
      BY <3>1, <3>2, <3>3, PoolUntouched, JobUntouched, TableUntouched DEF AuditInv, RevealedStays
  <2> QED
    BY <2>1, <2>2
<1>3. AuditInv => AuditIsOfOneDraw
  BY AuditShows
<1> QED
  BY <1>1, <1>2, <1>3, PTL DEF EvidenceSpec

=============================================================================
