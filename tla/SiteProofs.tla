----------------------------- MODULE SiteProofs -----------------------------
(***************************************************************************)
(* Theorems about Site, for every set of accounts, every amount and any    *)
(* number of events: what the tab's figures, its buttons, the tools'       *)
(* refusals and the record of an unwrap rest on.                           *)
(***************************************************************************)
EXTENDS Site, SequenceTheorems, TLAPS

-----------------------------------------------------------------------------
(* The invariant                                                           *)

Outcomes == {"moved", "refused", "illiquid", "short"}
Transactions == [kind : Kinds, from : Accounts, who : Accounts, n : Nat,
                 by : Actors \union {"nobody"}]

MoneyTypes ==
    /\ usdc \in [Accounts -> Nat] /\ allowance \in [Accounts -> Nat]
    /\ operator \in [Accounts -> BOOLEAN]
    /\ cell \in [Accounts -> [Cells -> Handles]]
    /\ credit \in [Accounts -> Nat] /\ received \in [Accounts -> Nat]
    /\ requests \in [Accounts -> Seq(Nat)]
    /\ steps \in Nat

\* A transaction waits in the queue of its sender.
QueueTypes ==
    /\ mempool \in [Accounts -> Seq(Transactions)]
    /\ \A a \in Accounts : \A i \in 1..Len(mempool[a]) : mempool[a][i].from = a
    /\ receipt \in [Actors -> Outcomes \union {"none"}]

\* What an unwrap was filed against.
Record(p) ==
    /\ p.n \in Nat /\ p.base \in Nat /\ p.got \in Nat
    /\ p.known \in BOOLEAN /\ p.who \in Accounts

TabTypes ==
    /\ who \in Accounts \union {Nobody} /\ screen \in Screens
    /\ DOMAIN seen = Accounts
    /\ \A a \in Accounts :
         /\ seen[a] = [f \in Fields |-> seen[a][f]]
         /\ \A f \in {"usdc", "allowance"} : seen[a][f] \in Nat \union {Unread}
         /\ \A c \in Cells : seen[a][c] \in Handles \union {Unread}
    /\ opened \subseteq Handles
    /\ cashAt \in [Accounts -> Nat]
    /\ \A a \in Accounts : cashAt[a] <= received[a]

ActTypes ==
    /\ DOMAIN act = DOMAIN Idle
    /\ act.n \in Nat /\ act.base \in Nat /\ act.got \in Nat /\ act.known \in BOOLEAN
    /\ act.asked \in Nat
    /\ Busy => act.who \in Accounts /\ act.kind \in Kinds
    /\ act.kind = "fund" => /\ act.phase = "wallet" => act.asked \in 0..2
                            /\ act.phase = "pending" => act.asked = 3

ToolTypes ==
    /\ DOMAIN call = DOMAIN NoCall
    /\ call.n \in Nat /\ call.short \in Nat
    /\ refs \subseteq Handles

TypeOK == MoneyTypes /\ QueueTypes /\ TabTypes /\ ActTypes /\ ToolTypes

\* The queued transaction an actor waits for.
Awaits(x, a, i) == i \in 1..Len(mempool[a]) /\ mempool[a][i].by = x

TheTabAwaitsOne ==
    /\ receipt["tab"] # "none" => act.phase = "pending"
    /\ \A a \in Accounts : \A i \in 1..Len(mempool[a]) :
         Awaits("tab", a, i) =>
            /\ act.phase = "pending" /\ receipt["tab"] = "none"
            /\ mempool[a][i].kind = (IF act.kind = "fund" THEN "wrap" ELSE act.kind)
            /\ mempool[a][i].n = act.n /\ mempool[a][i].who = act.who
            /\ act.strayed \/ act.kind = "claim" \/ a = act.who
            /\ \A b \in Accounts : \A j \in 1..Len(mempool[b]) :
                 Awaits("tab", b, j) => a = b /\ i = j

\* A button is on one screen, which stays while its action is under way.
OnItsScreen ==
    Busy => IF act.kind \in {"mint", "approve", "wrap", "unwrap"}
            THEN screen = "wrap" ELSE screen = "pool"

\* Every figure shown is the chain's, is being read, or was changed by others;
\* or the tab's own transaction is mined and its refresh has yet to come.
FiguresFollow ==
    who # Nobody =>
        \A f \in Shown(screen) :
            \/ f \in unseen \union toRead
            \/ seen[who][f] = OnChain(who, f)
            \/ act.phase = "pending" /\ receipt["tab"] # "none" /\ f \in Refreshed(screen)

Cleared == act.sure /\ ~act.strayed /\ <<"tab", act.who>> \notin overtaken

\* One of the transactions of "Get 1,000" that comes before position i.
Ahead(kind, i) ==
    \E j \in 1..Len(mempool[act.who]) :
        /\ j < i /\ mempool[act.who][j].kind = kind
        /\ mempool[act.who][j].n = act.n /\ mempool[act.who][j].who = act.who

\* What the button promised is still there, or comes first.
FundHolds(i) ==
    /\ act.asked > 0 => usdc[act.who] >= act.n \/ Ahead("mint", i)
    /\ act.asked > 1 => allowance[act.who] >= act.n \/ Ahead("approve", i)

StillHolds ==
    /\ act.kind = "wrap" => usdc[act.who] >= act.n /\ allowance[act.who] >= act.n
    /\ act.kind = "unwrap" => cell[act.who]["wallet"].holds >= act.n
    /\ act.kind = "deposit" => operator[act.who]
    /\ act.kind = "deposit" /\ act.enough => cell[act.who]["wallet"].holds >= act.n
    /\ act.kind = "withdraw" => Drained(act.who) > act.n
    /\ act.kind = "fund" =>
         /\ act.phase = "wallet" => FundHolds(Len(mempool[act.who]) + 1)
         /\ act.phase = "pending" =>
              \A i \in 1..Len(mempool[act.who]) : Awaits("tab", act.who, i) => FundHolds(i)

ButtonsHold == Busy /\ receipt["tab"] = "none" /\ Cleared => StillHolds

\* The tools' transaction, and what each step has seen to.
TheToolAwaitsOne ==
    /\ receipt["tool"] # "none" => call.at = "await"
    /\ \A a \in Accounts : \A i \in 1..Len(mempool[a]) :
         Awaits("tool", a, i) =>
            /\ call.at = "await" /\ receipt["tool"] = "none" /\ a = KeyAccount
            /\ mempool[a][i].kind = call.tx /\ mempool[a][i].who = KeyAccount
            /\ mempool[a][i].n = (CASE call.tx = "mint" -> call.short
                                    [] call.tx = "setOperator" -> 0 [] OTHER -> call.n)
            /\ \A b \in Accounts : \A j \in 1..Len(mempool[b]) :
                 Awaits("tool", b, j) => a = b /\ i = j

\* Where the call is, the transaction it waits for counting as its step.
Where == IF call.at = "await" THEN call.tx ELSE call.at
Mined == call.at = "await" /\ receipt["tool"] # "none"

Steps(tool) ==
    CASE tool = "wrap" -> {"readHeld", "mint", "readAllowance", "approve", "wrap"}
      [] tool = "localWrap" -> {"approve", "wrap"}
      [] tool = "deposit" -> {"readOperator", "setOperator", "encrypt", "deposit"}
      [] OTHER -> {"encrypt", tool}

ToolSteps ==
    /\ call.at = "idle" <=> call = NoCall
    /\ call.at = "await" => call.tx \in Sending
    /\ call # NoCall => call.tool \in ToolNames /\ Where \in Steps(call.tool)

SeenTo ==
    /\ call.tool = "wrap" /\ Where = "mint" =>
         usdc[KeyAccount] + (IF Mined THEN 0 ELSE call.short) >= call.n
    /\ call.tool = "wrap" /\ Where \in {"readAllowance", "approve"} =>
         usdc[KeyAccount] >= call.n
    /\ call.tool = "wrap" /\ Where = "wrap" /\ ~Mined => usdc[KeyAccount] >= call.n
    /\ Where = "approve" /\ Mined => allowance[KeyAccount] >= call.n
    /\ Where = "wrap" /\ ~Mined => allowance[KeyAccount] >= call.n
    /\ call.tool = "deposit" /\ Where \in {"encrypt", "deposit"} => operator[KeyAccount]
    /\ Where = "setOperator" /\ Mined => operator[KeyAccount]

ToolHolds ==
    /\ ToolSteps
    /\ call # NoCall /\ <<"tool", KeyAccount>> \notin overtaken => SeenTo

\* USDC comes in only as `received`, so a record is paid only by what came in.
Backed(p, a) ==
    p.known =>
        /\ usdc[a] + p.got <= p.base + received[a]
        /\ seen[a]["usdc"] # Unread => seen[a]["usdc"] + p.got <= p.base + cashAt[a]

RecordsBacked ==
    /\ DOMAIN stored = Accounts
    /\ \A a \in Accounts :
         seen[a]["usdc"] # Unread => usdc[a] + cashAt[a] <= seen[a]["usdc"] + received[a]
    /\ \A a \in Accounts :
         stored[a] # Nobody => Record(stored[a]) /\ stored[a].who = a /\ Backed(stored[a], a)
    /\ pending # Nobody => Record(pending) /\ pending = stored[pending.who]
    /\ Busy /\ act.kind = "unwrap" => Backed(act, act.who)

IInv == /\ TypeOK /\ TheTabAwaitsOne /\ OnItsScreen /\ FiguresFollow /\ ButtonsHold
        /\ PressedMeansMoved /\ TheToolAwaitsOne /\ ToolHolds /\ RecordsBacked

-----------------------------------------------------------------------------
(* What a step of the chain does to the money                              *)

LEMMA Givens ==
  /\ Nobody \notin Accounts /\ Reconnected \in Accounts /\ KeyAccount \in Accounts
  /\ Unread \notin Handles /\ Typed \subseteq Nat /\ Faucet \in Nat /\ Amounts \subseteq Nat
  /\ MaxSteps \in Nat
BY TabAssumption, ToolsAssumption, WalletsAssumption

LEMMA HandleFields ==
  ASSUME NEW h \in Handles
  PROVE  h.holds \in Nat
BY DEF Handles

LEMMA FreshHandle ==
  ASSUME steps \in Nat, NEW a \in Accounts, NEW c \in Cells, NEW v \in Nat
  PROVE  Fresh(a, c, v) \in Handles /\ Fresh(a, c, v).holds = v
BY DEF Fresh, Handles

LEMMA ZeroHandle == ZERO \in Handles /\ ZERO.holds = 0
BY DEF ZERO, Handles

LEMMA Added ==
  ASSUME NEW f \in [Accounts -> Nat], NEW x \in Accounts, NEW n \in Nat
  PROVE  /\ [f EXCEPT ![x] = @ + n] \in [Accounts -> Nat]
         /\ \A b \in Accounts :
              [f EXCEPT ![x] = @ + n][b] = IF b = x THEN f[b] + n ELSE f[b]
         /\ \A b \in Accounts : f[b] <= [f EXCEPT ![x] = @ + n][b]
<1>1. ASSUME NEW b \in Accounts
      PROVE  f[b] \in Nat /\ f[b] + n \in Nat /\ f[b] <= f[b] + n
  OBVIOUS
<1>2. [f EXCEPT ![x] = @ + n] \in [Accounts -> Nat]
  BY <1>1
<1>3. \A b \in Accounts : [f EXCEPT ![x] = @ + n][b] = IF b = x THEN f[b] + n ELSE f[b]
  OBVIOUS
<1>4. \A b \in Accounts : f[b] <= [f EXCEPT ![x] = @ + n][b]
  <2> TAKE b \in Accounts
  <2>1. [f EXCEPT ![x] = @ + n][b] \in {f[b], f[b] + n} /\ f[b] \in Nat
    BY <1>3
  <2> QED BY <1>1, <2>1
<1> QED
  BY <1>1, <1>2, <1>3, <1>4

LEMMA WriteCell ==
  ASSUME NEW x \in Accounts, NEW c \in {"wallet", "pool"}, NEW v \in Nat, MoneyTypes
  PROVE  /\ Write(x, c, v) \in [Accounts -> [Cells -> Handles]]
         /\ Write(x, c, v)[x][c].holds = v
         /\ \A d \in Cells \ {c} : Write(x, c, v)[x][d] = cell[x][d]
         /\ \A b \in Accounts \ {x} : Write(x, c, v)[b] = cell[b]
         /\ \A b \in Accounts : Write(x, c, v)[b]["won"] = cell[b]["won"]
<1>1. PICK h : h = Fresh(x, c, v)
  OBVIOUS
<1>2. h \in Handles /\ h.holds = v
  BY <1>1, FreshHandle DEF Cells, MoneyTypes
<1>3. Write(x, c, v) = [cell EXCEPT ![x][c] = h]
  BY <1>1 DEF Write
<1> QED
  BY <1>2, <1>3 DEF MoneyTypes, Cells

LEMMA WriteCells ==
  ASSUME NEW x \in Accounts, NEW v \in Nat, NEW w \in Nat, MoneyTypes
  PROVE  /\ WriteBoth(x, v, w) \in [Accounts -> [Cells -> Handles]]
         /\ WriteBoth(x, v, w)[x]["wallet"].holds = v
         /\ WriteBoth(x, v, w)[x]["pool"].holds = w
         /\ \A b \in Accounts \ {x} : WriteBoth(x, v, w)[b] = cell[b]
         /\ \A b \in Accounts : WriteBoth(x, v, w)[b]["won"] = cell[b]["won"]
<1>1. PICK h : h = Fresh(x, "wallet", v)
  OBVIOUS
<1>2. PICK k : k = Fresh(x, "pool", w)
  OBVIOUS
<1>3. h \in Handles /\ h.holds = v /\ k \in Handles /\ k.holds = w
  BY <1>1, <1>2, FreshHandle DEF Cells, MoneyTypes
<1>4. WriteBoth(x, v, w) = [cell EXCEPT ![x]["wallet"] = h, ![x]["pool"] = k]
  BY <1>1, <1>2 DEF WriteBoth
<1> QED
  BY <1>3, <1>4 DEF MoneyTypes, Cells

\* Nothing of b is less than before.
NotWorse(b) ==
    /\ usdc[b] <= usdc'[b] /\ allowance[b] <= allowance'[b]
    /\ operator[b] => operator'[b]
    /\ cell[b]["wallet"].holds <= cell'[b]["wallet"].holds
    /\ cell[b]["pool"].holds + credit[b] <= cell'[b]["pool"].holds + credit'[b]

\* USDC that comes in is counted.
Counted(b) ==
    /\ received[b] <= received'[b]
    /\ usdc'[b] + received[b] <= usdc[b] + received'[b]

LEMMA SameMoney ==
  ASSUME MoneyTypes, UNCHANGED money
  PROVE  \A b \in Accounts : NotWorse(b) /\ Counted(b) /\ cell'[b]["won"] = cell[b]["won"]
<1> SUFFICES ASSUME NEW b \in Accounts
             PROVE  NotWorse(b) /\ Counted(b) /\ cell'[b]["won"] = cell[b]["won"]
  OBVIOUS
<1>1. /\ usdc[b] \in Nat /\ allowance[b] \in Nat /\ credit[b] \in Nat /\ received[b] \in Nat
      /\ \A c \in Cells : cell[b][c] \in Handles
  BY DEF MoneyTypes
<1>2. cell[b]["wallet"].holds \in Nat /\ cell[b]["pool"].holds \in Nat
  BY <1>1, HandleFields DEF Cells
<1> QED
  BY <1>1, <1>2 DEF NotWorse, Counted, money

\* What a mined transaction can do to account b.
LEMMA MineMoney ==
  ASSUME MoneyTypes, QueueTypes, NEW a \in Accounts, NEW liquid \in BOOLEAN, NEW W,
         Mine(a, liquid, W)
  PROVE  /\ MoneyTypes'
         /\ \A b \in Accounts :
              /\ Counted(b) /\ cell'[b]["won"] = cell[b]["won"]
              /\ \/ NotWorse(b)
                 \/ /\ Takes(Head(mempool[a])) /\ ~Refused(Head(mempool[a]))
                    /\ b \in {Head(mempool[a]).from, Head(mempool[a]).who}
<1> DEFINE tx == Head(mempool[a])
<1>1. tx \in Transactions /\ tx.from = a
  <2>1. mempool[a] \in Seq(Transactions) /\ mempool[a] # <<>>
    BY DEF QueueTypes, Mine
  <2>2. 1 \in 1..Len(mempool[a]) /\ tx = mempool[a][1]
    BY <2>1
  <2> QED BY <2>1, <2>2 DEF QueueTypes
<1>2. tx.who \in Accounts /\ tx.n \in Nat /\ tx.from \in Accounts
  BY <1>1 DEF Transactions
<1>3. steps' = steps + 1 /\ steps \in Nat /\ steps' \in Nat
  BY DEF Mine, Step, MoneyTypes
<1>4. \/ Refused(tx) /\ UNCHANGED money
      \/ ~Refused(tx) /\ (\/ Mint(tx) \/ Approve(tx) \/ Wrap(tx) \/ Unwrap(tx)
                          \/ SetOperator(tx) \/ Deposit(tx) \/ Withdraw(tx, liquid)
                          \/ Claim(tx))
  BY DEF Mine
<1> HIDE DEF tx
<1>5. \A b \in Accounts :
        /\ usdc[b] \in Nat /\ allowance[b] \in Nat /\ credit[b] \in Nat /\ received[b] \in Nat
        /\ operator[b] \in BOOLEAN /\ cell[b] \in [Cells -> Handles]
        /\ cell[b]["wallet"] \in Handles /\ cell[b]["pool"] \in Handles
        /\ cell[b]["wallet"].holds \in Nat /\ cell[b]["pool"].holds \in Nat
        /\ requests[b] \in Seq(Nat)
  BY HandleFields DEF MoneyTypes, Cells
<1>6. Drained(tx.who) \in Nat
  BY <1>2, <1>5 DEF Drained
<1> DEFINE Spared(b) == \/ NotWorse(b)
                        \/ Takes(tx) /\ ~Refused(tx) /\ b \in {tx.from, tx.who}
<1> SUFFICES /\ MoneyTypes'
             /\ \A b \in Accounts : Counted(b) /\ cell'[b]["won"] = cell[b]["won"] /\ Spared(b)
  BY DEF tx
<1>7. CASE UNCHANGED money
  <2>1. MoneyTypes'
    BY <1>3, <1>7 DEF MoneyTypes, money
  <2> QED BY <1>7, <2>1, SameMoney
<1>8. CASE Mint(tx)
  <2>0. /\ usdc \in [Accounts -> Nat] /\ usdc' = [usdc EXCEPT ![tx.who] = @ + tx.n]
        /\ received \in [Accounts -> Nat] /\ received' = [received EXCEPT ![tx.who] = @ + tx.n]
    BY <1>8 DEF Mint, MoneyTypes
  <2>1. MoneyTypes'
    <3>1. usdc' \in [Accounts -> Nat] /\ received' \in [Accounts -> Nat]
      BY <1>2, <2>0, Added
    <3> QED BY <1>3, <1>8, <3>1 DEF MoneyTypes, Mint
  <2>2. \A b \in Accounts : Counted(b) /\ NotWorse(b) /\ cell'[b]["won"] = cell[b]["won"]
    <3> TAKE b \in Accounts
    <3>1. /\ usdc'[b] = IF b = tx.who THEN usdc[b] + tx.n ELSE usdc[b]
          /\ received'[b] = IF b = tx.who THEN received[b] + tx.n ELSE received[b]
      BY <1>2, <2>0, Added
    <3>2. UNCHANGED <<allowance, operator, cell, credit>>
      BY <1>8 DEF Mint
    <3>3. usdc[b] \in Nat /\ received[b] \in Nat /\ tx.n \in Nat
      BY <1>2, <1>5
    <3>4. Counted(b) /\ usdc[b] <= usdc'[b]
      BY <3>1, <3>3 DEF Counted
    <3> QED BY <1>5, <3>2, <3>4 DEF NotWorse
  <2> QED BY <2>1, <2>2
<1>9. CASE Approve(tx)
  <2>1. MoneyTypes'
    BY <1>2, <1>3, <1>5, <1>9 DEF MoneyTypes, Approve
  <2>2. \A b \in Accounts : Counted(b) /\ Spared(b) /\ cell'[b]["won"] = cell[b]["won"]
    <3> TAKE b \in Accounts
    <3>1. allowance'[b] = IF b = tx.from THEN tx.n ELSE allowance[b]
      BY <1>2, <1>5, <1>9 DEF Approve, MoneyTypes
    <3>2. UNCHANGED <<usdc, operator, cell, credit, received>> /\ tx.kind = "approve"
      BY <1>9 DEF Approve
    <3>3. CASE b = tx.from /\ tx.n < allowance[b]
      BY <3>2, <3>3, <1>5 DEF Takes, Refused, Counted
    <3>4. CASE ~(b = tx.from /\ tx.n < allowance[b])
      <4>1. allowance[b] \in Nat /\ tx.n \in Nat
        BY <1>2, <1>5
      <4>2. allowance[b] <= allowance'[b]
        BY <3>1, <3>4, <4>1
      <4> QED BY <1>5, <3>2, <4>2 DEF Counted, NotWorse
    <3> QED BY <3>3, <3>4
  <2> QED BY <2>1, <2>2
<1>10. ASSUME ~Refused(tx), tx.kind \in {"wrap", "unwrap", "deposit", "withdraw"},
              MoneyTypes', received' = received,
              \A b \in Accounts : usdc'[b] <= usdc[b] /\ cell'[b]["won"] = cell[b]["won"],
              \A b \in Accounts : b \notin {tx.from, tx.who} =>
                 /\ usdc'[b] = usdc[b] /\ allowance'[b] = allowance[b]
                 /\ operator'[b] = operator[b] /\ credit'[b] = credit[b]
                 /\ cell'[b] = cell[b]
       PROVE  /\ MoneyTypes'
              /\ \A b \in Accounts : Counted(b) /\ cell'[b]["won"] = cell[b]["won"] /\ Spared(b)
  <2> SUFFICES ASSUME NEW b \in Accounts
               PROVE  Counted(b) /\ Spared(b)
    BY <1>10
  <2>1. Counted(b)
    <3>1. usdc'[b] \in Nat /\ usdc'[b] <= usdc[b] /\ received' = received
      BY <1>10 DEF MoneyTypes
    <3> QED BY <1>5, <3>1 DEF Counted
  <2>2. CASE b \in {tx.from, tx.who}
    BY <1>10, <2>1, <2>2 DEF Takes
  <2>3. CASE b \notin {tx.from, tx.who}
    BY <1>10, <1>5, <2>1, <2>3 DEF NotWorse
  <2> QED BY <2>2, <2>3
<1>11. CASE ~Refused(tx) /\ Wrap(tx)
  <2>1. /\ tx.kind = "wrap" /\ tx.n <= usdc[tx.from] /\ tx.n <= allowance[tx.from]
        /\ UNCHANGED <<operator, credit, requests, received>>
    BY <1>2, <1>5, <1>11 DEF Wrap, Refused
  <2>2. /\ usdc[tx.from] - tx.n \in Nat /\ allowance[tx.from] - tx.n \in Nat
        /\ usdc[tx.from] - tx.n <= usdc[tx.from]
    BY <1>2, <1>5, <2>1
  <2>3. /\ usdc' = [usdc EXCEPT ![tx.from] = @ - tx.n]
        /\ allowance' = [allowance EXCEPT ![tx.from] = @ - tx.n]
        /\ usdc \in [Accounts -> Nat] /\ allowance \in [Accounts -> Nat]
    BY <1>11 DEF Wrap, MoneyTypes
  <2>4. /\ usdc' \in [Accounts -> Nat] /\ allowance' \in [Accounts -> Nat]
    BY <1>2, <2>2, <2>3
  <2>41. \A b \in Accounts : usdc'[b] <= usdc[b]
    BY <1>2, <1>5, <2>2, <2>3
  <2>42. \A b \in Accounts : b # tx.from => usdc'[b] = usdc[b] /\ allowance'[b] = allowance[b]
    BY <2>3
  <2>5. PICK v \in Nat : v = cell[tx.who]["wallet"].holds + tx.n
    <3>1. cell[tx.who]["wallet"].holds \in Nat /\ tx.n \in Nat
      BY <1>2, <1>5
    <3> QED BY <3>1
  <2>6. cell' = Write(tx.who, "wallet", v)
    <3>1. cell' = Write(tx.who, "wallet", cell[tx.who]["wallet"].holds + tx.n)
      BY <1>11 DEF Wrap
    <3> QED BY <2>5, <3>1
  <2>8. /\ cell' \in [Accounts -> [Cells -> Handles]]
        /\ \A b \in Accounts : cell'[b]["won"] = cell[b]["won"]
        /\ \A b \in Accounts : b # tx.who => cell'[b] = cell[b]
    BY <1>2, <2>6, WriteCell
  <2>9. MoneyTypes'
    BY <1>3, <2>1, <2>4, <2>8 DEF MoneyTypes
  <2>10. \A b \in Accounts : b \notin {tx.from, tx.who} =>
            /\ usdc'[b] = usdc[b] /\ allowance'[b] = allowance[b]
            /\ operator'[b] = operator[b] /\ credit'[b] = credit[b]
            /\ cell'[b] = cell[b]
    <3>1. operator' = operator /\ credit' = credit
      BY <2>1
    <3>2. \A b \in Accounts : b # tx.who => cell'[b] = cell[b]
      BY <2>8
    <3>3. \A b \in Accounts : b # tx.from => usdc'[b] = usdc[b] /\ allowance'[b] = allowance[b]
      BY <2>42
    <3> QED BY <3>1, <3>2, <3>3
  <2>11. /\ received' = received /\ tx.kind \in {"wrap", "unwrap", "deposit", "withdraw"}
         /\ \A b \in Accounts : usdc'[b] <= usdc[b] /\ cell'[b]["won"] = cell[b]["won"]
    <3>1. \A b \in Accounts : usdc'[b] <= usdc[b]
      BY <2>41
    <3>2. \A b \in Accounts : cell'[b]["won"] = cell[b]["won"]
      BY <2>8
    <3> QED BY <2>1, <3>1, <3>2
  <2> QED BY <1>10, <1>11, <2>9, <2>10, <2>11
<1>12. \A l \in BOOLEAN :
         tx.kind \in {"unwrap", "deposit", "withdraw"} =>
           /\ Moved(tx, l) \in Nat
           /\ tx.kind # "withdraw" => Moved(tx, l) <= cell[tx.who]["wallet"].holds
           /\ tx.kind = "withdraw" => Moved(tx, l) <= Drained(tx.who)
  <2> SUFFICES ASSUME NEW l \in BOOLEAN, tx.kind \in {"unwrap", "deposit", "withdraw"}
               PROVE  /\ Moved(tx, l) \in Nat
                      /\ tx.kind # "withdraw" => Moved(tx, l) <= cell[tx.who]["wallet"].holds
                      /\ tx.kind = "withdraw" => Moved(tx, l) <= Drained(tx.who)
    OBVIOUS
  <2>1. cell[tx.who]["wallet"].holds \in Nat
    BY <1>2, <1>5
  <2>2. CASE tx.kind = "withdraw"
    BY <1>2, <1>6, <2>2 DEF Moved
  <2>3. CASE tx.kind # "withdraw"
    BY <1>2, <2>1, <2>3 DEF Moved
  <2> QED BY <2>2, <2>3
<1>13. CASE ~Refused(tx) /\ Unwrap(tx)
  <2> DEFINE m == Moved(tx, TRUE)
  <2>1. /\ UNCHANGED <<usdc, allowance, operator, credit, received>> /\ tx.kind = "unwrap"
        /\ cell' = Write(tx.who, "wallet", cell[tx.who]["wallet"].holds - m)
        /\ requests' = [requests EXCEPT ![tx.who] = Append(@, m)]
    BY <1>13 DEF Unwrap
  <2>2. cell[tx.who]["wallet"].holds - m \in Nat /\ m \in Nat
    <3>1. m \in Nat /\ m <= cell[tx.who]["wallet"].holds
      BY <1>12, <2>1
    <3>2. cell[tx.who]["wallet"].holds \in Nat
      BY <1>2, <1>5
    <3> HIDE DEF m
    <3> QED BY <3>1, <3>2
  <2> HIDE DEF m
  <2>3. /\ cell' \in [Accounts -> [Cells -> Handles]]
        /\ \A b \in Accounts : cell'[b]["won"] = cell[b]["won"]
        /\ \A b \in Accounts : b # tx.who => cell'[b] = cell[b]
    <3>1. PICK v \in Nat : v = cell[tx.who]["wallet"].holds - m
      BY <2>2
    <3>2. cell' = Write(tx.who, "wallet", v)
      BY <2>1, <3>1
    <3> QED BY <1>2, <3>2, WriteCell
  <2>4. MoneyTypes'
    <3>1. requests' \in [Accounts -> Seq(Nat)]
      BY <1>2, <2>1, <2>2 DEF MoneyTypes
    <3> QED BY <1>3, <2>1, <2>3, <3>1 DEF MoneyTypes
  <2>5. /\ received' = received /\ tx.kind \in {"wrap", "unwrap", "deposit", "withdraw"}
        /\ \A b \in Accounts : usdc'[b] <= usdc[b] /\ cell'[b]["won"] = cell[b]["won"]
    <3>1. \A b \in Accounts : usdc'[b] <= usdc[b]
      BY <1>5, <2>1
    <3>2. \A b \in Accounts : cell'[b]["won"] = cell[b]["won"]
      BY <2>3
    <3> QED BY <2>1, <3>1, <3>2
  <2>6. \A b \in Accounts : b \notin {tx.from, tx.who} =>
            /\ usdc'[b] = usdc[b] /\ allowance'[b] = allowance[b]
            /\ operator'[b] = operator[b] /\ credit'[b] = credit[b]
            /\ cell'[b] = cell[b]
    BY <2>1, <2>3
  <2> QED BY <1>10, <1>13, <2>4, <2>5, <2>6
<1>14. CASE SetOperator(tx)
  <2>1. /\ UNCHANGED <<usdc, allowance, cell, credit, requests, received>>
        /\ operator' = [operator EXCEPT ![tx.from] = TRUE]
    BY <1>14 DEF SetOperator
  <2>2. MoneyTypes'
    BY <1>2, <1>3, <2>1 DEF MoneyTypes
  <2>3. \A b \in Accounts : Counted(b) /\ NotWorse(b) /\ cell'[b]["won"] = cell[b]["won"]
    <3> TAKE b \in Accounts
    <3>1. operator[b] => operator'[b]
      BY <1>2, <2>1 DEF MoneyTypes
    <3> QED BY <1>5, <2>1, <3>1 DEF Counted, NotWorse
  <2> QED BY <2>2, <2>3
<1>15. CASE ~Refused(tx) /\ Deposit(tx)
  <2> DEFINE m == Moved(tx, TRUE)
  <2>1. /\ UNCHANGED <<usdc, allowance, operator, requests, received>> /\ tx.kind = "deposit"
        /\ cell' = WriteBoth(tx.who, cell[tx.who]["wallet"].holds - m, Drained(tx.who) + m)
        /\ credit' = [credit EXCEPT ![tx.who] = 0]
    BY <1>15 DEF Deposit
  <2>2. cell[tx.who]["wallet"].holds - m \in Nat /\ Drained(tx.who) + m \in Nat
    <3>1. m \in Nat /\ m <= cell[tx.who]["wallet"].holds
      BY <1>12, <2>1
    <3>2. cell[tx.who]["wallet"].holds \in Nat
      BY <1>2, <1>5
    <3> HIDE DEF m
    <3> QED BY <1>6, <3>1, <3>2
  <2> HIDE DEF m
  <2>3. /\ cell' \in [Accounts -> [Cells -> Handles]]
        /\ \A b \in Accounts : cell'[b]["won"] = cell[b]["won"]
        /\ \A b \in Accounts : b # tx.who => cell'[b] = cell[b]
    <3>1. PICK v \in Nat, w \in Nat : cell' = WriteBoth(tx.who, v, w)
      BY <2>1, <2>2
    <3>2. \A b \in Accounts \ {tx.who} : cell'[b] = cell[b]
      BY <1>2, <3>1, WriteCells
    <3> QED BY <1>2, <3>1, <3>2, WriteCells
  <2>4. MoneyTypes'
    BY <1>2, <1>3, <2>1, <2>3 DEF MoneyTypes
  <2>5. /\ received' = received /\ tx.kind \in {"wrap", "unwrap", "deposit", "withdraw"}
        /\ \A b \in Accounts : usdc'[b] <= usdc[b] /\ cell'[b]["won"] = cell[b]["won"]
    <3>1. \A b \in Accounts : usdc'[b] <= usdc[b]
      BY <1>5, <2>1
    <3>2. \A b \in Accounts : cell'[b]["won"] = cell[b]["won"]
      BY <2>3
    <3> QED BY <2>1, <3>1, <3>2
  <2>6. \A b \in Accounts : b \notin {tx.from, tx.who} =>
            /\ usdc'[b] = usdc[b] /\ allowance'[b] = allowance[b]
            /\ operator'[b] = operator[b] /\ credit'[b] = credit[b]
            /\ cell'[b] = cell[b]
    BY <1>2, <2>1, <2>3 DEF MoneyTypes
  <2> QED BY <1>10, <1>15, <2>4, <2>5, <2>6
<1>16. CASE ~Refused(tx) /\ Withdraw(tx, liquid)
  <2> DEFINE m == Moved(tx, liquid)
  <2>1. /\ UNCHANGED <<usdc, allowance, operator, requests, received>> /\ tx.kind = "withdraw"
        /\ cell' = WriteBoth(tx.who, cell[tx.who]["wallet"].holds + m, Drained(tx.who) - m)
        /\ credit' = [credit EXCEPT ![tx.who] = 0]
    BY <1>16 DEF Withdraw
  <2>2. cell[tx.who]["wallet"].holds + m \in Nat /\ Drained(tx.who) - m \in Nat
    <3>1. m \in Nat /\ m <= Drained(tx.who)
      BY <1>12, <2>1
    <3>2. cell[tx.who]["wallet"].holds \in Nat
      BY <1>2, <1>5
    <3> HIDE DEF m
    <3> QED BY <1>6, <3>1, <3>2
  <2> HIDE DEF m
  <2>3. /\ cell' \in [Accounts -> [Cells -> Handles]]
        /\ \A b \in Accounts : cell'[b]["won"] = cell[b]["won"]
        /\ \A b \in Accounts : b # tx.who => cell'[b] = cell[b]
    <3>1. PICK v \in Nat, w \in Nat : cell' = WriteBoth(tx.who, v, w)
      BY <2>1, <2>2
    <3>2. \A b \in Accounts \ {tx.who} : cell'[b] = cell[b]
      BY <1>2, <3>1, WriteCells
    <3> QED BY <1>2, <3>1, <3>2, WriteCells
  <2>4. MoneyTypes'
    BY <1>2, <1>3, <2>1, <2>3 DEF MoneyTypes
  <2>5. /\ received' = received /\ tx.kind \in {"wrap", "unwrap", "deposit", "withdraw"}
        /\ \A b \in Accounts : usdc'[b] <= usdc[b] /\ cell'[b]["won"] = cell[b]["won"]
    <3>1. \A b \in Accounts : usdc'[b] <= usdc[b]
      BY <1>5, <2>1
    <3>2. \A b \in Accounts : cell'[b]["won"] = cell[b]["won"]
      BY <2>3
    <3> QED BY <2>1, <3>1, <3>2
  <2>6. \A b \in Accounts : b \notin {tx.from, tx.who} =>
            /\ usdc'[b] = usdc[b] /\ allowance'[b] = allowance[b]
            /\ operator'[b] = operator[b] /\ credit'[b] = credit[b]
            /\ cell'[b] = cell[b]
    BY <1>2, <2>1, <2>3 DEF MoneyTypes
  <2> QED BY <1>10, <1>16, <2>4, <2>5, <2>6
<1>17. CASE Claim(tx)
  <2>1. /\ UNCHANGED <<usdc, allowance, operator, requests, received>>
        /\ cell' = Write(tx.who, "pool", Drained(tx.who))
        /\ credit' = [credit EXCEPT ![tx.who] = 0]
    BY <1>17 DEF Claim
  <2>2. /\ cell' \in [Accounts -> [Cells -> Handles]]
        /\ \A b \in Accounts : cell'[b]["won"] = cell[b]["won"]
        /\ \A b \in Accounts : b # tx.who => cell'[b] = cell[b]
        /\ cell'[tx.who]["wallet"] = cell[tx.who]["wallet"]
        /\ cell'[tx.who]["pool"].holds = Drained(tx.who)
    BY <1>2, <1>6, <2>1, WriteCell DEF Cells
  <2>3. MoneyTypes'
    BY <1>2, <1>3, <2>1, <2>2 DEF MoneyTypes
  <2>4. \A b \in Accounts : Counted(b) /\ NotWorse(b)
    <3> TAKE b \in Accounts
    <3>1. credit'[b] = IF b = tx.who THEN 0 ELSE credit[b]
      BY <1>2, <2>1 DEF MoneyTypes
    <3>2. CASE b = tx.who
      <4>1. /\ cell'[b]["pool"].holds = cell[b]["pool"].holds + credit[b] /\ credit'[b] = 0
            /\ cell[b]["pool"].holds \in Nat /\ credit[b] \in Nat
        BY <1>5, <2>2, <3>1, <3>2 DEF Drained
      <4>2. cell[b]["pool"].holds + credit[b] <= cell'[b]["pool"].holds + credit'[b]
        BY <4>1
      <4> QED BY <1>5, <2>1, <2>2, <3>2, <4>2 DEF Counted, NotWorse
    <3>3. CASE b # tx.who
      BY <1>5, <2>1, <2>2, <3>1, <3>3 DEF Counted, NotWorse
    <3> QED BY <3>2, <3>3
  <2> QED BY <2>2, <2>3, <2>4
<1> QED
  BY <1>4, <1>7, <1>8, <1>9, <1>11, <1>13, <1>14, <1>15, <1>16, <1>17

-----------------------------------------------------------------------------
(* What a step does to the queues                                          *)

LEMMA QueueFacts ==
  ASSUME QueueTypes, NEW b \in Accounts
  PROVE  /\ mempool[b] \in Seq(Transactions) /\ Len(mempool[b]) \in Nat
         /\ \A j \in 1..Len(mempool[b]) : mempool[b][j] \in Transactions /\ mempool[b][j].from = b
<1>1. mempool[b] \in Seq(Transactions)
  BY DEF QueueTypes
<1>2. Len(mempool[b]) \in Nat
  BY <1>1
<1>3. \A j \in 1..Len(mempool[b]) : mempool[b][j] \in Transactions
  BY <1>1
<1> QED
  BY <1>1, <1>2, <1>3 DEF QueueTypes

\* The positions of what is left once the head of one queue is mined.
LEMMA MineQueue ==
  ASSUME QueueTypes, NEW a \in Accounts, NEW liquid \in BOOLEAN, NEW W, Mine(a, liquid, W)
  PROVE  /\ QueueTypes'
         /\ 1 \in 1..Len(mempool[a]) /\ Head(mempool[a]) = mempool[a][1]
         /\ \A b \in Accounts : b # a => mempool'[b] = mempool[b]
         /\ Len(mempool'[a]) = Len(mempool[a]) - 1
         /\ \A j \in 1..Len(mempool'[a]) :
              j + 1 \in 1..Len(mempool[a]) /\ mempool'[a][j] = mempool[a][j + 1]
         /\ \A x \in Actors :
              /\ mempool[a][1].by = x => receipt'[x] = Outcome(mempool[a][1], liquid)
              /\ mempool[a][1].by # x => receipt'[x] = receipt[x]
<1> DEFINE q == mempool[a]
<1>1. q \in Seq(Transactions) /\ q # <<>> /\ mempool' = [mempool EXCEPT ![a] = Tail(q)]
  BY DEF QueueTypes, Mine
<1>2. /\ Len(q) \in Nat /\ Len(q) >= 1 /\ Head(q) = q[1]
      /\ Tail(q) \in Seq(Transactions) /\ Len(Tail(q)) = Len(q) - 1
      /\ \A j \in 1..Len(Tail(q)) : Tail(q)[j] = q[j + 1]
  BY <1>1
<1>3. mempool'[a] = Tail(q) /\ \A b \in Accounts : b # a => mempool'[b] = mempool[b]
  BY <1>1 DEF QueueTypes
<1>4. mempool' \in [Accounts -> Seq(Transactions)]
  BY <1>1, <1>2 DEF QueueTypes
<1>5. \A j \in 1..Len(mempool'[a]) :
        j + 1 \in 1..Len(q) /\ mempool'[a][j] = q[j + 1]
  BY <1>2, <1>3
<1>6. \A b \in Accounts : \A j \in 1..Len(mempool'[b]) : mempool'[b][j].from = b
  <2> SUFFICES ASSUME NEW b \in Accounts, NEW j \in 1..Len(mempool'[b])
               PROVE  mempool'[b][j].from = b
    OBVIOUS
  <2>1. CASE b # a
    BY <1>3, <2>1 DEF QueueTypes
  <2>2. CASE b = a
    <3>1. j + 1 \in 1..Len(q) /\ mempool'[a][j] = q[j + 1]
      BY <1>5, <2>2
    <3> QED BY <2>2, <3>1, QueueFacts
  <2> QED BY <2>1, <2>2
<1>7. receipt' = IF q[1].by \in Actors
                 THEN [receipt EXCEPT ![q[1].by] = Outcome(q[1], liquid)] ELSE receipt
  BY <1>2 DEF Mine
<1>8. Outcome(q[1], liquid) \in Outcomes
  BY DEF Outcome, Outcomes
<1>9. receipt' \in [Actors -> Outcomes \union {"none"}]
  BY <1>7, <1>8 DEF QueueTypes
<1>10. \A x \in Actors :
         /\ q[1].by = x => receipt'[x] = Outcome(q[1], liquid)
         /\ q[1].by # x => receipt'[x] = receipt[x]
  BY <1>7 DEF QueueTypes
<1>11. QueueTypes'
  BY <1>4, <1>6, <1>9 DEF QueueTypes
<1> QED
  BY <1>2, <1>3, <1>5, <1>10, <1>11

LEMMA SendQueue ==
  ASSUME QueueTypes, NEW a \in Accounts, NEW tx \in Transactions, tx.from = a, SendTx(a, tx)
  PROVE  /\ QueueTypes' /\ receipt' = receipt
         /\ \A b \in Accounts : b # a => mempool'[b] = mempool[b]
         /\ Len(mempool'[a]) = Len(mempool[a]) + 1
         /\ mempool'[a][Len(mempool[a]) + 1] = tx
         /\ \A j \in 1..Len(mempool[a]) : mempool'[a][j] = mempool[a][j]
<1>1. mempool' = [mempool EXCEPT ![a] = Append(mempool[a], tx)] /\ receipt' = receipt
  BY DEF SendTx
<1>2. mempool[a] \in Seq(Transactions) /\ mempool \in [Accounts -> Seq(Transactions)]
  BY DEF QueueTypes
<1>3. /\ Append(mempool[a], tx) \in Seq(Transactions) /\ Len(mempool[a]) \in Nat
      /\ Len(Append(mempool[a], tx)) = Len(mempool[a]) + 1
      /\ Append(mempool[a], tx)[Len(mempool[a]) + 1] = tx
      /\ \A j \in 1..Len(mempool[a]) : Append(mempool[a], tx)[j] = mempool[a][j]
  BY <1>2
<1>4. /\ mempool'[a] = Append(mempool[a], tx)
      /\ \A b \in Accounts : b # a => mempool'[b] = mempool[b]
      /\ mempool' \in [Accounts -> Seq(Transactions)]
  BY <1>1, <1>2, <1>3
<1>5. \A b \in Accounts : \A j \in 1..Len(mempool'[b]) : mempool'[b][j].from = b
  <2> SUFFICES ASSUME NEW b \in Accounts, NEW j \in 1..Len(mempool'[b])
               PROVE  mempool'[b][j].from = b
    OBVIOUS
  <2>1. CASE b # a
    BY <1>4, <2>1 DEF QueueTypes
  <2>2. CASE b = a /\ j = Len(mempool[a]) + 1
    BY <1>3, <1>4, <2>2
  <2>3. CASE b = a /\ j # Len(mempool[a]) + 1
    <3>1. j \in 1..Len(mempool[a])
      BY <1>3, <1>4, <2>3
    <3> QED BY <1>3, <1>4, <2>3, <3>1 DEF QueueTypes
  <2> QED BY <2>1, <2>2, <2>3
<1> QED
  BY <1>1, <1>3, <1>4, <1>5 DEF QueueTypes

LEMMA AbandonQueue ==
  ASSUME QueueTypes, NEW x \in Actors, Abandons(x), receipt' = receipt
  PROVE  /\ QueueTypes'
         /\ \A b \in Accounts :
              /\ Len(mempool'[b]) = Len(mempool[b])
              /\ \A j \in 1..Len(mempool[b]) :
                   mempool'[b][j] = IF mempool[b][j].by = x
                                    THEN [mempool[b][j] EXCEPT !.by = "nobody"]
                                    ELSE mempool[b][j]
<1> DEFINE Left(b, j) == IF mempool[b][j].by = x
                         THEN [mempool[b][j] EXCEPT !.by = "nobody"] ELSE mempool[b][j]
<1>1. mempool' = [b \in Accounts |-> [j \in 1..Len(mempool[b]) |-> Left(b, j)]]
  BY DEF Abandons
<1>2. ASSUME NEW b \in Accounts, NEW j \in 1..Len(mempool[b])
      PROVE  Left(b, j) \in Transactions /\ Left(b, j).from = b
  <2>1. mempool[b][j] \in Transactions /\ mempool[b][j].from = b
    BY QueueFacts
  <2> QED BY <2>1 DEF Transactions
<1> HIDE DEF Left
<1>3. ASSUME NEW b \in Accounts
      PROVE  /\ mempool'[b] \in Seq(Transactions) /\ Len(mempool'[b]) = Len(mempool[b])
             /\ \A j \in 1..Len(mempool[b]) : mempool'[b][j] = Left(b, j)
  <2>1. mempool'[b] = [j \in 1..Len(mempool[b]) |-> Left(b, j)] /\ Len(mempool[b]) \in Nat
    BY <1>1, QueueFacts
  <2> QED BY <1>2, <2>1
<1>4. mempool' \in [Accounts -> Seq(Transactions)]
  BY <1>1, <1>3
<1>5. \A b \in Accounts : \A j \in 1..Len(mempool'[b]) : mempool'[b][j].from = b
  BY <1>2, <1>3
<1>6. QueueTypes'
  BY <1>4, <1>5 DEF QueueTypes
<1> QED
  BY <1>3, <1>6 DEF Left

-----------------------------------------------------------------------------
(* What the steps off the chain leave alone, and what they send            *)

\* What ends with time: an account's grant to the pool, the pool's to its source.
Lapses == SourceEnds \/ \E a \in Accounts : OperatorEnds(a, Depositing)

LEMMA LapsesTakeNothing ==
  ASSUME MoneyTypes, Lapses
  PROVE  /\ UNCHANGED <<usdc, allowance, cell, credit, requests, received, mempool, receipt>>
         /\ operator' \in [Accounts -> BOOLEAN] /\ steps' \in Nat
         /\ overtaken \subseteq overtaken' /\ (sourceLive' => sourceLive)
         /\ \A x \in Depositing, b \in Accounts :
              <<x, b>> \notin overtaken' => operator'[b] = operator[b]
<1>1. CASE SourceEnds
  BY <1>1 DEF SourceEnds, MoneyTypes, Step
<1>2. ASSUME NEW a \in Accounts, OperatorEnds(a, Depositing)
      PROVE  /\ UNCHANGED <<usdc, allowance, cell, credit, requests, received, mempool, receipt>>
             /\ operator' \in [Accounts -> BOOLEAN] /\ steps' \in Nat
             /\ overtaken \subseteq overtaken' /\ sourceLive' = sourceLive
             /\ \A x \in Depositing, b \in Accounts :
                  <<x, b>> \notin overtaken' => operator'[b] = operator[b]
  <2>1. /\ UNCHANGED <<usdc, allowance, cell, credit, requests, received, mempool, receipt>>
        /\ operator' = [operator EXCEPT ![a] = FALSE] /\ sourceLive' = sourceLive
        /\ overtaken' = overtaken \union (Depositing \X {a})
    BY <1>2 DEF OperatorEnds
  <2>2. operator' \in [Accounts -> BOOLEAN] /\ steps' \in Nat
    BY <1>2, <2>1 DEF OperatorEnds, MoneyTypes, Step
  <2>3. ASSUME NEW x \in Depositing, NEW b \in Accounts, <<x, b>> \notin overtaken'
        PROVE  operator'[b] = operator[b]
    <3>1. b # a
      BY <2>1, <2>3
    <3> QED BY <2>1, <3>1 DEF MoneyTypes
  <2> QED BY <2>1, <2>2, <2>3
<1> QED
  BY <1>1, <1>2 DEF Lapses

LEMMA OffChain ==
  ASSUME MoneyTypes, Tab \/ Tool
  PROVE  UNCHANGED money /\ MoneyTypes'
<1>1. UNCHANGED money
  BY DEF Tab, Tool, Connect, Disconnect, Go, Read, GrantPermit, Decrypt, Press, Confirm, Fail,
         Done, GiveUp, Dismiss, Call, ReadHeld, ReadAllowance, ReadOperator, Encrypt, Send,
         Awaited, SentAgain, CallFails, Position, SendTx, chainVars, walletVars
<1>2. steps' \in {steps, steps + 1}
  BY DEF Tab, Tool, Connect, Disconnect, Go, Read, GrantPermit, Decrypt, Press, Confirm, Fail,
         Done, GiveUp, Dismiss, Call, ReadHeld, ReadAllowance, ReadOperator, Encrypt, Send,
         Awaited, SentAgain, CallFails, Position, walletVars, Step
<1> QED
  BY <1>1, <1>2 DEF MoneyTypes, money

LEMMA AskedIsSent ==
  ASSUME ActTypes, who \in Accounts, act.phase = "wallet"
  PROVE  /\ Asked \in Transactions /\ Asked.from = who
         /\ Asked.by \in {"tab", "nobody"}
         /\ Asked.by = "tab" => /\ Asked.kind = (IF act.kind = "fund" THEN "wrap" ELSE act.kind)
                                /\ Asked.n = act.n /\ Asked.who = act.who
         /\ Asked.by = "nobody" =>
              /\ act.kind = "fund"
              /\ \/ /\ act.asked = 0 /\ Asked.kind = "mint"
                    /\ Asked.n = act.n /\ Asked.who = act.who
                 \/ /\ act.asked = 1 /\ Asked.kind = "approve"
                    /\ Asked.n = act.n /\ Asked.who = who
         /\ Asked.by = "tab" /\ act.kind = "fund" => act.asked \notin {0, 1}
<1>1. act.who \in Accounts /\ act.kind \in Kinds /\ act.n \in Nat
  BY DEF ActTypes, Busy
<1>2. CASE act.kind = "fund" /\ act.asked = 0
  BY <1>1, <1>2 DEF Asked, Tx, Transactions, Kinds
<1>3. CASE act.kind = "fund" /\ act.asked = 1
  BY <1>1, <1>3 DEF Asked, Tx, Transactions, Kinds
<1>4. CASE act.kind = "fund" /\ act.asked = 2
  BY <1>1, <1>4 DEF Asked, Tx, Transactions, Kinds, Actors
<1>5. CASE act.kind # "fund"
  BY <1>1, <1>5 DEF Asked, Tx, Transactions, Kinds, Actors
<1> QED
  BY <1>2, <1>3, <1>4, <1>5 DEF ActTypes

LEMMA ToolTxIsSent ==
  ASSUME ToolTypes, NEW by \in {"tool", "nobody"}, call.at \in Sending
  PROVE  /\ ToolTx(by) \in Transactions /\ ToolTx(by).from = KeyAccount
         /\ ToolTx(by).by = by /\ ToolTx(by).kind = call.at /\ ToolTx(by).who = KeyAccount
         /\ ToolTx(by).n = (CASE call.at = "mint" -> call.short
                              [] call.at = "setOperator" -> 0 [] OTHER -> call.n)
BY Givens DEF ToolTypes, ToolTx, Tx, Transactions, Sending, Kinds, Actors

LEMMA QueueTypesKept ==
  ASSUME QueueTypes, ActTypes, TabTypes, ToolTypes, Next
  PROVE  QueueTypes'
<1>1. CASE Chain
  <2>1. ASSUME NEW a \in Accounts, NEW liquid \in BOOLEAN, Mine(a, liquid, Watching)
        PROVE  QueueTypes'
    BY <2>1, MineQueue
  <2>2. ASSUME NEW a \in Accounts, Finalize(a) \/ Accrued(a) \/ Spend(a, Watching)
        PROVE  QueueTypes'
    BY <2>2 DEF Finalize, Accrued, Spend, QueueTypes
  <2>3. CASE Lapses
    BY <2>3 DEF Lapses, OperatorEnds, SourceEnds, QueueTypes
  <2> QED BY <1>1, <2>1, <2>2, <2>3 DEF Chain, Lapses
<1>2. CASE UNCHANGED <<mempool, receipt>>
  BY <1>2 DEF QueueTypes
<1>3. CASE Confirm
  <2>1. who \in Accounts /\ act.phase = "wallet" /\ SendTx(who, Asked)
    BY <1>3 DEF Confirm, TabTypes
  <2> QED BY <2>1, AskedIsSent, SendQueue
<1>4. CASE Done
  BY <1>4 DEF Done, TakesReceipt, QueueTypes, Actors
<1>5. CASE GiveUp
  BY <1>5, AbandonQueue DEF GiveUp, Actors
<1>6. CASE Send
  <2>1. call.at \in Sending /\ SendTx(KeyAccount, ToolTx("tool"))
    BY <1>6 DEF Send
  <2> QED BY <2>1, ToolTxIsSent, SendQueue, Givens
<1>7. CASE SentAgain
  <2>1. call.at \in Sending /\ SendTx(KeyAccount, ToolTx("nobody"))
    BY <1>7 DEF SentAgain, Sending
  <2> QED BY <2>1, ToolTxIsSent, SendQueue, Givens
<1>8. CASE Awaited
  BY <1>8 DEF Awaited, TakesReceipt, QueueTypes, Actors
<1>9. \/ Chain \/ UNCHANGED <<mempool, receipt>> \/ Confirm \/ Done \/ GiveUp \/ Send
      \/ SentAgain \/ Awaited
  BY DEF Next, Tab, Tool, Connect, Disconnect, Go, Read, GrantPermit, Decrypt, Press, Fail,
         Dismiss, Call, ReadHeld, ReadAllowance, ReadOperator, Encrypt,
         CallFails, Position, chainVars, walletVars
<1> QED
  BY <1>1, <1>2, <1>3, <1>4, <1>5, <1>6, <1>7, <1>8, <1>9

LEMMA EnteredIsNatural ==
  ASSUME MoneyTypes, TabTypes, who \in Accounts, NEW kind
  PROVE  Entered(kind) \subseteq Nat /\ Cash \in Nat
<1>1. Cash \in Nat
  BY DEF Cash, TabTypes
<1>2. ASSUME NEW c \in Cells, NEW h \in {seen[who][c]} \intersect opened
      PROVE  ClearOf(h) \in Nat
  BY HandleFields DEF ClearOf, TabTypes
<1>3. {ClearOf(h) : h \in {seen[who]["wallet"]} \intersect opened} \subseteq Nat
  BY <1>2 DEF Cells
<1>4. {ClearOf(h) : h \in {seen[who]["pool"]} \intersect opened} \subseteq Nat
  BY <1>2 DEF Cells
<1>5. Entered(kind) \subseteq Nat
  BY <1>1, <1>3, <1>4, Givens DEF Entered
<1> QED
  BY <1>1, <1>5

LEMMA TabTypesKept ==
  ASSUME MoneyTypes, QueueTypes, TabTypes, Next
  PROVE  TabTypes'
<1>1. CASE Chain
  <2>1. UNCHANGED <<who, screen, seen, opened, cashAt>>
    BY <1>1 DEF Chain, Misses
  <2>2. \A b \in Accounts : received[b] <= received'[b] /\ received'[b] \in Nat
    <3>1. ASSUME NEW a \in Accounts, NEW liquid \in BOOLEAN, Mine(a, liquid, Watching)
          PROVE  \A b \in Accounts : received[b] <= received'[b] /\ received'[b] \in Nat
      BY <3>1, MineMoney DEF Counted, MoneyTypes
    <3>2. ASSUME NEW a \in Accounts, Finalize(a)
          PROVE  \A b \in Accounts : received[b] <= received'[b] /\ received'[b] \in Nat
      <4>1. Head(requests[a]) \in Nat
        <5>1. requests[a] \in Seq(Nat) /\ requests[a] # <<>>
          BY <3>2 DEF Finalize, MoneyTypes
        <5> QED BY <5>1
      <4>2. PICK n \in Nat : received' = [received EXCEPT ![a] = @ + n]
        BY <3>2, <4>1 DEF Finalize
      <4> QED BY <4>2, Added DEF MoneyTypes
    <3>3. ASSUME NEW a \in Accounts, Accrued(a) \/ Spend(a, Watching)
          PROVE  \A b \in Accounts : received[b] <= received'[b] /\ received'[b] \in Nat
      BY <3>3 DEF Accrued, Spend, MoneyTypes
    <3>4. CASE Lapses
      BY <3>4, LapsesTakeNothing DEF MoneyTypes
    <3> QED BY <1>1, <3>1, <3>2, <3>3, <3>4 DEF Chain, Lapses
  <2>3. \A b \in Accounts : cashAt[b] \in Nat /\ cashAt[b] <= received[b] /\ received[b] \in Nat
    BY DEF TabTypes, MoneyTypes
  <2>4. \A b \in Accounts : cashAt'[b] <= received'[b]
    BY <2>1, <2>2, <2>3
  <2> QED BY <2>1, <2>4 DEF TabTypes
<1>2. CASE Tool /\ UNCHANGED tabVars
  BY <1>2, OffChain DEF TabTypes, tabVars, money
<1>3. CASE Tab
  <2>1. received' = received
    BY <1>3, OffChain DEF money
  <2>2. CASE Read
    <3> DEFINE fields == IF toRead # {} THEN toRead ELSE {"usdc"}
    <3>1. /\ who \in Accounts
          /\ seen' = [seen EXCEPT ![who] =
                        [f \in Fields |-> IF f \in fields THEN OnChain(who, f) ELSE seen[who][f]]]
          /\ cashAt' = IF "usdc" \in fields THEN [cashAt EXCEPT ![who] = received[who]]
                       ELSE cashAt
          /\ UNCHANGED <<who, screen, opened>>
      BY <2>2 DEF Read, TabTypes
    <3> HIDE DEF fields
    <3>2. \A b \in Accounts : b # who => seen'[b] = seen[b]
      BY <3>1 DEF TabTypes
    <3>3. seen'[who] = [f \in Fields |-> IF f \in fields THEN OnChain(who, f) ELSE seen[who][f]]
      BY <3>1 DEF TabTypes
    <3>4. /\ OnChain(who, "usdc") \in Nat /\ OnChain(who, "allowance") \in Nat
          /\ \A c \in Cells : OnChain(who, c) \in Handles
      BY <3>1 DEF OnChain, MoneyTypes, Cells
    <3>5. /\ seen'[who] = [f \in Fields |-> seen'[who][f]]
          /\ \A f \in {"usdc", "allowance"} : seen'[who][f] \in Nat \union {Unread}
          /\ \A c \in Cells : seen'[who][c] \in Handles \union {Unread}
      BY <3>1, <3>3, <3>4 DEF TabTypes, Fields, Cells
    <3>6. DOMAIN seen' = Accounts
      BY <3>1 DEF TabTypes
    <3>7. \A b \in Accounts :
            /\ seen'[b] = [f \in Fields |-> seen'[b][f]]
            /\ \A f \in {"usdc", "allowance"} : seen'[b][f] \in Nat \union {Unread}
            /\ \A c \in Cells : seen'[b][c] \in Handles \union {Unread}
      <4> TAKE b \in Accounts
      <4>1. CASE b = who
        BY <3>5, <4>1
      <4>2. CASE b # who
        BY <3>2, <4>2 DEF TabTypes
      <4> QED BY <4>1, <4>2
    <3>8. cashAt' \in [Accounts -> Nat] /\ \A b \in Accounts : cashAt'[b] <= received[b]
      BY <3>1 DEF TabTypes, MoneyTypes
    <3> QED BY <2>1, <3>1, <3>6, <3>7, <3>8 DEF TabTypes
  <2>3. CASE Decrypt
    <3>1. opened' \subseteq opened \union Handles
      BY <2>3 DEF Decrypt, Permitted, TabTypes
    <3> QED BY <2>1, <2>3, <3>1 DEF Decrypt, TabTypes
  <2>4. CASE \E a \in Accounts : Connect(a)
    BY <2>1, <2>4 DEF Connect, TabTypes
  <2>5. CASE Disconnect
    BY <2>1, <2>5 DEF Disconnect, TabTypes
  <2>6. CASE \E s \in Screens : Go(s)
    BY <2>1, <2>6 DEF Go, TabTypes
  <2>7. CASE UNCHANGED <<who, screen, seen, opened, cashAt>>
    BY <2>1, <2>7 DEF TabTypes
  <2>8. \/ Read \/ Decrypt \/ (\E a \in Accounts : Connect(a)) \/ Disconnect
        \/ (\E s \in Screens : Go(s)) \/ UNCHANGED <<who, screen, seen, opened, cashAt>>
    BY <1>3 DEF Tab, GrantPermit, Press, Confirm, Fail, Done, GiveUp, Dismiss, Ended
  <2> QED BY <2>2, <2>3, <2>4, <2>5, <2>6, <2>7, <2>8
<1> QED
  BY <1>1, <1>2, <1>3 DEF Next

LEMMA ActTypesKept ==
  ASSUME MoneyTypes, TabTypes, ActTypes, Next
  PROVE  ActTypes'
<1>1. CASE UNCHANGED act
  BY <1>1 DEF ActTypes, Busy
<1>2. CASE act' = Idle
  BY <1>2 DEF ActTypes, Busy, Idle
<1>3. ASSUME NEW kind \in Kinds, NEW target \in Accounts, who # Nobody,
             NEW n \in Entered(kind) \union {0, Faucet}, Press(kind, n, target)
      PROVE  ActTypes'
  <2>1. n \in Nat /\ Cash \in Nat /\ cashAt[who] \in Nat
    BY <1>3, EnteredIsNatural, Givens DEF TabTypes
  <2>2. act' = [phase |-> "wallet", kind |-> kind, n |-> n, who |-> target, asked |-> 0,
               base |-> IF kind = "unwrap" THEN Cash ELSE 0,
               got |-> IF kind = "unwrap" THEN cashAt[who] ELSE 0,
               known |-> kind = "unwrap" => seen[who]["usdc"] # Unread,
               sure |-> Sure(kind, n),
               enough |-> kind = "deposit" => cell[target]["wallet"].holds >= n,
               strayed |-> FALSE]
    BY <1>3 DEF Press
  <2>3. PICK b \in Nat : b = IF kind = "unwrap" THEN Cash ELSE 0
    BY <2>1
  <2>4. PICK g \in Nat : g = IF kind = "unwrap" THEN cashAt[who] ELSE 0
    BY <2>1
  <2>5. /\ DOMAIN act' = DOMAIN Idle /\ act'.n = n /\ act'.base = b /\ act'.got = g
        /\ act'.known \in BOOLEAN /\ act'.asked = 0 /\ act'.who = target /\ act'.kind = kind
        /\ act'.phase = "wallet"
    BY <2>2, <2>3, <2>4 DEF Idle
  <2> QED BY <2>1, <2>5 DEF ActTypes
<1>4. CASE Confirm
  <2>1. /\ act.phase = "wallet" /\ who \in Accounts
        /\ act' = [act EXCEPT !.asked = @ + 1,
                          !.strayed = @ \/ (who # act.who /\ act.kind # "claim"),
                          !.phase = IF Asked.by = "tab" THEN "pending" ELSE "wallet"]
    BY <1>4 DEF Confirm, TabTypes
  <2>2. PICK ph : ph = IF Asked.by = "tab" THEN "pending" ELSE "wallet"
    OBVIOUS
  <2>3. PICK st : st = (act.strayed \/ (who # act.who /\ act.kind # "claim"))
    OBVIOUS
  <2>4. act' = [act EXCEPT !.asked = @ + 1, !.strayed = st, !.phase = ph]
    BY <2>1, <2>2, <2>3
  <2>5. /\ DOMAIN act' = DOMAIN act /\ act'.n = act.n /\ act'.base = act.base
        /\ act'.got = act.got /\ act'.known = act.known /\ act'.who = act.who
        /\ act'.kind = act.kind /\ act'.asked = act.asked + 1 /\ act'.phase = ph
    BY <2>4 DEF ActTypes, Idle
  <2>6. act.who \in Accounts /\ act.kind \in Kinds
    BY <2>1 DEF ActTypes, Busy
  <2>7. act.kind = "fund" => /\ act.asked \in 0..2
                             /\ ph = IF act.asked = 2 THEN "pending" ELSE "wallet"
    BY <2>1, <2>2 DEF ActTypes, Asked, Tx
  <2> QED BY <2>5, <2>6, <2>7 DEF ActTypes
<1>5. \/ UNCHANGED act \/ act' = Idle \/ Confirm
      \/ /\ who # Nobody
         /\ \E kind \in Kinds, target \in Accounts :
               \E n \in Entered(kind) \union {0, Faucet} : Press(kind, n, target)
  BY DEF Next, Chain, Tab, Tool, Misses, Connect, Disconnect, Go, Read, GrantPermit, Decrypt,
         Fail, Done, GiveUp, Dismiss, Ended, tabVars
<1> QED
  BY <1>1, <1>2, <1>3, <1>4, <1>5

LEMMA ToolTypesKept ==
  ASSUME MoneyTypes, ToolTypes, Next
  PROVE  ToolTypes'
<1>1. CASE UNCHANGED toolVars
  BY <1>1 DEF ToolTypes, toolVars
<1>2. CASE Position
  <2>1. cell[KeyAccount]["pool"] \in Handles /\ cell[KeyAccount]["won"] \in Handles
    BY Givens DEF MoneyTypes, Cells
  <2> QED BY <1>2, <2>1 DEF Position, ToolTypes
<1>3. ASSUME NEW tool \in ToolNames, NEW n \in Amounts \union Resolved, Call(tool, n), UNCHANGED refs
      PROVE  ToolTypes'
  <2>1. n \in Nat
    <3>1. Resolved \subseteq Nat
      BY HandleFields DEF Resolved, ToolTypes
    <3> QED BY <3>1, Givens
  <2> QED BY <1>3, <2>1 DEF Call, NoCall, ToolTypes
<1>4. CASE ReadHeld /\ UNCHANGED refs
  <2>1. usdc[KeyAccount] \in Nat /\ call.n \in Nat
    BY Givens DEF MoneyTypes, ToolTypes
  <2>2. CASE usdc[KeyAccount] < call.n
    <3>1. PICK d : d = call.n - usdc[KeyAccount]
      OBVIOUS
    <3>2. d \in Nat
      BY <2>1, <2>2, <3>1
    <3>3. call' = [call EXCEPT !.at = "mint", !.short = d]
      BY <1>4, <2>2, <3>1 DEF ReadHeld
    <3> QED BY <1>4, <3>2, <3>3 DEF ToolTypes, NoCall
  <2>3. CASE ~(usdc[KeyAccount] < call.n)
    BY <1>4, <2>3 DEF ReadHeld, At, ToolTypes, NoCall
  <2> QED BY <2>2, <2>3
<1>5. CASE call' = NoCall /\ UNCHANGED refs
  BY <1>5 DEF ToolTypes, NoCall
<1>6. CASE \E step : At(step) /\ UNCHANGED refs
  BY <1>6 DEF ToolTypes, NoCall, At
<1>7. CASE (Send \/ SentAgain) /\ UNCHANGED refs
  BY <1>7 DEF ToolTypes, NoCall, Send, SentAgain
<1>8. \/ UNCHANGED toolVars \/ Position
      \/ \E tool \in ToolNames, n \in Amounts \union Resolved : Call(tool, n) /\ UNCHANGED refs
      \/ (ReadHeld /\ UNCHANGED refs) \/ (call' = NoCall /\ UNCHANGED refs)
      \/ (\E step : At(step) /\ UNCHANGED refs) \/ ((Send \/ SentAgain) /\ UNCHANGED refs)
  BY DEF Next, Tool, ReadAllowance, ReadOperator, Encrypt, Awaited, CallFails
<1> QED
  BY <1>1, <1>2, <1>3, <1>4, <1>5, <1>6, <1>7, <1>8

LEMMA ChainMoney ==
  ASSUME MoneyTypes, QueueTypes, Chain
  PROVE  MoneyTypes' /\ \A b \in Accounts : Counted(b)
<1>1. ASSUME NEW a \in Accounts, NEW liquid \in BOOLEAN, Mine(a, liquid, Watching)
      PROVE  MoneyTypes' /\ \A b \in Accounts : Counted(b)
  BY <1>1, MineMoney
<1>2. ASSUME NEW a \in Accounts, Finalize(a)
      PROVE  MoneyTypes' /\ \A b \in Accounts : Counted(b)
  <2>1. requests[a] \in Seq(Nat) /\ requests[a] # <<>>
    BY <1>2 DEF Finalize, MoneyTypes
  <2>2. Head(requests[a]) \in Nat /\ Tail(requests[a]) \in Seq(Nat)
    BY <2>1
  <2>3. PICK n \in Nat : /\ usdc' = [usdc EXCEPT ![a] = @ + n]
                         /\ received' = [received EXCEPT ![a] = @ + n]
    BY <1>2, <2>2 DEF Finalize
  <2>4. usdc' \in [Accounts -> Nat] /\ received' \in [Accounts -> Nat]
    BY <2>3, Added DEF MoneyTypes
  <2>5. MoneyTypes'
    <3>1. requests' \in [Accounts -> Seq(Nat)] /\ steps' \in Nat
      BY <1>2, <2>2 DEF MoneyTypes, Finalize, Step
    <3>2. UNCHANGED <<allowance, operator, cell, credit>>
      BY <1>2 DEF Finalize
    <3> QED BY <2>4, <3>1, <3>2 DEF MoneyTypes
  <2>6. \A b \in Accounts : Counted(b)
    <3> TAKE b \in Accounts
    <3>1. usdc[b] \in Nat /\ received[b] \in Nat
      BY DEF MoneyTypes
    <3>2. /\ usdc'[b] = IF b = a THEN usdc[b] + n ELSE usdc[b]
          /\ received'[b] = IF b = a THEN received[b] + n ELSE received[b]
      BY <2>3, Added DEF MoneyTypes
    <3> QED BY <3>1, <3>2 DEF Counted
  <2> QED BY <2>5, <2>6
<1>3. ASSUME NEW a \in Accounts, Accrued(a)
      PROVE  MoneyTypes' /\ \A b \in Accounts : Counted(b)
  <2>1. cell[a]["won"] \in Handles /\ steps \in Nat
    BY DEF MoneyTypes, Cells
  <2>2. PICK h : h = Fresh(a, "won", cell[a]["won"].holds + 1)
    OBVIOUS
  <2>3. h \in Handles
    <3>1. PICK n \in Nat : n = cell[a]["won"].holds + 1
      BY <2>1, HandleFields
    <3> QED BY <2>1, <2>2, <3>1, FreshHandle DEF Cells
  <2>4. cell' = [cell EXCEPT ![a]["won"] = h]
    BY <1>3, <2>2 DEF Accrued, Write
  <2>5. MoneyTypes'
    <3>1. cell' \in [Accounts -> [Cells -> Handles]]
      BY <2>3, <2>4 DEF MoneyTypes
    <3>2. credit' \in [Accounts -> Nat] /\ steps' \in Nat
      BY <1>3 DEF MoneyTypes, Accrued, Step
    <3>3. UNCHANGED <<usdc, allowance, operator, requests, received>>
      BY <1>3 DEF Accrued
    <3> QED BY <3>1, <3>2, <3>3 DEF MoneyTypes
  <2>6. \A b \in Accounts : Counted(b)
    BY <1>3 DEF Accrued, Counted, MoneyTypes
  <2> QED BY <2>5, <2>6
<1>4. ASSUME NEW a \in Accounts, Spend(a, Watching)
      PROVE  MoneyTypes' /\ \A b \in Accounts : Counted(b)
  <2>1. usdc[a] > 0 /\ usdc' = [usdc EXCEPT ![a] = @ - 1] /\ received' = received
    BY <1>4 DEF Spend
  <2>2. usdc[a] \in Nat /\ usdc[a] - 1 \in Nat
    BY <2>1 DEF MoneyTypes
  <2>3. MoneyTypes'
    BY <1>4, <2>1, <2>2 DEF MoneyTypes, Spend, Step
  <2>4. \A b \in Accounts : Counted(b)
    <3> TAKE b \in Accounts
    <3>1. usdc[b] \in Nat /\ received[b] \in Nat /\ usdc'[b] \in {usdc[b], usdc[b] - 1}
      BY <2>1 DEF MoneyTypes
    <3> QED BY <2>1, <3>1 DEF Counted
  <2> QED BY <2>3, <2>4
<1>5. CASE Lapses
  BY <1>5, LapsesTakeNothing DEF MoneyTypes, Counted
<1> QED
  BY <1>1, <1>2, <1>3, <1>4, <1>5 DEF Chain, Lapses

LEMMA TypesKept ==
  ASSUME TypeOK, Next
  PROVE  TypeOK'
<1>1. MoneyTypes'
  BY ChainMoney, OffChain DEF Next, TypeOK
<1> QED
  BY <1>1, QueueTypesKept, TabTypesKept, ActTypesKept, ToolTypesKept DEF TypeOK

-----------------------------------------------------------------------------
(* The record of an unwrap                                                 *)

\* What backs a record does so after a step of the chain and after a read.
LEMMA BackedOnChain ==
  ASSUME TypeOK, NEW p, NEW a \in Accounts, p.base \in Nat, p.got \in Nat, Backed(p, a),
         Counted(a), usdc'[a] \in Nat, received'[a] \in Nat, seen' = seen, cashAt' = cashAt
  PROVE  /\ p.known => usdc'[a] + p.got <= p.base + received'[a]
         /\ p.known /\ seen'[a]["usdc"] # Unread =>
              seen'[a]["usdc"] + p.got <= p.base + cashAt'[a]
<1>1. usdc[a] \in Nat /\ received[a] \in Nat
  BY DEF TypeOK, MoneyTypes
<1> QED
  BY <1>1 DEF Backed, Counted

LEMMA RecordsBackedOnChain ==
  ASSUME TypeOK, TypeOK', RecordsBacked, Chain
  PROVE  RecordsBacked'
<1>1. UNCHANGED <<seen, cashAt, stored, pending, act>>
  BY DEF Chain, Misses
<1>2. \A b \in Accounts : Counted(b)
  BY ChainMoney DEF TypeOK
<1>3. \A b \in Accounts : /\ usdc'[b] \in Nat /\ received'[b] \in Nat
                          /\ usdc[b] \in Nat /\ received[b] \in Nat /\ cashAt[b] \in Nat
  BY DEF TypeOK, MoneyTypes, TabTypes
<1>4. \A a \in Accounts :
        seen'[a]["usdc"] # Unread => usdc'[a] + cashAt'[a] <= seen'[a]["usdc"] + received'[a]
  <2> SUFFICES ASSUME NEW a \in Accounts, seen[a]["usdc"] # Unread
               PROVE  usdc'[a] + cashAt[a] <= seen[a]["usdc"] + received'[a]
    BY <1>1
  <2>1. seen[a]["usdc"] \in Nat
    BY DEF TypeOK, TabTypes
  <2>2. usdc[a] + cashAt[a] <= seen[a]["usdc"] + received[a]
    BY DEF RecordsBacked
  <2> QED BY <1>2, <1>3, <2>1, <2>2 DEF Counted
<1>5. ASSUME NEW a \in Accounts, stored[a] # Nobody
      PROVE  Record(stored[a]) /\ stored[a].who = a /\ Backed(stored[a], a)'
  <2>1. Record(stored[a]) /\ stored[a].who = a /\ Backed(stored[a], a)
    BY <1>5 DEF RecordsBacked
  <2>2. stored[a].base \in Nat /\ stored[a].got \in Nat
    BY <2>1 DEF Record
  <2> QED BY <1>1, <1>2, <1>3, <2>1, <2>2, BackedOnChain DEF Backed
<1>6. ASSUME Busy, act.kind = "unwrap"
      PROVE  Backed(act, act.who)'
  <2>1. Backed(act, act.who) /\ act.who \in Accounts /\ act.base \in Nat /\ act.got \in Nat
    BY <1>6 DEF RecordsBacked, TypeOK, ActTypes
  <2> QED BY <1>1, <1>2, <1>3, <2>1, BackedOnChain DEF Backed
<1>7. Busy' = Busy
  BY <1>1 DEF Busy
<1> QED
  BY <1>1, <1>4, <1>5, <1>6, <1>7 DEF RecordsBacked, Record

LEMMA BackedOffChain ==
  ASSUME TypeOK, NEW p, NEW a \in Accounts, p.base \in Nat, p.got \in Nat, Backed(p, a),
         UNCHANGED money,
         \/ seen'[a]["usdc"] = seen[a]["usdc"] /\ cashAt'[a] = cashAt[a]
         \/ seen'[a]["usdc"] = usdc[a] /\ cashAt'[a] = received[a]
  PROVE  /\ p.known => usdc'[a] + p.got <= p.base + received'[a]
         /\ p.known /\ seen'[a]["usdc"] # Unread =>
              seen'[a]["usdc"] + p.got <= p.base + cashAt'[a]
BY DEF Backed, money

\* A read sees the chain's USDC and what had come in by then.
LEMMA ReadsAreTrue ==
  ASSUME TypeOK, Tab
  PROVE  \A a \in Accounts :
            \/ seen'[a]["usdc"] = seen[a]["usdc"] /\ cashAt'[a] = cashAt[a]
            \/ seen'[a]["usdc"] = usdc[a] /\ cashAt'[a] = received[a]
<1>1. CASE UNCHANGED <<seen, cashAt>>
  BY <1>1
<1>2. CASE Read
  <2> DEFINE fields == IF toRead # {} THEN toRead ELSE {"usdc"}
  <2>1. /\ who \in Accounts
        /\ seen' = [seen EXCEPT ![who] =
                      [f \in Fields |-> IF f \in fields THEN OnChain(who, f) ELSE seen[who][f]]]
        /\ cashAt' = IF "usdc" \in fields THEN [cashAt EXCEPT ![who] = received[who]]
                     ELSE cashAt
    BY <1>2 DEF Read, TypeOK, TabTypes
  <2> HIDE DEF fields
  <2>2. /\ \A a \in Accounts : a # who => seen'[a] = seen[a]
        /\ seen'[who]["usdc"] = IF "usdc" \in fields THEN usdc[who] ELSE seen[who]["usdc"]
    BY <2>1 DEF TypeOK, TabTypes, Fields, OnChain
  <2>3. /\ \A a \in Accounts : a # who => cashAt'[a] = cashAt[a]
        /\ cashAt'[who] = IF "usdc" \in fields THEN received[who] ELSE cashAt[who]
    BY <2>1 DEF TypeOK, TabTypes
  <2> QED BY <2>2, <2>3
<1>3. UNCHANGED <<seen, cashAt>> \/ Read
  BY DEF Tab, Connect, Disconnect, Go, GrantPermit, Decrypt, Press, Confirm, Fail, Done,
         GiveUp, Dismiss, Ended
<1> QED
  BY <1>1, <1>2, <1>3

\* What is filed when an unwrap is confirmed.
Filed == [n |-> act.n, base |-> act.base, got |-> act.got, known |-> act.known, who |-> act.who]

LEMMA SettleSteps ==
  ASSUME NEW p, NEW a, NEW cash, Settle(p, a, cash), DOMAIN stored = Accounts
  PROVE  /\ DOMAIN stored' = Accounts
         /\ \/ pending' = p /\ stored' = stored
            \/ /\ pending' = Nobody /\ Paid(p, cash)
               /\ \A b \in Accounts : stored'[b] = IF b = a THEN Nobody ELSE stored[b]
BY DEF Settle

\* What a step may do to the requests on record.
LEMMA RecordSteps ==
  ASSUME TypeOK, RecordsBacked, Tab
  PROVE  /\ DOMAIN stored' = Accounts
         /\ \A b \in Accounts :
              \/ stored'[b] \in {stored[b], Nobody}
              \/ Confirm /\ act.kind = "unwrap" /\ b = act.who /\ stored'[b] = Filed
         /\ \/ pending' = Nobody
            \/ pending' = pending /\ stored' = stored
            \/ \E a \in Accounts : pending' = stored[a] /\ stored' = stored
            \/ Confirm /\ act.kind = "unwrap" /\ pending' = Filed /\ stored'[act.who] = Filed
<1>1. DOMAIN stored = Accounts
  BY DEF RecordsBacked
<1>2. CASE UNCHANGED <<stored, pending>>
  BY <1>1, <1>2
<1>3. ASSUME NEW a \in Accounts, Connect(a)
      PROVE  /\ DOMAIN stored' = Accounts
             /\ \A b \in Accounts : stored'[b] \in {stored[b], Nobody}
             /\ \/ pending' = Nobody
                \/ pending' = stored[a] /\ stored' = stored
  <2>1. CASE screen = "wrap" /\ Paid(pending, seen[a]["usdc"])
    BY <1>1, <1>3, <2>1 DEF Connect
  <2>2. CASE ~(screen = "wrap" /\ Paid(pending, seen[a]["usdc"]))
    <3>1. Settle(IF screen = "wrap" THEN stored[a] ELSE Nobody, a, seen[a]["usdc"])
      BY <1>3, <2>2 DEF Connect
    <3> QED BY <1>1, <3>1, SettleSteps
  <2> QED BY <2>1, <2>2
<1>4. CASE Disconnect
  BY <1>1, <1>4 DEF Disconnect
<1>5. ASSUME NEW s \in Screens, Go(s)
      PROVE  /\ DOMAIN stored' = Accounts
             /\ \A b \in Accounts : stored'[b] \in {stored[b], Nobody}
             /\ \/ pending' = Nobody
                \/ \E a \in Accounts : pending' = stored[a] /\ stored' = stored
  <2>1. CASE who # Nobody /\ s = "wrap"
    <3>1. Settle(stored[who], who, seen[who]["usdc"]) /\ who \in Accounts
      BY <1>5, <2>1 DEF Go, TypeOK, TabTypes
    <3> QED BY <1>1, <3>1, SettleSteps
  <2>2. CASE ~(who # Nobody /\ s = "wrap")
    BY <1>1, <1>5, <2>2 DEF Go
  <2> QED BY <2>1, <2>2
<1>6. CASE Read
  <2>1. CASE Settle(pending, who, usdc[who])
    BY <1>1, <2>1, SettleSteps
  <2> QED BY <1>2, <1>6, <2>1 DEF Read
<1>7. CASE Confirm
  <2>1. CASE act.kind = "unwrap"
    <3>1. act.who \in Accounts
      BY <1>7 DEF Confirm, TypeOK, ActTypes, Busy
    <3>2. PICK p : p = Filed
      OBVIOUS
    <3>3. \/ pending' = Nobody /\ stored' = [[stored EXCEPT ![act.who] = p] EXCEPT ![who] = Nobody]
          \/ pending' = p /\ stored' = [stored EXCEPT ![act.who] = p]
      BY <1>7, <2>1, <3>2 DEF Confirm, Filed
    <3> QED BY <1>1, <1>7, <2>1, <3>1, <3>2, <3>3
  <2>2. CASE act.kind # "unwrap"
    BY <1>2, <1>7, <2>2 DEF Confirm
  <2> QED BY <2>1, <2>2
<1>8. CASE Dismiss
  BY <1>1, <1>8 DEF Dismiss
<1>9. \/ UNCHANGED <<stored, pending>> \/ (\E a \in Accounts : Connect(a)) \/ Disconnect
      \/ (\E s \in Screens : Go(s)) \/ Read \/ Confirm \/ Dismiss
  BY DEF Tab, GrantPermit, Decrypt, Press, Fail, Done, GiveUp, Ended
<1> QED
  BY <1>2, <1>3, <1>4, <1>5, <1>6, <1>7, <1>8, <1>9

\* What a button is pressed with.
LEMMA PressedBacked ==
  ASSUME TypeOK, RecordsBacked, NEW kind \in Kinds, NEW n, NEW target, who # Nobody,
         Press(kind, n, target)
  PROVE  Busy' /\ act'.kind = "unwrap" => Backed(act, act.who)'
<1>1. act' = [phase |-> "wallet", kind |-> kind, n |-> n, who |-> target, asked |-> 0,
             base |-> IF kind = "unwrap" THEN Cash ELSE 0,
             got |-> IF kind = "unwrap" THEN cashAt[who] ELSE 0,
             known |-> kind = "unwrap" => seen[who]["usdc"] # Unread,
             sure |-> Sure(kind, n),
             enough |-> kind = "deposit" => cell[target]["wallet"].holds >= n,
             strayed |-> FALSE]
  BY DEF Press
<1>2. UNCHANGED <<seen, cashAt, usdc, received>>
  BY DEF Press, chainVars, money
<1>3. SUFFICES ASSUME kind = "unwrap"
               PROVE  Backed(act, act.who)'
  BY <1>1
<1>4. target = who
  BY <1>3 DEF Press, MayPress
<1>5. who \in Accounts
  BY DEF TypeOK, TabTypes
<1>6. /\ act'.who = who /\ act'.base = Cash /\ act'.got = cashAt[who]
      /\ act'.known <=> seen[who]["usdc"] # Unread
  BY <1>1, <1>3, <1>4
<1>7. CASE seen[who]["usdc"] = Unread
  BY <1>6, <1>7 DEF Backed
<1>8. CASE seen[who]["usdc"] # Unread
  <2>1. Cash = seen[who]["usdc"] /\ Cash \in Nat
    BY <1>5, <1>8 DEF Cash, TypeOK, TabTypes
  <2>2. usdc[who] + cashAt[who] <= seen[who]["usdc"] + received[who]
    BY <1>5, <1>8 DEF RecordsBacked
  <2>3. cashAt[who] \in Nat
    BY <1>5 DEF TypeOK, TabTypes
  <2> QED BY <1>2, <1>6, <2>1, <2>2, <2>3 DEF Backed
<1> QED
  BY <1>7, <1>8

LEMMA RecordsBackedByTab ==
  ASSUME TypeOK, TypeOK', RecordsBacked, Tab
  PROVE  RecordsBacked'
<1>1. UNCHANGED money
  BY OffChain DEF TypeOK
<1>2. \A a \in Accounts :
        seen'[a]["usdc"] # Unread => usdc'[a] + cashAt'[a] <= seen'[a]["usdc"] + received'[a]
  <2> SUFFICES ASSUME NEW a \in Accounts, seen'[a]["usdc"] # Unread
               PROVE  usdc[a] + cashAt'[a] <= seen'[a]["usdc"] + received[a]
    BY <1>1 DEF money
  <2>1. CASE seen'[a]["usdc"] = seen[a]["usdc"] /\ cashAt'[a] = cashAt[a]
    BY <2>1 DEF RecordsBacked
  <2>2. CASE seen'[a]["usdc"] = usdc[a] /\ cashAt'[a] = received[a]
    <3>1. usdc[a] \in Nat /\ received[a] \in Nat
      BY DEF TypeOK, MoneyTypes
    <3> QED BY <2>2, <3>1
  <2> QED BY <2>1, <2>2, ReadsAreTrue
<1>3. ASSUME NEW p, NEW a \in Accounts, p.base \in Nat, p.got \in Nat, Backed(p, a)
      PROVE  /\ p.known => usdc'[a] + p.got <= p.base + received'[a]
             /\ p.known /\ seen'[a]["usdc"] # Unread =>
                  seen'[a]["usdc"] + p.got <= p.base + cashAt'[a]
  BY <1>1, <1>3, BackedOffChain, ReadsAreTrue
<1>4. ASSUME Confirm, act.kind = "unwrap"
      PROVE  /\ Record(Filed) /\ Filed.who = act.who /\ act.who \in Accounts
             /\ Filed.known => usdc'[act.who] + Filed.got <= Filed.base + received'[act.who]
             /\ Filed.known /\ seen'[act.who]["usdc"] # Unread =>
                  seen'[act.who]["usdc"] + Filed.got <= Filed.base + cashAt'[act.who]
  <2>1. Busy
    BY <1>4 DEF Confirm, Busy
  <2>2. act.who \in Accounts /\ Record(Filed) /\ Backed(act, act.who)
    BY <1>4, <2>1 DEF RecordsBacked, TypeOK, ActTypes, Record, Filed
  <2>3. Backed(Filed, act.who) /\ Filed.who = act.who
    BY <2>2 DEF Backed, Filed
  <2> QED BY <1>3, <2>2, <2>3 DEF Record
<1>5. ASSUME NEW a \in Accounts, stored'[a] # Nobody
      PROVE  Record(stored'[a]) /\ stored'[a].who = a /\ Backed(stored[a], a)'
  <2>1. CASE stored'[a] = stored[a]
    <3>1. Record(stored[a]) /\ stored[a].who = a /\ Backed(stored[a], a)
      BY <1>5, <2>1 DEF RecordsBacked
    <3>2. stored[a].base \in Nat /\ stored[a].got \in Nat
      BY <3>1 DEF Record
    <3> QED BY <1>3, <2>1, <3>1, <3>2 DEF Backed
  <2>2. CASE Confirm /\ act.kind = "unwrap" /\ a = act.who /\ stored'[a] = Filed
    BY <1>4, <2>2 DEF Backed
  <2> QED BY <1>5, <2>1, <2>2, RecordSteps
<1>6. pending' # Nobody => Record(pending') /\ pending' = stored'[pending'.who]
  <2>1. CASE pending' = pending /\ stored' = stored
    BY <2>1 DEF RecordsBacked
  <2>2. CASE \E a \in Accounts : pending' = stored[a] /\ stored' = stored
    BY <2>2 DEF RecordsBacked
  <2>3. CASE Confirm /\ act.kind = "unwrap" /\ pending' = Filed /\ stored'[act.who] = Filed
    BY <1>4, <2>3
  <2> QED BY <2>1, <2>2, <2>3, RecordSteps
<1>7. Busy' /\ act'.kind = "unwrap" => Backed(act, act.who)'
  <2>1. ASSUME act'.kind = act.kind, act'.known = act.known, act'.base = act.base,
               act'.got = act.got, act'.who = act.who, Busy, Busy', act'.kind = "unwrap"
        PROVE  Backed(act, act.who)'
    <3>1. Backed(act, act.who) /\ act.who \in Accounts /\ act.base \in Nat /\ act.got \in Nat
      BY <2>1 DEF RecordsBacked, TypeOK, ActTypes
    <3> QED BY <1>3, <2>1, <3>1 DEF Backed
  <2>2. CASE UNCHANGED act
    BY <2>1, <2>2 DEF Busy
  <2>3. CASE act' = Idle
    BY <2>3 DEF Idle, Busy
  <2>4. CASE /\ who # Nobody
             /\ \E kind \in Kinds, target \in Accounts :
                   \E n \in Entered(kind) \union {0, Faucet} : Press(kind, n, target)
    BY <2>4, PressedBacked
  <2>5. CASE Confirm
    <3>1. /\ Busy /\ act'.kind = act.kind /\ act'.known = act.known /\ act'.base = act.base
          /\ act'.got = act.got /\ act'.who = act.who
      BY <2>5 DEF Confirm, Busy, TypeOK, ActTypes, Idle
    <3> QED BY <2>1, <3>1
  <2> QED BY <2>2, <2>3, <2>4, <2>5 DEF Tab, Connect, Disconnect, Go, Read, GrantPermit,
         Decrypt, Fail, Done, GiveUp, Dismiss, Ended
<1>8. DOMAIN stored' = Accounts
  BY RecordSteps
<1> QED
  BY <1>2, <1>5, <1>6, <1>7, <1>8 DEF RecordsBacked, Record

LEMMA RecordsBackedKept ==
  ASSUME TypeOK, TypeOK', RecordsBacked, Next
  PROVE  RecordsBacked'
<1>1. CASE Tool /\ UNCHANGED tabVars
  <2>1. UNCHANGED money
    BY <1>1, OffChain DEF TypeOK
  <2> QED BY <1>1, <2>1 DEF RecordsBacked, Record, Backed, Busy, tabVars, money
<1> QED
  BY <1>1, RecordsBackedOnChain, RecordsBackedByTab DEF Next

\* A request that is taken to be paid has been.
LEMMA PaidMeansReceived ==
  ASSUME TypeOK, RecordsBacked, NEW a \in Accounts, stored[a] # Nobody, stored[a].known,
         NEW cash, cash \in {usdc[a], seen[a]["usdc"]}, Paid(stored[a], cash)
  PROVE  received[a] - stored[a].got >= stored[a].n
<1>1. Record(stored[a]) /\ Backed(stored[a], a)
  BY DEF RecordsBacked
<1>2. /\ stored[a].n \in Nat /\ stored[a].base \in Nat /\ stored[a].got \in Nat
      /\ received[a] \in Nat /\ cashAt[a] \in Nat /\ cashAt[a] <= received[a] /\ usdc[a] \in Nat
  BY <1>1 DEF Record, TypeOK, MoneyTypes, TabTypes
<1>3. cash # Unread /\ cash >= stored[a].base + stored[a].n
  BY DEF Paid
<1>4. CASE cash = usdc[a]
  BY <1>1, <1>2, <1>3, <1>4 DEF Backed
<1>5. CASE cash = seen[a]["usdc"]
  <2>1. seen[a]["usdc"] \in Nat
    BY <1>3, <1>5 DEF TypeOK, TabTypes
  <2> QED BY <1>1, <1>2, <1>3, <1>5, <2>1 DEF Backed
<1> QED
  BY <1>4, <1>5

\* A filed unwrap leaves the record only when it is paid, dismissed or replaced.
LEMMA RequestsKept ==
  ASSUME TypeOK, RecordsBacked, Next, NEW a \in Accounts,
         stored[a] # Nobody, stored'[a] # stored[a]
  PROVE  \/ Dismiss
         \/ act.kind = "unwrap" /\ Confirm
         \/ pending # Nobody /\ pending.who # a
         \/ ~stored[a].known
         \/ received[a] - stored[a].got >= stored[a].n
<1> SUFFICES ASSUME ~(pending # Nobody /\ pending.who # a), stored[a].known
             PROVE  Dismiss \/ (act.kind = "unwrap" /\ Confirm)
                      \/ received[a] - stored[a].got >= stored[a].n
  OBVIOUS
<1>1. DOMAIN stored = Accounts
  BY DEF RecordsBacked
<1>2. ASSUME pending # Nobody
      PROVE  pending = stored[a]
  BY <1>2 DEF RecordsBacked
<1>3. ASSUME NEW b \in Accounts, NEW p, NEW cash, Settle(p, b, cash)
      PROVE  a = b /\ Paid(p, cash)
  BY <1>1, <1>3, SettleSteps
<1>4. ASSUME NEW b \in Accounts, Connect(b)
      PROVE  received[a] - stored[a].got >= stored[a].n
  <2>1. CASE screen = "wrap" /\ Paid(pending, seen[b]["usdc"])
    <3>1. a = b
      BY <1>1, <1>4, <2>1 DEF Connect
    <3>2. pending = stored[a]
      BY <1>2, <2>1 DEF Paid
    <3> QED BY <2>1, <3>1, <3>2, PaidMeansReceived
  <2>2. CASE ~(screen = "wrap" /\ Paid(pending, seen[b]["usdc"]))
    <3>1. Settle(IF screen = "wrap" THEN stored[b] ELSE Nobody, b, seen[b]["usdc"])
      BY <1>4, <2>2 DEF Connect
    <3>2. a = b /\ Paid(stored[a], seen[a]["usdc"])
      <4>1. a = b /\ Paid(IF screen = "wrap" THEN stored[b] ELSE Nobody, seen[b]["usdc"])
        BY <1>3, <3>1
      <4> QED BY <4>1 DEF Paid
    <3> QED BY <3>2, PaidMeansReceived
  <2> QED BY <2>1, <2>2
<1>5. ASSUME NEW s \in Screens, Go(s)
      PROVE  received[a] - stored[a].got >= stored[a].n
  <2>1. Settle(stored[who], who, seen[who]["usdc"]) /\ who \in Accounts
    BY <1>5 DEF Go, TypeOK, TabTypes
  <2>2. a = who /\ Paid(stored[a], seen[a]["usdc"])
    BY <1>3, <2>1
  <2> QED BY <2>2, PaidMeansReceived
<1>6. ASSUME Read
      PROVE  received[a] - stored[a].got >= stored[a].n
  <2>1. Settle(pending, who, usdc[who]) /\ who \in Accounts
    BY <1>6 DEF Read, TypeOK, TabTypes
  <2>2. a = who /\ Paid(pending, usdc[a])
    BY <1>3, <2>1
  <2>3. pending = stored[a]
    BY <1>2, <2>2 DEF Paid
  <2> QED BY <2>2, <2>3, PaidMeansReceived
<1>7. \/ Dismiss \/ (act.kind = "unwrap" /\ Confirm) \/ (\E b \in Accounts : Connect(b))
      \/ (\E s \in Screens : Go(s)) \/ Read
  BY DEF Next, Chain, Misses, Tool, Tab, Disconnect, GrantPermit, Decrypt, Press, Confirm, Fail,
         Done, GiveUp, Ended, tabVars
<1> QED
  BY <1>4, <1>5, <1>6, <1>7

-----------------------------------------------------------------------------
(* One transaction is waited for at a time                                 *)

\* A queue entry that x waits for after the head of a queue is mined.
LEMMA AwaitedAfterMine ==
  ASSUME QueueTypes, NEW a \in Accounts, NEW liquid \in BOOLEAN, NEW W, Mine(a, liquid, W),
         NEW x \in Actors, NEW b \in Accounts, NEW i \in 1..Len(mempool'[b]),
         mempool'[b][i].by = x
  PROVE  \E j \in 1..Len(mempool[b]) : /\ Awaits(x, b, j) /\ mempool'[b][i] = mempool[b][j]
                                       /\ j = IF b = a THEN i + 1 ELSE i
<1>1. CASE b = a
  BY <1>1, MineQueue DEF Awaits
<1>2. CASE b # a
  BY <1>2, MineQueue DEF Awaits
<1> QED
  BY <1>1, <1>2

LEMMA TabAwaitsOneOnChain ==
  ASSUME TypeOK, TheTabAwaitsOne, Chain
  PROVE  TheTabAwaitsOne'
<1>1. UNCHANGED act
  BY DEF Chain, Misses
<1>2. ASSUME NEW a \in Accounts, Finalize(a) \/ Accrued(a) \/ Spend(a, Watching)
      PROVE  TheTabAwaitsOne'
  BY <1>1, <1>2 DEF TheTabAwaitsOne, Awaits, Finalize, Accrued, Spend
<1>4. CASE Lapses
  <2>1. UNCHANGED <<mempool, receipt>>
    BY <1>4 DEF Lapses, OperatorEnds, SourceEnds
  <2> QED BY <1>1, <2>1 DEF TheTabAwaitsOne, Awaits
<1>3. ASSUME NEW a \in Accounts, NEW liquid \in BOOLEAN, Mine(a, liquid, Watching)
      PROVE  TheTabAwaitsOne'
  <2>1. QueueTypes /\ "tab" \in Actors /\ 1 \in 1..Len(mempool[a])
    BY <1>3, MineQueue DEF TypeOK, Actors
  <2>2. receipt'["tab"] # "none" => act.phase = "pending"
    <3>1. CASE mempool[a][1].by = "tab"
      BY <2>1, <3>1 DEF TheTabAwaitsOne, Awaits
    <3>2. CASE mempool[a][1].by # "tab"
      BY <1>3, <2>1, <3>2, MineQueue DEF TheTabAwaitsOne
    <3> QED BY <3>1, <3>2
  <2>3. ASSUME NEW b \in Accounts, NEW i \in 1..Len(mempool'[b]), mempool'[b][i].by = "tab"
        PROVE  /\ act.phase = "pending" /\ receipt'["tab"] = "none"
               /\ mempool'[b][i].kind = (IF act.kind = "fund" THEN "wrap" ELSE act.kind)
               /\ mempool'[b][i].n = act.n /\ mempool'[b][i].who = act.who
               /\ act.strayed \/ act.kind = "claim" \/ b = act.who
    <3>1. PICK j \in 1..Len(mempool[b]) :
             /\ Awaits("tab", b, j) /\ mempool'[b][i] = mempool[b][j]
             /\ j = IF b = a THEN i + 1 ELSE i
      BY <1>3, <2>1, <2>3, AwaitedAfterMine
    <3>2. ~(b = a /\ j = 1)
      BY <1>3, <2>1, <3>1, MineQueue, QueueFacts
    <3>3. mempool[a][1].by # "tab"
      BY <2>1, <3>1, <3>2 DEF TheTabAwaitsOne, Awaits
    <3>4. receipt'["tab"] = "none"
      BY <1>3, <2>1, <3>1, <3>3, MineQueue DEF TheTabAwaitsOne
    <3> QED BY <3>1, <3>4 DEF TheTabAwaitsOne
  <2>4. ASSUME NEW b \in Accounts, NEW i \in 1..Len(mempool'[b]), mempool'[b][i].by = "tab",
               NEW c \in Accounts, NEW k \in 1..Len(mempool'[c]), mempool'[c][k].by = "tab"
        PROVE  b = c /\ i = k
    <3>1. PICK j \in 1..Len(mempool[b]) :
             Awaits("tab", b, j) /\ j = IF b = a THEN i + 1 ELSE i
      BY <1>3, <2>1, <2>4, AwaitedAfterMine
    <3>2. PICK l \in 1..Len(mempool[c]) :
             Awaits("tab", c, l) /\ l = IF c = a THEN k + 1 ELSE k
      BY <1>3, <2>1, <2>4, AwaitedAfterMine
    <3>3. b = c /\ j = l
      BY <3>1, <3>2 DEF TheTabAwaitsOne
    <3> QED BY <3>1, <3>2, <3>3
  <2> QED BY <1>1, <2>2, <2>3, <2>4 DEF TheTabAwaitsOne, Awaits
<1> QED
  BY <1>2, <1>3, <1>4 DEF Chain, Lapses

\* Nothing else that waits is touched when a transaction of another is sent.
LEMMA AwaitedAfterSend ==
  ASSUME QueueTypes, NEW a \in Accounts, NEW tx \in Transactions, tx.from = a, SendTx(a, tx),
         NEW x \in Actors, NEW b \in Accounts, NEW i \in 1..Len(mempool'[b]),
         mempool'[b][i].by = x
  PROVE  \/ Awaits(x, b, i) /\ mempool'[b][i] = mempool[b][i]
         \/ b = a /\ i = Len(mempool[a]) + 1 /\ mempool'[b][i] = tx /\ tx.by = x
<1>1. CASE b # a
  BY <1>1, SendQueue DEF Awaits
<1>2. CASE b = a
  <2>1. Len(mempool[a]) \in Nat /\ i \in 1..(Len(mempool[a]) + 1)
    BY <1>2, SendQueue, QueueFacts
  <2>2. CASE i = Len(mempool[a]) + 1
    BY <1>2, <2>2, SendQueue
  <2>3. CASE i \in 1..Len(mempool[a])
    BY <1>2, <2>3, SendQueue DEF Awaits
  <2> QED BY <2>1, <2>2, <2>3
<1> QED
  BY <1>1, <1>2

LEMMA TabAwaitsOneKept ==
  ASSUME TypeOK, TypeOK', TheTabAwaitsOne, Next
  PROVE  TheTabAwaitsOne'
<1>1. CASE Chain
  BY <1>1, TabAwaitsOneOnChain
<1>2. CASE UNCHANGED <<act, mempool, receipt>>
  BY <1>2 DEF TheTabAwaitsOne, Awaits
<1>3. \A b \in Accounts : \A i \in 1..Len(mempool[b]) : act.phase # "pending" => ~Awaits("tab", b, i)
  BY DEF TheTabAwaitsOne
<1>4. CASE UNCHANGED <<mempool, receipt>> /\ act.phase # "pending"
  BY <1>3, <1>4 DEF TheTabAwaitsOne, Awaits
<1>5. CASE Confirm
  <2>1. /\ who \in Accounts /\ act.phase = "wallet" /\ SendTx(who, Asked)
        /\ Asked \in Transactions /\ Asked.from = who
    BY <1>5, AskedIsSent DEF Confirm, TypeOK, TabTypes
  <2>2. receipt'["tab"] = "none"
    BY <2>1, SendQueue DEF TheTabAwaitsOne, TypeOK, QueueTypes, Actors
  <2>3. /\ act'.kind = act.kind /\ act'.n = act.n /\ act'.who = act.who
        /\ act'.phase = IF Asked.by = "tab" THEN "pending" ELSE "wallet"
        /\ act'.strayed <=> act.strayed \/ (who # act.who /\ act.kind # "claim")
    BY <1>5 DEF Confirm, TypeOK, ActTypes, Idle
  <2>4. ASSUME NEW b \in Accounts, NEW i \in 1..Len(mempool'[b]), mempool'[b][i].by = "tab"
        PROVE  b = who /\ i = Len(mempool[who]) + 1 /\ mempool'[b][i] = Asked /\ Asked.by = "tab"
    <3>1. ~Awaits("tab", b, i)
      BY <1>3, <2>1 DEF Awaits
    <3> QED BY <2>1, <2>4, <3>1, AwaitedAfterSend DEF TypeOK, Actors
  <2>5. ASSUME NEW b \in Accounts, NEW i \in 1..Len(mempool'[b]), mempool'[b][i].by = "tab"
        PROVE  /\ act'.phase = "pending"
               /\ mempool'[b][i].kind = (IF act'.kind = "fund" THEN "wrap" ELSE act'.kind)
               /\ mempool'[b][i].n = act'.n /\ mempool'[b][i].who = act'.who
               /\ act'.strayed \/ act'.kind = "claim" \/ b = act'.who
    <3>1. b = who /\ mempool'[b][i] = Asked /\ Asked.by = "tab"
      BY <2>4, <2>5
    <3> QED BY <2>1, <2>3, <3>1, AskedIsSent DEF TypeOK
  <2> QED BY <2>2, <2>4, <2>5 DEF TheTabAwaitsOne, Awaits
<1>6. CASE Done
  <2>1. mempool' = mempool /\ receipt'["tab"] = "none" /\ receipt["tab"] # "none"
    BY <1>6 DEF Done, TakesReceipt, TypeOK, QueueTypes, Actors
  <2> QED BY <2>1 DEF TheTabAwaitsOne, Awaits
<1>7. CASE GiveUp
  <2>1. Abandons("tab") /\ receipt' = receipt /\ receipt["tab"] = "none"
    BY <1>7 DEF GiveUp
  <2>2. ASSUME NEW b \in Accounts, NEW i \in 1..Len(mempool'[b])
        PROVE  mempool'[b][i].by # "tab"
    <3>1. /\ i \in 1..Len(mempool[b]) /\ mempool[b][i] \in Transactions
          /\ mempool'[b][i] = IF mempool[b][i].by = "tab"
                              THEN [mempool[b][i] EXCEPT !.by = "nobody"] ELSE mempool[b][i]
      BY <2>1, AbandonQueue, QueueFacts DEF TypeOK, Actors
    <3> QED BY <3>1 DEF Transactions
  <2> QED BY <2>1, <2>2 DEF TheTabAwaitsOne, Awaits
<1>8. ASSUME NEW tx \in Transactions, tx.from = KeyAccount, tx.by # "tab", SendTx(KeyAccount, tx),
             UNCHANGED act
      PROVE  TheTabAwaitsOne'
  <2>1. ASSUME NEW b \in Accounts, NEW i \in 1..Len(mempool'[b]), mempool'[b][i].by = "tab"
        PROVE  Awaits("tab", b, i) /\ mempool'[b][i] = mempool[b][i]
    BY <1>8, <2>1, AwaitedAfterSend, Givens DEF TypeOK, Actors
  <2>2. receipt' = receipt
    BY <1>8 DEF SendTx
  <2>3. ASSUME NEW b \in Accounts, NEW i \in 1..Len(mempool'[b]), mempool'[b][i].by = "tab"
        PROVE  /\ i \in 1..Len(mempool[b])
               /\ act.phase = "pending" /\ receipt["tab"] = "none"
               /\ mempool'[b][i].kind = (IF act.kind = "fund" THEN "wrap" ELSE act.kind)
               /\ mempool'[b][i].n = act.n /\ mempool'[b][i].who = act.who
               /\ act.strayed \/ act.kind = "claim" \/ b = act.who
    BY <2>1, <2>3 DEF TheTabAwaitsOne, Awaits
  <2>4. ASSUME NEW b \in Accounts, NEW i \in 1..Len(mempool'[b]), mempool'[b][i].by = "tab",
               NEW c \in Accounts, NEW k \in 1..Len(mempool'[c]), mempool'[c][k].by = "tab"
        PROVE  b = c /\ i = k
    <3>1. Awaits("tab", b, i) /\ Awaits("tab", c, k)
      BY <2>1, <2>4
    <3>2. i \in 1..Len(mempool[b]) /\ k \in 1..Len(mempool[c])
      BY <3>1 DEF Awaits
    <3> QED BY <3>1, <3>2 DEF TheTabAwaitsOne
  <2> QED BY <1>8, <2>2, <2>3, <2>4 DEF TheTabAwaitsOne, Awaits
<1>9. CASE Send /\ UNCHANGED tabVars
  <2>1. /\ ToolTx("tool") \in Transactions /\ ToolTx("tool").from = KeyAccount
        /\ ToolTx("tool").by = "tool" /\ SendTx(KeyAccount, ToolTx("tool"))
    BY <1>9, ToolTxIsSent DEF Send, TypeOK
  <2> QED BY <1>8, <1>9, <2>1 DEF tabVars
<1>10. CASE SentAgain /\ UNCHANGED tabVars
  <2>1. call.at \in Sending
    BY <1>10 DEF SentAgain, Sending
  <2>2. /\ ToolTx("nobody") \in Transactions /\ ToolTx("nobody").from = KeyAccount
        /\ ToolTx("nobody").by = "nobody" /\ SendTx(KeyAccount, ToolTx("nobody"))
    BY <1>10, <2>1, ToolTxIsSent DEF SentAgain, TypeOK
  <2> QED BY <1>8, <1>10, <2>2 DEF tabVars
<1>11. CASE Awaited /\ UNCHANGED tabVars
  <2>1. mempool' = mempool /\ receipt'["tab"] = receipt["tab"]
    BY <1>11 DEF Awaited, TakesReceipt, TypeOK, QueueTypes, Actors
  <2> QED BY <1>11, <2>1 DEF TheTabAwaitsOne, Awaits, tabVars
<1>12. CASE Fail
  BY <1>4, <1>12 DEF Fail
<1>13. ASSUME NEW kind, NEW n, NEW target, Press(kind, n, target)
       PROVE  TheTabAwaitsOne'
  <2>1. ~Busy /\ UNCHANGED <<mempool, receipt>>
    BY <1>13 DEF Press, MayPress, MayMint, MayApprove, MayWrap, MayUnwrap, MayFund, MayAuthorise,
         MayDeposit, MayWithdraw, MayClaimFor, Ready, chainVars
  <2> QED BY <1>4, <2>1 DEF Busy
<1>14. ASSUME NEW s, Go(s)
       PROVE  TheTabAwaitsOne'
  BY <1>4, <1>14 DEF Go, Busy, chainVars
<1>15. CASE Tab
  BY <1>2, <1>5, <1>6, <1>7, <1>12, <1>13, <1>14, <1>15 DEF Tab, Connect, Disconnect, Read,
     GrantPermit, Decrypt, Dismiss, chainVars, walletVars
<1>16. CASE Tool /\ UNCHANGED tabVars
  BY <1>2, <1>9, <1>10, <1>11, <1>16 DEF Tool, Call, ReadHeld, ReadAllowance, ReadOperator,
     Encrypt, CallFails, Position, tabVars, chainVars, walletVars
<1> QED
  BY <1>1, <1>15, <1>16 DEF Next

-----------------------------------------------------------------------------
(* The figures                                                             *)

LEMMA OnlyWhenReady ==
  ASSUME NEW kind, NEW n, NEW target, Press(kind, n, target)
  PROVE  ~Busy /\ who # Nobody /\ UNCHANGED <<screen, chainVars, who, seen, toRead, unseen>>
BY DEF Press, MayPress, MayMint, MayApprove, MayWrap, MayUnwrap, MayFund, MayAuthorise,
       MayDeposit, MayWithdraw, MayClaimFor, Ready, chainVars

LEMMA ScreenKept ==
  ASSUME TypeOK, OnItsScreen, Next
  PROVE  OnItsScreen'
<1>1. CASE UNCHANGED <<act, screen>>
  BY <1>1 DEF OnItsScreen, Busy
<1>2. CASE act' = Idle
  BY <1>2 DEF OnItsScreen, Busy, Idle
<1>3. ASSUME NEW kind \in Kinds, NEW n, NEW target, Press(kind, n, target)
      PROVE  OnItsScreen'
  <2>1. act'.kind = kind /\ screen' = screen
    BY <1>3 DEF Press
  <2>2. IF kind \in {"mint", "approve", "wrap", "unwrap"} THEN screen = "wrap" ELSE screen = "pool"
    BY <1>3 DEF Press, MayPress, MayMint, MayApprove, MayWrap, MayUnwrap, MayFund, MayAuthorise,
       MayDeposit, MayWithdraw, MayClaimFor
  <2> QED BY <2>1, <2>2 DEF OnItsScreen
<1>4. CASE Confirm
  <2>1. act'.kind = act.kind /\ screen' = screen /\ Busy
    BY <1>4 DEF Confirm, TypeOK, ActTypes, Idle, Busy
  <2> QED BY <2>1 DEF OnItsScreen
<1> QED
  BY <1>1, <1>2, <1>3, <1>4 DEF Next, Chain, Tab, Tool, Misses, Connect, Disconnect, Go, Read,
     GrantPermit, Decrypt, Fail, Done, GiveUp, Dismiss, Ended, tabVars

LEMMA ShownFields ==
  ASSUME NEW s \in Screens
  PROVE  /\ Shown(s) \subseteq Fields
         /\ s \in {"wrap", "pool"} => Shown(s) \subseteq Refreshed(s) \union {"won"}
BY DEF Shown, Fields, Screens, Refreshed, WrapReads, PoolReads, BalancesReads, WrapRefresh,
       PoolRefresh

LEMMA FiguresFollowOnChain ==
  ASSUME TypeOK, TheTabAwaitsOne, OnItsScreen, FiguresFollow, Chain
  PROVE  FiguresFollow'
<1>1. UNCHANGED <<who, screen, seen, toRead, act>>
  BY DEF Chain, Misses
<1>2. SUFFICES ASSUME who # Nobody, NEW f \in Shown(screen)
               PROVE  \/ f \in unseen' \union toRead
                      \/ seen[who][f] = OnChain(who, f)'
                      \/ /\ act.phase = "pending" /\ receipt'["tab"] # "none"
                         /\ f \in Refreshed(screen)
  BY <1>1 DEF FiguresFollow, OnChain
<1>3. who \in Accounts /\ screen \in Screens
  BY <1>2 DEF TypeOK, TabTypes
<1>4. ASSUME Misses(FALSE), receipt'["tab"] = receipt["tab"]
      PROVE  \/ f \in unseen' \union toRead
             \/ seen[who][f] = OnChain(who, f)'
             \/ /\ act.phase = "pending" /\ receipt'["tab"] # "none"
                /\ f \in Refreshed(screen)
  <2>1. unseen' = unseen \union {g \in Shown(screen) : OnChain(who, g)' # OnChain(who, g)}
    BY <1>2, <1>4 DEF Misses
  <2> QED BY <1>2, <1>4, <2>1 DEF FiguresFollow
<1>5. ASSUME NEW a \in Accounts, NEW liquid \in BOOLEAN, Mine(a, liquid, Watching),
             Misses(Head(mempool[a]).by = "tab")
      PROVE  \/ f \in unseen' \union toRead
             \/ seen[who][f] = OnChain(who, f)'
             \/ /\ act.phase = "pending" /\ receipt'["tab"] # "none"
                /\ f \in Refreshed(screen)
  <2>1. 1 \in 1..Len(mempool[a]) /\ Head(mempool[a]) = mempool[a][1]
    BY <1>5, MineQueue DEF TypeOK
  <2>2. CASE mempool[a][1].by # "tab"
    <3>1. receipt'["tab"] = receipt["tab"]
      BY <1>5, <2>2, MineQueue DEF TypeOK, Actors
    <3>2. Misses(FALSE)
      BY <1>5, <2>1, <2>2 DEF Misses
    <3> QED BY <1>4, <3>1, <3>2
  <2>3. CASE mempool[a][1].by = "tab"
    <3>1. act.phase = "pending"
      BY <2>1, <2>3 DEF TheTabAwaitsOne, Awaits
    <3>2. receipt'["tab"] # "none"
      <4>1. receipt'["tab"] = Outcome(mempool[a][1], liquid)
        BY <1>5, <2>3, MineQueue DEF TypeOK, Actors
      <4> QED BY <4>1 DEF Outcome
    <3>3. screen \in {"wrap", "pool"}
      BY <3>1 DEF OnItsScreen, Busy
    <3>4. CASE f \in Refreshed(screen)
      BY <3>1, <3>2, <3>4
    <3>5. CASE f = "won" /\ f \notin Refreshed(screen)
      <4>1. cell'[who]["won"] = cell[who]["won"]
        BY <1>3, <1>5, MineMoney DEF TypeOK
      <4>2. OnChain(who, f)' = OnChain(who, f)
        BY <1>1, <3>5, <4>1 DEF OnChain
      <4>3. unseen' = unseen
        BY <1>5, <2>1, <2>3 DEF Misses
      <4> QED BY <1>2, <3>5, <4>2, <4>3 DEF FiguresFollow
    <3> QED BY <1>3, <3>3, <3>4, <3>5, ShownFields
  <2> QED BY <2>2, <2>3
<1>6. ASSUME NEW a \in Accounts, Finalize(a) \/ Accrued(a) \/ Spend(a, Watching)
      PROVE  receipt'["tab"] = receipt["tab"]
  BY <1>6 DEF Finalize, Accrued, Spend
<1>7. Lapses => receipt' = receipt
  BY DEF Lapses, OperatorEnds, SourceEnds
<1> QED
  BY <1>4, <1>5, <1>6, <1>7 DEF Chain, Lapses

LEMMA FiguresFollowOffChain ==
  ASSUME TypeOK, FiguresFollow, Tab \/ (Tool /\ UNCHANGED tabVars)
  PROVE  FiguresFollow'
<1>1. UNCHANGED <<usdc, allowance, operator, cell>>
  BY OffChain DEF TypeOK, money
<1>2. \A a, f : OnChain(a, f)' = OnChain(a, f)
  BY <1>1 DEF OnChain
<1>3. CASE UNCHANGED <<who, screen, seen, toRead, unseen>> /\ act.phase # "pending"
  BY <1>2, <1>3 DEF FiguresFollow
<1>4. CASE UNCHANGED <<who, screen, seen, toRead, unseen, act>> /\ receipt'["tab"] = receipt["tab"]
  BY <1>2, <1>4 DEF FiguresFollow
<1>5. CASE Ended
  BY <1>2, <1>5 DEF Ended, FiguresFollow
<1>6. CASE Read
  <2> DEFINE fields == IF toRead # {} THEN toRead ELSE {"usdc"}
  <2>1. /\ who \in Accounts /\ screen \in Screens
        /\ seen' = [seen EXCEPT ![who] =
                      [f \in Fields |-> IF f \in fields THEN OnChain(who, f) ELSE seen[who][f]]]
        /\ toRead' = {} /\ unseen' = unseen \ fields /\ toRead \subseteq fields
        /\ UNCHANGED <<who, screen, act, receipt>>
    BY <1>6 DEF Read, TypeOK, TabTypes, walletVars, chainVars
  <2> HIDE DEF fields
  <2>2. \A f \in Fields : seen'[who][f] = IF f \in fields THEN OnChain(who, f) ELSE seen[who][f]
    BY <2>1 DEF TypeOK, TabTypes
  <2>3. Shown(screen) \subseteq Fields
    BY <2>1, ShownFields
  <2>4. SUFFICES ASSUME who # Nobody, NEW f \in Shown(screen)
                 PROVE  \/ f \in unseen'
                        \/ seen'[who][f] = OnChain(who, f)
                        \/ /\ act.phase = "pending" /\ receipt["tab"] # "none"
                           /\ f \in Refreshed(screen)
    BY <1>2, <2>1 DEF FiguresFollow
  <2>5. CASE f \in fields
    BY <2>2, <2>3, <2>4, <2>5
  <2>6. CASE f \notin fields
    <3>1. seen'[who][f] = seen[who][f]
      BY <2>2, <2>3, <2>4, <2>6
    <3> QED BY <2>1, <2>4, <2>6, <3>1 DEF FiguresFollow
  <2> QED BY <2>5, <2>6
<1>7. ASSUME NEW a \in Accounts, Connect(a)
      PROVE  FiguresFollow'
  BY <1>7 DEF Connect, FiguresFollow
<1>8. CASE Disconnect
  BY <1>8 DEF Disconnect, FiguresFollow
<1>9. ASSUME NEW s \in Screens, Go(s)
      PROVE  FiguresFollow'
  BY <1>9 DEF Go, FiguresFollow
<1>10. ASSUME NEW kind, NEW n, NEW target, Press(kind, n, target)
       PROVE  FiguresFollow'
  BY <1>3, <1>10, OnlyWhenReady DEF Busy
<1>11. CASE Confirm
  BY <1>3, <1>11 DEF Confirm
<1>12. CASE Tab
  BY <1>4, <1>5, <1>6, <1>7, <1>8, <1>9, <1>10, <1>11, <1>12 DEF Tab, GrantPermit, Decrypt,
     Dismiss, Fail, Done, GiveUp, chainVars, walletVars
<1>13. CASE Tool /\ UNCHANGED tabVars
  <2>1. receipt'["tab"] = receipt["tab"]
    BY <1>13 DEF Tool, Call, ReadHeld, ReadAllowance, ReadOperator, Encrypt, Send, Awaited,
       SentAgain, CallFails, Position, SendTx, TakesReceipt, chainVars, walletVars, TypeOK,
       QueueTypes, Actors
  <2> QED BY <1>4, <1>13, <2>1 DEF tabVars
<1> QED
  BY <1>12, <1>13

\* What the invariant says of a screen at rest.
LEMMA FiguresAreRead ==
  ASSUME TypeOK, FiguresFollow
  PROVE  FiguresAreCurrent
<1> SUFFICES ASSUME who # Nobody, ~Busy, toRead = {}, NEW f \in Shown(screen), f \notin unseen
             PROVE  /\ seen[who][f] = OnChain(who, f)
                    /\ f \in Cells => Figure(f) \in {Unread, Hidden, OnChain(who, f).holds}
  BY DEF FiguresAreCurrent
<1>1. seen[who][f] = OnChain(who, f)
  BY DEF FiguresFollow, Busy
<1>2. f \in Cells => Figure(f) \in {Unread, Hidden, OnChain(who, f).holds}
  BY <1>1, ZeroHandle DEF Figure, Confidential, ClearOf
<1> QED
  BY <1>1, <1>2

-----------------------------------------------------------------------------
(* The buttons                                                             *)

\* A button pressed on current figures finds what it needs on the chain.
LEMMA PressHolds ==
  ASSUME TypeOK, NEW kind \in Kinds, NEW target \in Accounts, who # Nobody,
         NEW n \in Entered(kind) \union {0, Faucet}, Press(kind, n, target), Sure(kind, n)
  PROVE  /\ kind = "wrap" => usdc[target] >= n /\ allowance[target] >= n
         /\ kind = "unwrap" => cell[target]["wallet"].holds >= n
         /\ kind = "deposit" => operator[target]
         /\ kind = "withdraw" => Drained(target) > n
<1>1. who \in Accounts /\ n \in Nat
  BY EnteredIsNatural, Givens DEF TypeOK, TabTypes
<1>2. /\ usdc[who] \in Nat /\ allowance[who] \in Nat /\ credit[who] \in Nat
      /\ cell[who]["wallet"] \in Handles /\ cell[who]["pool"] \in Handles
  BY <1>1 DEF TypeOK, MoneyTypes, Cells
<1>3. MayPress(kind, n, target)
  BY DEF Press
<1>4. CASE kind = "wrap"
  <2>1. target = who /\ Allowed >= n /\ Cash >= n
    BY <1>3, <1>4 DEF MayPress, MayWrap, Approved
  <2>2. seen[who]["usdc"] = usdc[who] /\ seen[who]["allowance"] = allowance[who]
    BY <1>4 DEF Sure, OnChain
  <2>3. Cash \in {0, usdc[who]} /\ Allowed \in {0, allowance[who]}
    BY <2>2 DEF Cash, Allowed
  <2> QED BY <1>1, <1>2, <1>4, <2>1, <2>3
<1>5. CASE kind = "unwrap"
  <2>1. target = who /\ ~UnwrapBlocked(n)
    BY <1>3, <1>5 DEF MayPress, MayUnwrap
  <2>2. seen[who]["wallet"] = cell[who]["wallet"] /\ seen[who]["wallet"] \in opened
    BY <1>5 DEF Sure, OnChain
  <2>3. ~(n > cell[who]["wallet"].holds)
    BY <1>2, <2>1, <2>2, Givens DEF UnwrapBlocked
  <2>4. cell[who]["wallet"].holds \in Nat
    BY <1>2, HandleFields
  <2> QED BY <1>1, <1>5, <2>1, <2>3, <2>4
<1>6. CASE kind = "deposit"
  <2>1. target = who /\ seen[who]["operator"] = TRUE
    BY <1>3, <1>6 DEF MayPress, MayDeposit, IsOperator
  <2>2. seen[who]["operator"] = operator[who]
    BY <1>6 DEF Sure, OnChain
  <2> QED BY <1>6, <2>1, <2>2
<1>7. CASE kind = "withdraw"
  <2>1. target = who /\ seen[who]["pool"] # ZERO
    BY <1>3, <1>7 DEF MayPress, MayWithdraw
  <2>2. seen[who]["pool"] = cell[who]["pool"] /\ WithdrawRisk(n) = "none"
    BY <1>7 DEF Sure, OnChain
  <2>3. ~(n >= cell[who]["pool"].holds)
    BY <1>2, <2>1, <2>2, Givens DEF WithdrawRisk
  <2>4. cell[who]["pool"].holds \in Nat
    BY <1>2, HandleFields
  <2> QED BY <1>1, <1>2, <1>7, <2>1, <2>3, <2>4 DEF Drained
<1> QED
  BY <1>4, <1>5, <1>6, <1>7

\* What nobody took from is still there.
LEMMA NotWorseHolds ==
  ASSUME TypeOK, TypeOK', NEW a \in Accounts, NEW n \in Nat, NotWorse(a)
  PROVE  /\ usdc[a] >= n => usdc'[a] >= n
         /\ allowance[a] >= n => allowance'[a] >= n
         /\ cell[a]["wallet"].holds >= n => cell'[a]["wallet"].holds >= n
         /\ operator[a] => operator'[a]
         /\ Drained(a) > n => Drained(a)' > n
<1>1. /\ usdc[a] \in Nat /\ allowance[a] \in Nat /\ usdc'[a] \in Nat /\ allowance'[a] \in Nat
      /\ credit[a] \in Nat /\ credit'[a] \in Nat
  BY DEF TypeOK, MoneyTypes
<1>2. /\ cell[a]["wallet"] \in Handles /\ cell[a]["pool"] \in Handles
      /\ cell'[a]["wallet"] \in Handles /\ cell'[a]["pool"] \in Handles
  BY DEF TypeOK, MoneyTypes, Cells
<1>3. /\ cell[a]["wallet"].holds \in Nat /\ cell[a]["pool"].holds \in Nat
      /\ cell'[a]["wallet"].holds \in Nat /\ cell'[a]["pool"].holds \in Nat
  BY <1>2, HandleFields
<1> QED
  BY <1>1, <1>3 DEF NotWorse, Drained

\* A transaction of "Get 1,000" that comes first has been mined, or comes first still.
LEMMA AheadMined ==
  ASSUME TypeOK, NEW a \in Accounts, NEW liquid \in BOOLEAN, NEW W, Mine(a, liquid, W),
         act' = act, act.who \in Accounts, NEW i \in Nat, NEW kind \in {"mint", "approve"},
         Ahead(kind, IF a = act.who THEN i + 1 ELSE i)
  PROVE  \/ \E j \in 1..Len(mempool'[act.who]) :
              /\ j < i /\ mempool'[act.who][j].kind = kind
              /\ mempool'[act.who][j].n = act.n /\ mempool'[act.who][j].who = act.who
         \/ kind = "mint" /\ usdc'[act.who] = usdc[act.who] + act.n
         \/ kind = "approve" /\ allowance'[act.who] = act.n
<1>1. CASE a # act.who
  BY <1>1, MineQueue DEF Ahead, TypeOK
<1>2. CASE a = act.who
  <2>1. PICK j \in 1..Len(mempool[a]) :
          /\ j < i + 1 /\ mempool[a][j].kind = kind
          /\ mempool[a][j].n = act.n /\ mempool[a][j].who = act.who
    BY <1>2 DEF Ahead
  <2>2. CASE j = 1
    <3>1. Head(mempool[a]) = mempool[a][1] /\ mempool[a][1].from = a
      BY MineQueue, QueueFacts DEF TypeOK
    <3>2. mempool[a][1].kind = kind
      BY <2>1, <2>2
    <3>3. ~Refused(mempool[a][1])
      BY <3>2 DEF Refused
    <3>4. \/ kind = "mint" /\ Mint(mempool[a][1])
          \/ kind = "approve" /\ Approve(mempool[a][1])
      BY <3>1, <3>2, <3>3 DEF Mine, Mint, Approve, Wrap, Unwrap, SetOperator, Deposit, Withdraw, Claim
    <3>5. CASE kind = "mint" /\ Mint(mempool[a][1])
      BY <1>2, <2>1, <2>2, <3>5 DEF Mint, TypeOK, MoneyTypes
    <3>6. CASE kind = "approve" /\ Approve(mempool[a][1])
      BY <1>2, <2>1, <2>2, <3>1, <3>6 DEF Approve, TypeOK, MoneyTypes
    <3> QED BY <3>4, <3>5, <3>6
  <2>3. CASE j # 1
    <3>1. Len(mempool[a]) \in Nat /\ Len(mempool'[a]) = Len(mempool[a]) - 1
      BY MineQueue, QueueFacts DEF TypeOK
    <3>2. j - 1 \in 1..Len(mempool'[a]) /\ (j - 1) + 1 = j /\ j - 1 < i
      BY <2>1, <2>3, <3>1
    <3>3. mempool'[a][j - 1] = mempool[a][(j - 1) + 1]
      BY <3>2, MineQueue DEF TypeOK
    <3> QED BY <1>2, <2>1, <3>2, <3>3
  <2> QED BY <2>2, <2>3
<1> QED
  BY <1>1, <1>2

LEMMA FundHoldsMined ==
  ASSUME TypeOK, TypeOK', NEW a \in Accounts, NEW liquid \in BOOLEAN, NEW W, Mine(a, liquid, W),
         act' = act, act.who \in Accounts, NotWorse(act.who), NEW i \in Nat,
         FundHolds(IF a = act.who THEN i + 1 ELSE i)
  PROVE  FundHolds(i)'
<1>1. act.n \in Nat /\ usdc[act.who] \in Nat
  BY DEF TypeOK, ActTypes, MoneyTypes
<1>2. ASSUME act.asked > 0
      PROVE  usdc'[act.who] >= act.n \/ Ahead("mint", i)'
  <2>1. CASE usdc[act.who] >= act.n
    BY <1>1, <2>1, NotWorseHolds
  <2>2. CASE Ahead("mint", IF a = act.who THEN i + 1 ELSE i)
    <3>1. \/ Ahead("mint", i)'
          \/ usdc'[act.who] = usdc[act.who] + act.n
      BY <2>2, AheadMined DEF Ahead
    <3> QED BY <1>1, <3>1
  <2> QED BY <1>2, <2>1, <2>2 DEF FundHolds
<1>3. ASSUME act.asked > 1
      PROVE  allowance'[act.who] >= act.n \/ Ahead("approve", i)'
  <2>1. CASE allowance[act.who] >= act.n
    BY <1>1, <2>1, NotWorseHolds
  <2>2. CASE Ahead("approve", IF a = act.who THEN i + 1 ELSE i)
    <3>1. \/ Ahead("approve", i)'
          \/ allowance'[act.who] = act.n
      BY <2>2, AheadMined DEF Ahead
    <3> QED BY <1>1, <3>1
  <2> QED BY <1>3, <2>1, <2>2 DEF FundHolds
<1> QED
  BY <1>2, <1>3 DEF FundHolds

\* While the tab is busy, what others take from an account is noted.
LEMMA TakingIsNoted ==
  ASSUME TypeOK, NEW a \in Accounts, NEW liquid \in BOOLEAN, NEW x \in Actors, x \in Watching,
         Mine(a, liquid, Watching), mempool[a][1].by # x,
         NEW b \in Accounts, <<x, b>> \notin overtaken'
  PROVE  NotWorse(b) /\ <<x, b>> \notin overtaken
<1> DEFINE tx == Head(mempool[a])
<1>1. tx = mempool[a][1]
  BY MineQueue DEF TypeOK
<1>2. overtaken' = IF Takes(tx) /\ ~Refused(tx)
                   THEN overtaken \union ((Watching \ {tx.by}) \X {tx.from, tx.who})
                   ELSE overtaken
  BY DEF Mine
<1>3. \/ NotWorse(b)
      \/ Takes(tx) /\ ~Refused(tx) /\ b \in {tx.from, tx.who}
  BY MineMoney DEF TypeOK
<1> HIDE DEF tx
<1>4. x \in Watching \ {tx.by}
  BY <1>1
<1> QED
  BY <1>2, <1>3, <1>4

LEMMA OthersTakeNothing ==
  ASSUME TypeOK, NEW a \in Accounts, Finalize(a) \/ Accrued(a) \/ Spend(a, Watching),
         NEW x \in Actors, x \in Watching, NEW b \in Accounts, <<x, b>> \notin overtaken'
  PROVE  NotWorse(b) /\ <<x, b>> \notin overtaken
<1>1. /\ usdc[b] \in Nat /\ allowance[b] \in Nat /\ credit[b] \in Nat
      /\ cell[b]["wallet"] \in Handles /\ cell[b]["pool"] \in Handles
      /\ cell[b]["wallet"].holds \in Nat /\ cell[b]["pool"].holds \in Nat
  <2>1. cell[b]["wallet"] \in Handles /\ cell[b]["pool"] \in Handles
    BY DEF TypeOK, MoneyTypes, Cells
  <2> QED BY <2>1, HandleFields DEF TypeOK, MoneyTypes
<1>2. CASE Finalize(a)
  <2>1. requests[a] \in Seq(Nat) /\ requests[a] # <<>>
    BY <1>2 DEF Finalize, TypeOK, MoneyTypes
  <2>2. Head(requests[a]) \in Nat
    BY <2>1
  <2>3. PICK n \in Nat : usdc' = [usdc EXCEPT ![a] = @ + n]
    BY <1>2, <2>2 DEF Finalize
  <2>4. usdc[b] <= usdc'[b]
    BY <2>3, Added DEF TypeOK, MoneyTypes
  <2>5. UNCHANGED <<allowance, operator, cell, credit, overtaken>>
    BY <1>2 DEF Finalize
  <2> QED BY <1>1, <2>4, <2>5 DEF NotWorse
<1>3. CASE Accrued(a)
  <2>1. UNCHANGED <<usdc, allowance, operator, overtaken>>
    BY <1>3 DEF Accrued
  <2>2. cell'[b]["wallet"] = cell[b]["wallet"] /\ cell'[b]["pool"] = cell[b]["pool"]
    BY <1>3 DEF Accrued, Write, TypeOK, MoneyTypes, Cells
  <2>3. credit[b] <= credit'[b]
    BY <1>3, Added DEF Accrued, TypeOK, MoneyTypes
  <2>4. credit'[b] \in Nat
    BY <1>3 DEF Accrued, TypeOK, MoneyTypes
  <2> QED BY <1>1, <2>1, <2>2, <2>3, <2>4 DEF NotWorse
<1>4. CASE Spend(a, Watching)
  <2>1. /\ overtaken' = overtaken \union (Watching \X {a})
        /\ usdc' = [usdc EXCEPT ![a] = @ - 1]
        /\ UNCHANGED <<allowance, operator, cell, credit>>
    BY <1>4 DEF Spend
  <2>2. a # b /\ <<x, b>> \notin overtaken
    BY <2>1
  <2>3. usdc'[b] = usdc[b]
    BY <2>1, <2>2 DEF TypeOK, MoneyTypes
  <2> QED BY <1>1, <2>1, <2>2, <2>3 DEF NotWorse
<1> QED
  BY <1>2, <1>3, <1>4

LEMMA ButtonsHoldOnChain ==
  ASSUME TypeOK, TypeOK', TheTabAwaitsOne, ButtonsHold, Chain
  PROVE  ButtonsHold'
<1>1. UNCHANGED <<act, who>>
  BY DEF Chain, Misses
<1>2. SUFFICES ASSUME Busy, receipt'["tab"] = "none", Cleared'
               PROVE  StillHolds'
  BY <1>1 DEF ButtonsHold, Busy
<1>3. act.who \in Accounts /\ act.n \in Nat /\ "tab" \in Actors /\ "tab" \in Watching
  BY <1>2 DEF TypeOK, ActTypes, Watching, Actors
<1>4. act.sure /\ ~act.strayed /\ <<"tab", act.who>> \notin overtaken'
  BY <1>1, <1>2 DEF Cleared
<1>5. ASSUME NEW a \in Accounts, Finalize(a) \/ Accrued(a) \/ Spend(a, Watching)
      PROVE  StillHolds'
  <2>1. NotWorse(act.who) /\ <<"tab", act.who>> \notin overtaken
    BY <1>3, <1>4, <1>5, OthersTakeNothing
  <2>2. UNCHANGED <<mempool, receipt>>
    BY <1>5 DEF Finalize, Accrued, Spend
  <2>3. StillHolds
    BY <1>2, <1>4, <2>1, <2>2 DEF ButtonsHold, Cleared
  <2>4. \A i : FundHolds(i) => FundHolds(i)'
    BY <1>1, <1>3, <2>1, <2>2, NotWorseHolds DEF FundHolds, Ahead
  <2>5. act.kind = "fund" => /\ act.phase = "wallet" => FundHolds(Len(mempool[act.who]) + 1)'
                             /\ act.phase = "pending" =>
                                  \A i \in 1..Len(mempool[act.who]) :
                                     Awaits("tab", act.who, i) => FundHolds(i)'
    <3>1. act.kind = "fund" => /\ act.phase = "wallet" => FundHolds(Len(mempool[act.who]) + 1)
                               /\ act.phase = "pending" =>
                                    \A i \in 1..Len(mempool[act.who]) :
                                       Awaits("tab", act.who, i) => FundHolds(i)
      BY <2>3 DEF StillHolds
    <3>2. FundHolds(Len(mempool[act.who]) + 1) => FundHolds(Len(mempool[act.who]) + 1)'
      BY <1>1, <1>3, <2>1, <2>2, NotWorseHolds DEF FundHolds, Ahead
    <3> QED BY <2>4, <3>1, <3>2
  <2> QED BY <1>1, <1>3, <2>1, <2>2, <2>3, <2>5, NotWorseHolds DEF StillHolds, Awaits
<1>6. ASSUME NEW a \in Accounts, NEW liquid \in BOOLEAN, Mine(a, liquid, Watching)
      PROVE  StillHolds'
  <2>1. mempool[a][1].by # "tab"
    <3>1. SUFFICES ASSUME mempool[a][1].by = "tab" PROVE FALSE
      OBVIOUS
    <3>2. receipt'["tab"] = Outcome(mempool[a][1], liquid)
      BY <1>3, <1>6, <3>1, MineQueue DEF TypeOK
    <3> QED BY <1>2, <3>2 DEF Outcome
  <2>2. NotWorse(act.who) /\ <<"tab", act.who>> \notin overtaken
    BY <1>3, <1>4, <1>6, <2>1, TakingIsNoted
  <2>3. receipt'["tab"] = receipt["tab"]
    BY <1>3, <1>6, <2>1, MineQueue DEF TypeOK
  <2>4. StillHolds
    BY <1>2, <1>4, <2>2, <2>3 DEF ButtonsHold, Cleared
  <2>5. ASSUME NEW i \in Nat, FundHolds(IF a = act.who THEN i + 1 ELSE i)
        PROVE  FundHolds(i)'
    BY <1>1, <1>3, <1>6, <2>2, <2>5, FundHoldsMined
  <2>6. ASSUME act.kind = "fund", act.phase = "wallet"
        PROVE  FundHolds(Len(mempool[act.who]) + 1)'
    <3>1. FundHolds(Len(mempool[act.who]) + 1)
      BY <2>4, <2>6 DEF StillHolds
    <3>2. PICK m : m = Len(mempool'[act.who])
      OBVIOUS
    <3>3. Len(mempool[act.who]) \in Nat /\ m \in Nat
      BY <1>3, <1>6, <3>2, MineQueue, QueueFacts DEF TypeOK
    <3>4. Len(mempool[act.who]) + 1 = IF a = act.who THEN (m + 1) + 1 ELSE m + 1
      BY <1>3, <1>6, <3>2, <3>3, MineQueue DEF TypeOK
    <3>5. FundHolds(m + 1)'
      BY <2>5, <3>1, <3>3, <3>4
    <3> QED BY <1>1, <3>2, <3>5
  <2>7. ASSUME act.kind = "fund", act.phase = "pending",
               NEW i \in 1..Len(mempool'[act.who]), mempool'[act.who][i].by = "tab"
        PROVE  FundHolds(i)'
    <3>1. PICK j \in 1..Len(mempool[act.who]) :
             Awaits("tab", act.who, j) /\ j = IF act.who = a THEN i + 1 ELSE i
      BY <1>3, <1>6, <2>7, AwaitedAfterMine DEF TypeOK
    <3>2. FundHolds(j)
      BY <2>4, <2>7, <3>1 DEF StillHolds
    <3>3. i \in Nat
      BY <1>3, <1>6, MineQueue, QueueFacts DEF TypeOK
    <3> QED BY <2>5, <3>1, <3>2, <3>3
  <2> QED BY <1>1, <1>3, <2>2, <2>4, <2>6, <2>7, NotWorseHolds DEF StillHolds, Awaits
<1>7. CASE Lapses
  <2>1. /\ UNCHANGED <<usdc, allowance, cell, credit, mempool, receipt>>
        /\ overtaken \subseteq overtaken'
        /\ \A x \in Depositing, b \in Accounts :
             <<x, b>> \notin overtaken' => operator'[b] = operator[b]
    BY <1>7, LapsesTakeNothing DEF TypeOK
  <2>2. StillHolds
    BY <1>2, <1>4, <2>1 DEF ButtonsHold, Cleared
  <2>3. act.kind = "deposit" => operator'[act.who] = operator[act.who]
    BY <1>3, <1>4, <2>1 DEF Depositing
  <2>4. \A i : FundHolds(i)' <=> FundHolds(i)
    BY <1>1, <2>1 DEF FundHolds, Ahead
  <2>5. FundHolds(Len(mempool[act.who]) + 1)' <=> FundHolds(Len(mempool[act.who]) + 1)
    BY <1>1, <2>1 DEF FundHolds, Ahead
  <2> QED BY <1>1, <2>1, <2>2, <2>3, <2>4, <2>5 DEF StillHolds, Awaits, Drained
<1> QED
  BY <1>5, <1>6, <1>7 DEF Chain, Lapses

\* The transactions of "Get 1,000" keep their order when another is sent.
LEMMA FundHoldsSent ==
  ASSUME TypeOK, NEW a \in Accounts, NEW tx \in Transactions, tx.from = a, SendTx(a, tx),
         act.who \in Accounts, act'.who = act.who, act'.n = act.n, act'.asked = act.asked,
         NEW i \in Nat, NEW k \in Nat, i <= k, FundHolds(i)
  PROVE  FundHolds(k)'
<1>1. UNCHANGED <<usdc, allowance>>
  BY DEF SendTx, money
<1>2. \A j \in 1..Len(mempool[act.who]) :
        j \in 1..Len(mempool'[act.who]) /\ mempool'[act.who][j] = mempool[act.who][j]
  <2>1. Len(mempool[act.who]) \in Nat
    BY QueueFacts DEF TypeOK
  <2>2. CASE act.who = a
    BY <2>1, <2>2, SendQueue DEF TypeOK
  <2>3. CASE act.who # a
    BY <2>3, SendQueue DEF TypeOK
  <2> QED BY <2>2, <2>3
<1>3. ASSUME NEW kind, Ahead(kind, i)
      PROVE  Ahead(kind, k)'
  <2>1. PICK j \in 1..Len(mempool[act.who]) :
          /\ j < i /\ mempool[act.who][j].kind = kind
          /\ mempool[act.who][j].n = act.n /\ mempool[act.who][j].who = act.who
    BY <1>3 DEF Ahead
  <2>2. j < k
    <3>1. j \in Int
      OBVIOUS
    <3> QED BY <2>1, <3>1
  <2> QED BY <1>2, <2>1, <2>2 DEF Ahead
<1> QED
  BY <1>1, <1>3 DEF FundHolds

LEMMA ButtonsHoldByTool ==
  ASSUME TypeOK, TheTabAwaitsOne, ButtonsHold, Tool, UNCHANGED tabVars
  PROVE  ButtonsHold'
<1>1. UNCHANGED act /\ UNCHANGED money
  BY OffChain DEF tabVars, TypeOK
<1>2. receipt'["tab"] = receipt["tab"]
  BY DEF Tool, Call, ReadHeld, ReadAllowance, ReadOperator, Encrypt, Send, Awaited,
     SentAgain, CallFails, Position, SendTx, TakesReceipt, chainVars, walletVars, TypeOK,
     QueueTypes, Actors
<1>3. \A b : <<"tab", b>> \in overtaken => <<"tab", b>> \in overtaken'
  BY DEF Tool, Call, ReadHeld, ReadAllowance, ReadOperator, Encrypt, Send, Awaited,
     SentAgain, CallFails, Position, SendTx, Forgets, chainVars, walletVars
<1>4. SUFFICES ASSUME Busy, receipt["tab"] = "none", Cleared'
               PROVE  StillHolds'
  BY <1>1, <1>2 DEF ButtonsHold, Busy
<1>5. StillHolds /\ act.who \in Accounts
  BY <1>1, <1>3, <1>4 DEF ButtonsHold, Cleared, TypeOK, ActTypes
<1>6. /\ act.kind = "wrap" => usdc'[act.who] >= act.n /\ allowance'[act.who] >= act.n
      /\ act.kind = "unwrap" => cell'[act.who]["wallet"].holds >= act.n
      /\ act.kind = "deposit" => operator'[act.who]
      /\ act.kind = "deposit" /\ act.enough => cell'[act.who]["wallet"].holds >= act.n
      /\ act.kind = "withdraw" => cell'[act.who]["pool"].holds + credit'[act.who] > act.n
  BY <1>1, <1>5 DEF StillHolds, Drained, money
<1>7. CASE UNCHANGED mempool
  BY <1>1, <1>5, <1>7 DEF StillHolds, FundHolds, Ahead, Awaits, Drained, money
<1>8. ASSUME NEW tx \in Transactions, tx.from = KeyAccount, tx.by # "tab", SendTx(KeyAccount, tx)
      PROVE  StillHolds'
  <2>1. ASSUME act.kind = "fund", act.phase = "wallet"
        PROVE  FundHolds(Len(mempool[act.who]) + 1)'
    <3>1. FundHolds(Len(mempool[act.who]) + 1)
      BY <1>5, <2>1 DEF StillHolds
    <3>2. PICK m : m = Len(mempool'[act.who])
      OBVIOUS
    <3>3. Len(mempool[act.who]) \in Nat /\ m \in Nat /\ Len(mempool[act.who]) <= m
      BY <1>5, <1>8, <3>2, SendQueue, QueueFacts, Givens DEF TypeOK
    <3>4. FundHolds(m + 1)'
      BY <1>1, <1>5, <1>8, <3>1, <3>3, FundHoldsSent, Givens
    <3> QED BY <1>1, <3>2, <3>4
  <2>2. ASSUME act.kind = "fund", act.phase = "pending",
               NEW i \in 1..Len(mempool'[act.who]), mempool'[act.who][i].by = "tab"
        PROVE  FundHolds(i)'
    <3>1. Awaits("tab", act.who, i)
      BY <1>5, <1>8, <2>2, AwaitedAfterSend, Givens DEF TypeOK, Actors
    <3>2. FundHolds(i) /\ i \in Nat
      BY <1>5, <2>2, <3>1 DEF StillHolds, Awaits
    <3> QED BY <1>1, <1>5, <1>8, <3>2, FundHoldsSent, Givens
  <2> QED BY <1>1, <1>6, <2>1, <2>2 DEF StillHolds, Awaits, Drained
<1>9. CASE Send
  BY <1>8, <1>9, ToolTxIsSent DEF Send, TypeOK
<1>10. CASE SentAgain
  BY <1>8, <1>10, ToolTxIsSent DEF SentAgain, Sending, TypeOK
<1>11. UNCHANGED mempool \/ Send \/ SentAgain
  BY DEF Tool, Call, ReadHeld, ReadAllowance, ReadOperator, Encrypt, Awaited,
     CallFails, Position, chainVars, walletVars
<1> QED
  BY <1>7, <1>9, <1>10, <1>11

LEMMA ButtonsHoldByTab ==
  ASSUME TypeOK, TypeOK', TheTabAwaitsOne, ButtonsHold, Tab
  PROVE  ButtonsHold'
<1>1. UNCHANGED money
  BY OffChain DEF TypeOK
<1>2. CASE UNCHANGED <<act, mempool, receipt, overtaken>>
  BY <1>1, <1>2 DEF ButtonsHold, Busy, Cleared, StillHolds, FundHolds, Ahead, Awaits, Drained, money
<1>3. CASE act' = Idle
  BY <1>3 DEF ButtonsHold, Busy, Idle
<1>4. ASSUME NEW kind \in Kinds, NEW target \in Accounts, who # Nobody,
             NEW n \in Entered(kind) \union {0, Faucet}, Press(kind, n, target)
      PROVE  ButtonsHold'
  <2>1. /\ act'.phase = "wallet" /\ act'.kind = kind /\ act'.n = n /\ act'.who = target
        /\ act'.sure = Sure(kind, n) /\ act'.asked = 0
        /\ act'.enough <=> (kind = "deposit" => cell[target]["wallet"].holds >= n)
    BY <1>4 DEF Press
  <2>2. SUFFICES ASSUME Sure(kind, n) PROVE StillHolds'
    BY <2>1 DEF ButtonsHold, Cleared
  <2>3. /\ kind = "wrap" => usdc[target] >= n /\ allowance[target] >= n
        /\ kind = "unwrap" => cell[target]["wallet"].holds >= n
        /\ kind = "deposit" => operator[target]
        /\ kind = "deposit" /\ act'.enough => cell[target]["wallet"].holds >= n
        /\ kind = "withdraw" => Drained(target) > n
    BY <1>4, <2>1, <2>2, PressHolds
  <2>4. \A i : FundHolds(i)'
    BY <2>1 DEF FundHolds
  <2>5. act'.kind = "fund" => FundHolds(Len(mempool[act.who]) + 1)'
    BY <2>1 DEF FundHolds
  <2> QED BY <1>1, <2>1, <2>3, <2>4, <2>5 DEF StillHolds, Drained, money
<1>5. CASE Confirm
  <2>1. /\ who \in Accounts /\ act.phase = "wallet" /\ SendTx(who, Asked)
        /\ Asked \in Transactions /\ Asked.from = who
    BY <1>5, AskedIsSent DEF Confirm, TypeOK, TabTypes
  <2>2. /\ act'.kind = act.kind /\ act'.n = act.n /\ act'.who = act.who /\ act'.sure = act.sure
        /\ act'.enough = act.enough
        /\ act'.phase = IF Asked.by = "tab" THEN "pending" ELSE "wallet"
        /\ act'.strayed <=> act.strayed \/ (who # act.who /\ act.kind # "claim")
        /\ act'.asked = act.asked + 1
    BY <1>5 DEF Confirm, TypeOK, ActTypes, Idle
  <2>3. SUFFICES ASSUME Cleared'
                 PROVE  StillHolds'
    BY DEF ButtonsHold
  <2>4. act.who \in Accounts /\ act.n \in Nat /\ act.asked \in Nat
    BY <2>1 DEF TypeOK, ActTypes, Busy
  <2>5. receipt["tab"] = "none" /\ overtaken' = overtaken
    BY <2>1 DEF TheTabAwaitsOne, SendTx
  <2>6. StillHolds /\ (who # act.who => act.kind = "claim")
    BY <2>1, <2>2, <2>3, <2>5 DEF ButtonsHold, Cleared, Busy
  <2>7. /\ act.kind = "wrap" => usdc'[act.who] >= act.n /\ allowance'[act.who] >= act.n
        /\ act.kind = "unwrap" => cell'[act.who]["wallet"].holds >= act.n
        /\ act.kind = "deposit" => operator'[act.who]
        /\ act.kind = "deposit" /\ act.enough => cell'[act.who]["wallet"].holds >= act.n
        /\ act.kind = "withdraw" => cell'[act.who]["pool"].holds + credit'[act.who] > act.n
    BY <1>1, <2>6 DEF StillHolds, Drained, money
  <2>8. ASSUME act.kind = "fund"
        PROVE  \A k \in Nat : k >= Len(mempool[who]) + 1 + (IF Asked.by = "tab" THEN 0 ELSE 1)
                                => FundHolds(k)'
    <3>1. who = act.who /\ FundHolds(Len(mempool[who]) + 1)
      BY <2>1, <2>6, <2>8 DEF StillHolds
    <3>2. TAKE k \in Nat
    <3>3. HAVE k >= Len(mempool[who]) + 1 + (IF Asked.by = "tab" THEN 0 ELSE 1)
    <3>4. Len(mempool[who]) \in Nat /\ Len(mempool'[who]) = Len(mempool[who]) + 1
      BY <2>1, SendQueue, QueueFacts DEF TypeOK
    <3>5. /\ mempool'[who][Len(mempool[who]) + 1] = Asked
          /\ \A j \in 1..Len(mempool[who]) : mempool'[who][j] = mempool[who][j]
      BY <2>1, SendQueue DEF TypeOK
    <3>6. PICK l \in Nat : l = Len(mempool[who]) + 1
      BY <3>4
    <3>7. /\ l \in 1..Len(mempool'[who]) /\ mempool'[who][l] = Asked
          /\ k >= l /\ (Asked.by # "tab" => l < k)
      <4>1. l \in 1..Len(mempool'[who]) /\ mempool'[who][l] = Asked
        BY <3>4, <3>5, <3>6
      <4>2. k >= l + (IF Asked.by = "tab" THEN 0 ELSE 1)
        BY <3>3, <3>6
      <4>3. CASE Asked.by = "tab"
        BY <4>1, <4>2, <4>3
      <4>4. CASE Asked.by # "tab"
        BY <4>1, <4>2, <4>4
      <4> QED BY <4>3, <4>4
    <3>8. ASSUME NEW kind, Ahead(kind, l)
          PROVE  Ahead(kind, k)'
      <4>1. PICK j \in 1..Len(mempool[who]) :
              /\ j < l /\ mempool[who][j].kind = kind
              /\ mempool[who][j].n = act.n /\ mempool[who][j].who = act.who
        BY <3>1, <3>8 DEF Ahead
      <4>2. j \in 1..Len(mempool'[who]) /\ j < k
        BY <3>4, <3>6, <3>7, <4>1
      <4>3. mempool'[who][j] = mempool[who][j]
        BY <3>5
      <4> QED BY <2>2, <3>1, <4>1, <4>2, <4>3 DEF Ahead
    <3>9. UNCHANGED <<usdc, allowance>>
      BY <1>1 DEF money
    <3>10. CASE Asked.by = "tab"
      <4>1. act.asked = 2 /\ act'.asked = 3
        BY <2>1, <2>2, <2>8, <3>10, AskedIsSent DEF TypeOK, ActTypes
      <4> QED BY <2>2, <3>1, <3>6, <3>8, <3>9, <4>1 DEF FundHolds
    <3>11. CASE Asked.by # "tab" /\ act.asked = 0
      <4>1. Asked.kind = "mint" /\ Asked.n = act.n /\ Asked.who = act.who
        BY <2>1, <3>11, AskedIsSent DEF TypeOK
      <4>2. Ahead("mint", k)'
        BY <2>2, <3>1, <3>7, <3>11, <4>1 DEF Ahead
      <4> QED BY <2>2, <3>11, <4>2 DEF FundHolds
    <3>12. CASE Asked.by # "tab" /\ act.asked = 1
      <4>1. Asked.kind = "approve" /\ Asked.n = act.n /\ Asked.who = act.who
        BY <2>1, <3>1, <3>12, AskedIsSent DEF TypeOK
      <4>2. Ahead("approve", k)'
        BY <2>2, <3>1, <3>7, <3>12, <4>1 DEF Ahead
      <4> QED BY <2>2, <3>1, <3>6, <3>8, <3>9, <3>12, <4>2 DEF FundHolds
    <3> QED
      BY <2>1, <3>10, <3>11, <3>12, AskedIsSent DEF TypeOK
  <2>9. ASSUME act.kind = "fund", act'.phase = "wallet"
        PROVE  FundHolds(Len(mempool[act.who]) + 1)'
    <3>1. who = act.who /\ Asked.by # "tab"
      BY <2>2, <2>6, <2>9
    <3>2. PICK m : m = Len(mempool'[who]) + 1
      OBVIOUS
    <3>3. m \in Nat /\ m >= Len(mempool[who]) + 1 + (IF Asked.by = "tab" THEN 0 ELSE 1)
      BY <2>1, <3>1, <3>2, SendQueue, QueueFacts DEF TypeOK
    <3>4. FundHolds(m)'
      BY <2>8, <2>9, <3>3
    <3> QED BY <2>2, <3>1, <3>2, <3>4
  <2>10. ASSUME act.kind = "fund", act'.phase = "pending",
               NEW i \in 1..Len(mempool'[act.who]), mempool'[act.who][i].by = "tab"
         PROVE  FundHolds(i)'
    <3>1. ~Awaits("tab", act.who, i)
      BY <2>1, <2>4 DEF TheTabAwaitsOne, Awaits
    <3>2. i = Len(mempool[who]) + 1 /\ who = act.who /\ Asked.by = "tab"
      BY <2>1, <2>4, <2>10, <3>1, AwaitedAfterSend DEF TypeOK, Actors
    <3>3. i \in Nat /\ i >= Len(mempool[who]) + 1 + (IF Asked.by = "tab" THEN 0 ELSE 1)
      BY <2>1, <3>2, QueueFacts DEF TypeOK
    <3> QED BY <2>8, <2>10, <3>3
  <2> QED BY <2>2, <2>7, <2>9, <2>10 DEF StillHolds, Awaits, Drained
<1> QED
  BY <1>2, <1>3, <1>4, <1>5 DEF Tab, Connect, Disconnect, Go, Read, GrantPermit, Decrypt,
     Fail, Done, GiveUp, Dismiss, Ended, chainVars, walletVars

\* What the page does not look at before a deposit or a withdrawal.
Unseen(outcome) ==
    \/ act.kind = "deposit" /\ outcome = "refused" /\ ~sourceLive
    \/ act.kind = "deposit" /\ outcome = "short" /\ ~act.enough
    \/ act.kind = "withdraw" /\ outcome = "illiquid"

\* A transaction of the tab that is mined with what it needs moves it all.
LEMMA MinedAsPromised ==
  ASSUME TypeOK, TheTabAwaitsOne, ButtonsHold, NEW a \in Accounts, NEW liquid \in BOOLEAN,
         Mine(a, liquid, Watching), mempool[a][1].by = "tab",
         act.sure, ~act.strayed, <<"tab", act.who>> \notin overtaken
  PROVE  Outcome(mempool[a][1], liquid) \in {"refused", "short", "illiquid"} =>
           Unseen(Outcome(mempool[a][1], liquid))
<1>1. 1 \in 1..Len(mempool[a])
  BY MineQueue DEF TypeOK
<1>2. PICK tx : tx = mempool[a][1]
  OBVIOUS
<1>3. tx \in Transactions /\ tx.from = a
  BY <1>1, <1>2, QueueFacts DEF TypeOK
<1>4. /\ act.phase = "pending" /\ receipt["tab"] = "none" /\ Awaits("tab", a, 1)
      /\ tx.kind = (IF act.kind = "fund" THEN "wrap" ELSE act.kind)
      /\ tx.n = act.n /\ tx.who = act.who /\ (act.kind = "claim" \/ a = act.who)
  BY <1>1, <1>2 DEF TheTabAwaitsOne, Awaits
<1>5. StillHolds /\ act.who \in Accounts /\ act.n \in Nat /\ act.kind \in Kinds
  BY <1>4 DEF ButtonsHold, Cleared, Busy, TypeOK, ActTypes
<1>6. CASE act.kind \in {"wrap", "fund"}
  <2>1. usdc[a] >= tx.n /\ allowance[a] >= tx.n
    <3>1. CASE act.kind = "wrap"
      BY <1>4, <1>5, <3>1 DEF StillHolds
    <3>2. CASE act.kind = "fund"
      <4>1. FundHolds(1) /\ act.asked = 3 /\ a = act.who
        BY <1>1, <1>4, <1>5, <3>2 DEF StillHolds, TypeOK, ActTypes
      <4>2. \A kind : ~Ahead(kind, 1)
        BY DEF Ahead
      <4> QED BY <1>4, <4>1, <4>2 DEF FundHolds
    <3> QED BY <1>6, <3>1, <3>2
  <2>2. tx.kind = "wrap" /\ tx.who = tx.from
    BY <1>3, <1>4, <1>6
  <2>3. usdc[a] \in Nat /\ allowance[a] \in Nat /\ tx.n \in Nat
    BY <1>4, <1>5 DEF TypeOK, MoneyTypes
  <2>4. ~Refused(tx)
    BY <1>3, <2>1, <2>2, <2>3 DEF Refused
  <2>5. Moved(tx, liquid) = tx.n
    BY <2>2 DEF Moved
  <2> QED BY <1>2, <2>2, <2>4, <2>5 DEF Outcome
<1>7. CASE act.kind = "unwrap"
  <2>1. ~Refused(tx)
    BY <1>3, <1>4, <1>7 DEF Refused
  <2>2. Moved(tx, liquid) = tx.n
    BY <1>4, <1>5, <1>7 DEF Moved, StillHolds
  <2> QED BY <1>2, <1>4, <1>7, <2>1, <2>2 DEF Outcome
<1>8. CASE act.kind = "deposit"
  <2>1. Refused(tx) => ~sourceLive
    BY <1>3, <1>4, <1>5, <1>8 DEF Refused, StillHolds
  <2>2. act.enough => Moved(tx, liquid) = tx.n
    BY <1>4, <1>5, <1>8 DEF Moved, StillHolds
  <2> QED BY <1>2, <1>4, <1>8, <2>1, <2>2 DEF Outcome, Unseen
<1>9. CASE act.kind = "withdraw"
  <2>1. ~Refused(tx) /\ tx.kind = "withdraw"
    BY <1>3, <1>4, <1>9 DEF Refused
  <2>2. Drained(tx.who) > tx.n /\ tx.n \in Nat
    BY <1>4, <1>5, <1>9 DEF StillHolds
  <2>3. Drained(tx.who) \in Nat
    <3>1. cell[act.who]["pool"] \in Handles /\ credit[act.who] \in Nat
      BY <1>5 DEF TypeOK, MoneyTypes, Cells
    <3> QED BY <1>4, <3>1, HandleFields DEF Drained
  <2>4. liquid => Moved(tx, liquid) = tx.n
    BY <2>1, <2>2, <2>3 DEF Moved
  <2>5. CASE liquid
    BY <1>2, <2>1, <2>4, <2>5 DEF Outcome
  <2>6. CASE ~liquid
    BY <1>2, <1>9, <2>1, <2>6 DEF Outcome, Unseen
  <2> QED BY <2>5, <2>6
<1>10. CASE act.kind \in {"mint", "approve", "setOperator", "claim"}
  <2>1. ~Refused(tx) /\ tx.kind = act.kind
    BY <1>4, <1>10 DEF Refused
  <2>2. Moved(tx, liquid) = tx.n
    BY <1>10, <2>1 DEF Moved
  <2> QED BY <1>2, <1>10, <2>1, <2>2 DEF Outcome
<1> QED
  BY <1>5, <1>6, <1>7, <1>8, <1>9, <1>10 DEF Kinds

LEMMA PressedMeansMovedKept ==
  ASSUME TypeOK, TheTabAwaitsOne, ButtonsHold, PressedMeansMoved, Next
  PROVE  PressedMeansMoved'
<1>1. CASE receipt'["tab"] = "none"
  BY <1>1 DEF PressedMeansMoved
<1>2. CASE /\ receipt'["tab"] = receipt["tab"] /\ UNCHANGED act
           /\ \A b : <<"tab", b>> \in overtaken => <<"tab", b>> \in overtaken'
           /\ sourceLive' => sourceLive
  BY <1>2 DEF PressedMeansMoved
<1>3. CASE Chain
  <2>1. UNCHANGED act
    BY <1>3 DEF Chain, Misses
  <2>2. ASSUME NEW a \in Accounts, Finalize(a) \/ Accrued(a) \/ Spend(a, Watching)
        PROVE  PressedMeansMoved'
    <3>1. receipt' = receipt /\ overtaken \subseteq overtaken' /\ sourceLive' = sourceLive
      BY <2>2 DEF Finalize, Accrued, Spend
    <3> QED BY <1>2, <2>1, <3>1
  <2>4. CASE Lapses
    <3>1. receipt' = receipt /\ overtaken \subseteq overtaken' /\ (sourceLive' => sourceLive)
      BY <2>4, LapsesTakeNothing DEF TypeOK
    <3> QED BY <1>2, <2>1, <3>1
  <2>3. ASSUME NEW a \in Accounts, NEW liquid \in BOOLEAN, Mine(a, liquid, Watching)
        PROVE  PressedMeansMoved'
    <3>1. CASE mempool[a][1].by # "tab"
      <4>1. receipt'["tab"] = receipt["tab"]
        BY <2>3, <3>1, MineQueue DEF TypeOK, Actors
      <4>2. overtaken \subseteq overtaken' /\ sourceLive' = sourceLive
        BY <2>3 DEF Mine
      <4> QED BY <1>2, <2>1, <4>1, <4>2
    <3>2. CASE mempool[a][1].by = "tab"
      <4>1. receipt'["tab"] = Outcome(mempool[a][1], liquid)
        BY <2>3, <3>2, MineQueue DEF TypeOK, Actors
      <4>2. overtaken \subseteq overtaken' /\ sourceLive' = sourceLive
        BY <2>3 DEF Mine
      <4>3. SUFFICES ASSUME receipt'["tab"] \in {"refused", "short", "illiquid"}, act.sure,
                            ~act.strayed, <<"tab", act.who>> \notin overtaken'
                     PROVE  Unseen(receipt'["tab"])
        BY <2>1, <4>2 DEF PressedMeansMoved, Unseen
      <4> QED BY <2>3, <3>2, <4>1, <4>2, <4>3, MinedAsPromised
    <3> QED BY <3>1, <3>2
  <2> QED BY <1>3, <2>2, <2>3, <2>4 DEF Chain, Lapses
<1>4. CASE Tool /\ UNCHANGED tabVars
  <2>1. receipt'["tab"] = receipt["tab"]
    BY <1>4 DEF Tool, Call, ReadHeld, ReadAllowance, ReadOperator, Encrypt, Send, Awaited,
       SentAgain, CallFails, Position, SendTx, TakesReceipt, chainVars, walletVars, TypeOK,
       QueueTypes, Actors
  <2>2. \A b : <<"tab", b>> \in overtaken => <<"tab", b>> \in overtaken'
    BY <1>4 DEF Tool, Call, ReadHeld, ReadAllowance, ReadOperator, Encrypt, Send, Awaited,
       SentAgain, CallFails, Position, SendTx, Forgets, chainVars, walletVars
  <2>3. sourceLive' = sourceLive
    BY <1>4, OffChain DEF TypeOK, money
  <2> QED BY <1>2, <1>4, <2>1, <2>2, <2>3 DEF tabVars
<1>5. CASE Done
  BY <1>1, <1>5 DEF Done, TakesReceipt, TypeOK, QueueTypes, Actors
<1>6. CASE Fail
  <2>1. receipt'["tab"] = "none"
    BY <1>6 DEF Fail, TheTabAwaitsOne
  <2> QED BY <1>1, <2>1
<1>7. CASE GiveUp
  BY <1>1, <1>7 DEF GiveUp
<1>8. CASE Confirm
  <2>1. receipt'["tab"] = "none"
    BY <1>8 DEF Confirm, SendTx, TheTabAwaitsOne
  <2> QED BY <1>1, <2>1
<1>9. ASSUME NEW kind, NEW n, NEW target, Press(kind, n, target)
      PROVE  PressedMeansMoved'
  <2>1. receipt'["tab"] = "none"
    BY <1>9, OnlyWhenReady DEF TheTabAwaitsOne, Busy, chainVars
  <2> QED BY <1>1, <2>1
<1>10. ASSUME NEW s, Go(s)
       PROVE  PressedMeansMoved'
  <2>1. receipt'["tab"] = "none"
    BY <1>10 DEF Go, TheTabAwaitsOne, Busy, chainVars
  <2> QED BY <1>1, <2>1
<1>11. CASE Tab
  BY <1>2, <1>5, <1>6, <1>7, <1>8, <1>9, <1>10, <1>11 DEF Tab, Connect, Disconnect, Read,
     GrantPermit, Decrypt, Dismiss, chainVars, walletVars, money
<1> QED
  BY <1>3, <1>4, <1>11 DEF Next

-----------------------------------------------------------------------------
(* The tools                                                               *)

ToolNumber == CASE call.tx = "mint" -> call.short [] call.tx = "setOperator" -> 0 [] OTHER -> call.n

LEMMA ToolAwaitsOneOnChain ==
  ASSUME TypeOK, TheToolAwaitsOne, Chain, UNCHANGED toolVars
  PROVE  TheToolAwaitsOne'
<1>1. UNCHANGED call
  BY DEF toolVars
<1>2. ASSUME NEW a \in Accounts, Finalize(a) \/ Accrued(a) \/ Spend(a, Watching)
      PROVE  TheToolAwaitsOne'
  BY <1>1, <1>2 DEF TheToolAwaitsOne, Awaits, Finalize, Accrued, Spend
<1>4. CASE Lapses
  <2>1. UNCHANGED <<mempool, receipt>>
    BY <1>4 DEF Lapses, OperatorEnds, SourceEnds
  <2> QED BY <1>1, <2>1 DEF TheToolAwaitsOne, Awaits
<1>3. ASSUME NEW a \in Accounts, NEW liquid \in BOOLEAN, Mine(a, liquid, Watching)
      PROVE  TheToolAwaitsOne'
  <2>1. QueueTypes /\ "tool" \in Actors /\ 1 \in 1..Len(mempool[a])
    BY <1>3, MineQueue DEF TypeOK, Actors
  <2>2. receipt'["tool"] # "none" => call.at = "await"
    <3>1. CASE mempool[a][1].by = "tool"
      BY <2>1, <3>1 DEF TheToolAwaitsOne, Awaits
    <3>2. CASE mempool[a][1].by # "tool"
      BY <1>3, <2>1, <3>2, MineQueue DEF TheToolAwaitsOne
    <3> QED BY <3>1, <3>2
  <2>3. ASSUME NEW b \in Accounts, NEW i \in 1..Len(mempool'[b]), mempool'[b][i].by = "tool"
        PROVE  /\ call.at = "await" /\ receipt'["tool"] = "none" /\ b = KeyAccount
               /\ mempool'[b][i].kind = call.tx /\ mempool'[b][i].who = KeyAccount
               /\ mempool'[b][i].n = ToolNumber
    <3>1. PICK j \in 1..Len(mempool[b]) :
             /\ Awaits("tool", b, j) /\ mempool'[b][i] = mempool[b][j]
             /\ j = IF b = a THEN i + 1 ELSE i
      BY <1>3, <2>1, <2>3, AwaitedAfterMine
    <3>2. ~(b = a /\ j = 1)
      BY <1>3, <2>1, <3>1, MineQueue, QueueFacts
    <3>3. mempool[a][1].by # "tool"
      BY <2>1, <3>1, <3>2 DEF TheToolAwaitsOne, Awaits
    <3>4. receipt'["tool"] = "none"
      BY <1>3, <2>1, <3>1, <3>3, MineQueue DEF TheToolAwaitsOne
    <3> QED BY <3>1, <3>4 DEF TheToolAwaitsOne, ToolNumber
  <2>4. ASSUME NEW b \in Accounts, NEW i \in 1..Len(mempool'[b]), mempool'[b][i].by = "tool",
               NEW c \in Accounts, NEW k \in 1..Len(mempool'[c]), mempool'[c][k].by = "tool"
        PROVE  b = c /\ i = k
    <3>1. PICK j \in 1..Len(mempool[b]) :
             Awaits("tool", b, j) /\ j = IF b = a THEN i + 1 ELSE i
      BY <1>3, <2>1, <2>4, AwaitedAfterMine
    <3>2. PICK l \in 1..Len(mempool[c]) :
             Awaits("tool", c, l) /\ l = IF c = a THEN k + 1 ELSE k
      BY <1>3, <2>1, <2>4, AwaitedAfterMine
    <3>3. b = c /\ j = l
      BY <3>1, <3>2 DEF TheToolAwaitsOne
    <3> QED BY <3>1, <3>2, <3>3
  <2> QED BY <1>1, <2>2, <2>3, <2>4 DEF TheToolAwaitsOne, Awaits, ToolNumber
<1> QED
  BY <1>2, <1>3, <1>4 DEF Chain, Lapses

LEMMA ToolAwaitsOneByTab ==
  ASSUME TypeOK, TheToolAwaitsOne, Tab, UNCHANGED toolVars
  PROVE  TheToolAwaitsOne'
<1>1. UNCHANGED call
  BY DEF toolVars
<1>2. ASSUME receipt'["tool"] = receipt["tool"],
             \A b \in Accounts : \A i \in 1..Len(mempool'[b]) :
               mempool'[b][i].by = "tool" => Awaits("tool", b, i) /\ mempool'[b][i] = mempool[b][i]
      PROVE  TheToolAwaitsOne'
  <2>1. ASSUME NEW b \in Accounts, NEW i \in 1..Len(mempool'[b]), mempool'[b][i].by = "tool"
        PROVE  /\ i \in 1..Len(mempool[b])
               /\ call.at = "await" /\ receipt["tool"] = "none" /\ b = KeyAccount
               /\ mempool'[b][i].kind = call.tx /\ mempool'[b][i].who = KeyAccount
               /\ mempool'[b][i].n = ToolNumber
    BY <1>2, <2>1 DEF TheToolAwaitsOne, Awaits, ToolNumber
  <2>2. ASSUME NEW b \in Accounts, NEW i \in 1..Len(mempool'[b]), mempool'[b][i].by = "tool",
               NEW c \in Accounts, NEW k \in 1..Len(mempool'[c]), mempool'[c][k].by = "tool"
        PROVE  b = c /\ i = k
    <3>1. Awaits("tool", b, i) /\ Awaits("tool", c, k)
      BY <1>2, <2>2
    <3>2. i \in 1..Len(mempool[b]) /\ k \in 1..Len(mempool[c])
      BY <3>1 DEF Awaits
    <3> QED BY <3>1, <3>2 DEF TheToolAwaitsOne
  <2> QED BY <1>1, <1>2, <2>1, <2>2 DEF TheToolAwaitsOne, Awaits, ToolNumber
<1>3. CASE mempool' = mempool /\ receipt'["tool"] = receipt["tool"]
  BY <1>1, <1>3 DEF TheToolAwaitsOne, Awaits
<1>4. CASE Confirm
  <2>1. /\ who \in Accounts /\ act.phase = "wallet" /\ SendTx(who, Asked)
        /\ Asked \in Transactions /\ Asked.from = who /\ Asked.by # "tool"
    BY <1>4, AskedIsSent DEF Confirm, TypeOK, TabTypes
  <2>2. \A b \in Accounts : \A i \in 1..Len(mempool'[b]) :
          mempool'[b][i].by = "tool" => Awaits("tool", b, i) /\ mempool'[b][i] = mempool[b][i]
    BY <2>1, AwaitedAfterSend DEF TypeOK, Actors
  <2> QED BY <1>2, <2>1, <2>2 DEF SendTx
<1>5. CASE GiveUp
  <2>1. Abandons("tab") /\ receipt' = receipt
    BY <1>5 DEF GiveUp
  <2>2. ASSUME NEW b \in Accounts, NEW i \in 1..Len(mempool'[b]), mempool'[b][i].by = "tool"
        PROVE  Awaits("tool", b, i) /\ mempool'[b][i] = mempool[b][i]
    <3>1. /\ i \in 1..Len(mempool[b]) /\ mempool[b][i] \in Transactions
          /\ mempool'[b][i] = IF mempool[b][i].by = "tab"
                              THEN [mempool[b][i] EXCEPT !.by = "nobody"] ELSE mempool[b][i]
      BY <2>1, AbandonQueue, QueueFacts DEF TypeOK, Actors
    <3> QED BY <2>2, <3>1 DEF Transactions, Awaits
  <2> QED BY <1>2, <2>1, <2>2
<1>6. CASE Done
  BY <1>3, <1>6 DEF Done, TakesReceipt, TypeOK, QueueTypes, Actors
<1> QED
  BY <1>3, <1>4, <1>5, <1>6 DEF Tab, Connect, Disconnect, Go, Read, GrantPermit, Decrypt, Press,
     Fail, Dismiss, chainVars, walletVars

LEMMA ToolAwaitsOneByTool ==
  ASSUME TypeOK, TheToolAwaitsOne, Tool
  PROVE  TheToolAwaitsOne'
<1>1. ASSUME call.at # "await"
      PROVE  /\ receipt["tool"] = "none"
             /\ \A b \in Accounts : \A i \in 1..Len(mempool[b]) : mempool[b][i].by # "tool"
  BY <1>1 DEF TheToolAwaitsOne, Awaits
<1>2. CASE call.at # "await" /\ UNCHANGED <<mempool, receipt>>
  BY <1>1, <1>2 DEF TheToolAwaitsOne, Awaits
<1>3. CASE Send
  <2>1. /\ call.at \in Sending /\ call.at # "await" /\ SendTx(KeyAccount, ToolTx("tool"))
        /\ call' = [call EXCEPT !.at = "await", !.tx = call.at]
    BY <1>3 DEF Send, Sending
  <2>2. /\ call'.at = "await" /\ call'.tx = call.at /\ call'.n = call.n
        /\ call'.short = call.short
    BY <2>1 DEF TypeOK, ToolTypes, NoCall
  <2>3. /\ ToolTx("tool") \in Transactions /\ ToolTx("tool").from = KeyAccount
        /\ ToolTx("tool").kind = call'.tx /\ ToolTx("tool").who = KeyAccount
        /\ ToolTx("tool").n = ToolNumber'
    BY <2>1, <2>2, ToolTxIsSent DEF TypeOK, ToolNumber
  <2>4. ASSUME NEW b \in Accounts, NEW i \in 1..Len(mempool'[b]), mempool'[b][i].by = "tool"
        PROVE  b = KeyAccount /\ i = Len(mempool[b]) + 1 /\ mempool'[b][i] = ToolTx("tool")
    <3>1. ~Awaits("tool", b, i)
      BY <1>1, <2>1 DEF Awaits
    <3> QED BY <2>1, <2>3, <2>4, <3>1, AwaitedAfterSend, Givens DEF TypeOK, Actors
  <2>5. receipt'["tool"] = "none"
    BY <1>1, <2>1 DEF SendTx
  <2> QED BY <2>2, <2>3, <2>4, <2>5 DEF TheToolAwaitsOne, Awaits, ToolNumber
<1>4. CASE SentAgain
  <2>1. /\ call.at \in Sending /\ call.at # "await" /\ SendTx(KeyAccount, ToolTx("nobody"))
    BY <1>4 DEF SentAgain, Sending
  <2>2. ASSUME NEW b \in Accounts, NEW i \in 1..Len(mempool'[b])
        PROVE  mempool'[b][i].by # "tool"
    <3>1. ~Awaits("tool", b, i)
      BY <1>1, <2>1 DEF Awaits
    <3> QED BY <2>1, <3>1, AwaitedAfterSend, ToolTxIsSent, Givens DEF TypeOK, Actors
  <2>3. receipt'["tool"] = "none"
    BY <1>1, <2>1 DEF SendTx
  <2> QED BY <2>2, <2>3 DEF TheToolAwaitsOne, Awaits
<1>5. CASE Awaited
  <2>1. mempool' = mempool /\ receipt'["tool"] = "none" /\ receipt["tool"] # "none"
    BY <1>5 DEF Awaited, TakesReceipt, TypeOK, QueueTypes, Actors
  <2> QED BY <2>1 DEF TheToolAwaitsOne, Awaits
<1>6. CASE ReadHeld \/ ReadAllowance \/ ReadOperator \/ Encrypt \/ CallFails
  BY <1>2, <1>6 DEF ReadHeld, ReadAllowance, ReadOperator, Encrypt, CallFails, chainVars, walletVars
<1>7. CASE call = NoCall /\ UNCHANGED chainVars
  BY <1>2, <1>7 DEF NoCall, chainVars
<1> QED
  BY <1>3, <1>4, <1>5, <1>6, <1>7 DEF Tool, Call, Position

LEMMA ToolAwaitsOneKept ==
  ASSUME TypeOK, TheToolAwaitsOne, Next
  PROVE  TheToolAwaitsOne'
BY ToolAwaitsOneOnChain, ToolAwaitsOneByTab, ToolAwaitsOneByTool DEF Next


LEMMA ToolStepsKept ==
  ASSUME TypeOK, ToolSteps, Next
  PROVE  ToolSteps'
<1>1. CASE call' = call
  BY <1>1 DEF ToolSteps, Where
<1>2. CASE call' = NoCall
  BY <1>2 DEF ToolSteps, NoCall
<1>3. ASSUME NEW tool \in ToolNames, NEW n, Call(tool, n)
      PROVE  ToolSteps'
  <2>1. /\ call' = [NoCall EXCEPT !.tool = tool, !.n = n, !.at = FirstStep(tool)]
        /\ FirstStep(tool) \in Steps(tool) /\ FirstStep(tool) \notin {"idle", "await"}
    BY <1>3 DEF Call, FirstStep, Steps, ToolNames
  <2>2. call'.tool = tool /\ call'.at = FirstStep(tool) /\ call' # NoCall
    BY <2>1 DEF NoCall
  <2> QED BY <2>1, <2>2 DEF ToolSteps, Where
<1>4. ASSUME NEW step, step \in Steps(call.tool), step \notin {"idle", "await"},
             call'.tool = call.tool, call'.at = step, call # NoCall
      PROVE  ToolSteps'
  <2>1. call' # NoCall
    BY <1>4 DEF NoCall
  <2> QED BY <1>4, <2>1 DEF ToolSteps, Where
<1>5. ASSUME NEW step, At(step)
      PROVE  call'.tool = call.tool /\ call'.at = step
  BY <1>5 DEF At, TypeOK, ToolTypes, NoCall
<1>6. CASE ReadHeld
  <2>1. call.at = "readHeld" /\ call # NoCall /\ call.tool = "wrap"
    BY <1>6 DEF ReadHeld, ToolSteps, Where, Steps, NoCall, ToolNames
  <2>2. call'.tool = call.tool /\ call'.at \in {"mint", "readAllowance"}
    BY <1>5, <1>6 DEF ReadHeld, TypeOK, ToolTypes, NoCall
  <2> QED BY <1>4, <2>1, <2>2 DEF Steps
<1>7. CASE ReadAllowance
  <2>1. call.at = "readAllowance" /\ call # NoCall /\ call.tool = "wrap"
    BY <1>7 DEF ReadAllowance, ToolSteps, Where, Steps, NoCall, ToolNames
  <2>2. call'.tool = call.tool /\ call'.at \in {"approve", "wrap"}
    BY <1>5, <1>7 DEF ReadAllowance
  <2> QED BY <1>4, <2>1, <2>2 DEF Steps
<1>8. CASE ReadOperator
  <2>1. call.at = "readOperator" /\ call # NoCall /\ call.tool = "deposit"
    BY <1>8 DEF ReadOperator, ToolSteps, Where, Steps, NoCall, ToolNames
  <2>2. call'.tool = call.tool /\ call'.at \in {"encrypt", "setOperator"}
    BY <1>5, <1>8 DEF ReadOperator
  <2> QED BY <1>4, <2>1, <2>2 DEF Steps
<1>9. CASE Encrypt
  <2>1. call.at = "encrypt" /\ call # NoCall /\ call.tool \in {"deposit", "unwrap", "withdraw"}
    BY <1>9 DEF Encrypt, ToolSteps, Where, Steps, NoCall, ToolNames
  <2>2. call'.tool = call.tool /\ call'.at = call.tool
    BY <1>5, <1>9 DEF Encrypt
  <2> QED BY <1>4, <2>1, <2>2 DEF Steps
<1>10. CASE Send
  <2>1. call.at \in Sending /\ call' = [call EXCEPT !.at = "await", !.tx = call.at]
    BY <1>10 DEF Send
  <2>2. call'.at = "await" /\ call'.tx = call.at /\ call'.tool = call.tool
    BY <2>1 DEF TypeOK, ToolTypes, NoCall
  <2>3. call.at \notin {"idle", "await"}
    BY <2>1 DEF Sending
  <2>4. call # NoCall /\ call' # NoCall
    BY <2>2, <2>3 DEF NoCall
  <2> QED BY <2>1, <2>2, <2>3, <2>4 DEF ToolSteps, Where
<1>11. CASE SentAgain
  <2>1. call.at \in Sending /\ call' = [call EXCEPT !.tries = @ + 1]
    BY <1>11 DEF SentAgain, Sending
  <2>2. call'.at = call.at /\ call'.tool = call.tool /\ call # NoCall
    BY <2>1 DEF TypeOK, ToolTypes, NoCall, Sending
  <2>3. call.at \notin {"idle", "await"} /\ call.at \in Steps(call.tool)
    BY <2>1, <2>2 DEF ToolSteps, Where, Sending
  <2> QED BY <1>4, <2>2, <2>3
<1>12. CASE Awaited
  <2>1. CASE receipt["tool"] = "refused" \/ After(call.tx) = "idle"
    BY <1>2, <1>12, <2>1 DEF Awaited
  <2>2. CASE ~(receipt["tool"] = "refused" \/ After(call.tx) = "idle")
    <3>1. call.at = "await" /\ call # NoCall /\ call.tx \in Steps(call.tool)
          /\ call.tool \in ToolNames
      BY <1>12 DEF Awaited, ToolSteps, Where, NoCall
    <3>2. call'.tool = call.tool /\ call'.at = After(call.tx)
      BY <1>5, <1>12, <2>2 DEF Awaited
    <3>3. After(call.tx) \in Steps(call.tool) /\ After(call.tx) \notin {"idle", "await"}
      BY <2>2, <3>1 DEF After, Steps, ToolNames
    <3> QED BY <1>4, <3>1, <3>2, <3>3
  <2> QED BY <2>1, <2>2
<1>13. CASE CallFails
  BY <1>2, <1>13 DEF CallFails
<1>14. CASE Tool
  BY <1>1, <1>3, <1>6, <1>7, <1>8, <1>9, <1>10, <1>11, <1>12, <1>13, <1>14 DEF Tool, Position
<1> QED
  BY <1>1, <1>14 DEF Next, toolVars


\* What the tool's own transaction leaves.
LEMMA SeenToMined ==
  ASSUME TypeOK, TheToolAwaitsOne, ToolSteps, SeenTo, call # NoCall,
         NEW a \in Accounts, NEW liquid \in BOOLEAN, Mine(a, liquid, Watching),
         mempool[a][1].by = "tool", UNCHANGED call
  PROVE  SeenTo'
<1>1. 1 \in 1..Len(mempool[a]) /\ Head(mempool[a]) = mempool[a][1]
  BY MineQueue DEF TypeOK
<1>2. PICK tx : tx = Head(mempool[a])
  OBVIOUS
<1>3. tx \in Transactions /\ tx.from = a
  BY <1>1, <1>2, QueueFacts DEF TypeOK
<1>4. /\ call.at = "await" /\ receipt["tool"] = "none" /\ a = KeyAccount
      /\ tx.kind = call.tx /\ tx.who = KeyAccount /\ tx.n = ToolNumber
  BY <1>1, <1>2 DEF TheToolAwaitsOne, Awaits, ToolNumber
<1>5. Where = call.tx /\ call.tx \in Sending /\ call.tool \in ToolNames
      /\ call.tx \in Steps(call.tool) /\ ~Mined
  BY <1>4 DEF ToolSteps, Where, Mined
<1>6. Mined' /\ Where' = Where
  <2>1. receipt'["tool"] # "none"
    BY <1>1, <1>2, MineQueue DEF TypeOK, Actors, Outcome
  <2> QED BY <1>4, <2>1 DEF Mined, Where
<1>7. usdc[a] \in Nat /\ usdc \in [Accounts -> Nat] /\ allowance \in [Accounts -> Nat]
      /\ operator \in [Accounts -> BOOLEAN] /\ call.n \in Nat /\ call.short \in Nat
  BY DEF TypeOK, MoneyTypes, ToolTypes
<1>8. \/ Refused(tx) /\ UNCHANGED money
      \/ ~Refused(tx) /\ (\/ Mint(tx) \/ Approve(tx) \/ Wrap(tx) \/ Unwrap(tx)
                          \/ SetOperator(tx) \/ Deposit(tx) \/ Withdraw(tx, liquid)
                          \/ Claim(tx))
  BY <1>2 DEF Mine
<1>9. CASE call.tx = "mint"
  <2>1. call.tool = "wrap" /\ tx.n = call.short
    BY <1>4, <1>5, <1>9 DEF Steps, ToolNames, ToolNumber
  <2>2. Mint(tx)
    BY <1>4, <1>8, <1>9 DEF Refused, Mint, Approve, Wrap, Unwrap, SetOperator, Deposit,
       Withdraw, Claim
  <2>3. usdc'[KeyAccount] = usdc[KeyAccount] + call.short
    BY <1>4, <1>7, <2>1, <2>2 DEF Mint
  <2>4. usdc[KeyAccount] + call.short >= call.n
    BY <1>5, <1>9, <2>1 DEF SeenTo
  <2>5. usdc'[KeyAccount] >= call.n /\ usdc'[KeyAccount] + 0 = usdc'[KeyAccount]
    BY <1>4, <1>7, <2>3, <2>4
  <2> QED BY <1>5, <1>6, <1>9, <2>1, <2>5 DEF SeenTo
<1>10. CASE call.tx = "approve"
  <2>1. tx.n = call.n /\ call.tool \in {"wrap", "localWrap"}
    BY <1>4, <1>5, <1>10 DEF Steps, ToolNames, ToolNumber
  <2>2. Approve(tx)
    BY <1>4, <1>8, <1>10 DEF Refused, Mint, Approve, Wrap, Unwrap, SetOperator, Deposit,
       Withdraw, Claim
  <2>3. allowance'[KeyAccount] = call.n /\ usdc' = usdc
    BY <1>3, <1>4, <1>7, <2>1, <2>2 DEF Approve
  <2>4. call.tool = "wrap" => usdc[KeyAccount] >= call.n
    BY <1>5, <1>10 DEF SeenTo
  <2> QED BY <1>5, <1>6, <1>7, <1>10, <2>1, <2>3, <2>4 DEF SeenTo
<1>11. CASE call.tx = "setOperator"
  <2>1. call.tool = "deposit"
    BY <1>5, <1>11 DEF Steps, ToolNames
  <2>2. SetOperator(tx)
    BY <1>4, <1>8, <1>11 DEF Refused, Mint, Approve, Wrap, Unwrap, SetOperator, Deposit,
       Withdraw, Claim
  <2>3. operator'[KeyAccount]
    BY <1>3, <1>4, <1>7, <2>2 DEF SetOperator
  <2> QED BY <1>5, <1>6, <1>11, <2>1, <2>3 DEF SeenTo
<1>12. CASE call.tx = "deposit"
  <2>1. operator' = operator
    BY <1>4, <1>8, <1>12 DEF Refused, Mint, Approve, Wrap, Unwrap, SetOperator, Deposit,
       Withdraw, Claim, money
  <2>2. call.tool = "deposit"
    BY <1>5, <1>12 DEF Steps, ToolNames
  <2>3. operator[KeyAccount]
    BY <1>5, <1>12, <2>2 DEF SeenTo
  <2> QED BY <1>5, <1>6, <1>12, <2>1, <2>2, <2>3 DEF SeenTo
<1>13. CASE call.tx \in {"wrap", "unwrap", "withdraw"}
  <2>1. call.tool # "deposit"
    BY <1>5, <1>13 DEF Steps, ToolNames
  <2> QED BY <1>5, <1>6, <1>13, <2>1 DEF SeenTo
<1> QED
  BY <1>5, <1>9, <1>10, <1>11, <1>12, <1>13 DEF Sending

LEMMA SeenToOthers ==
  ASSUME TypeOK, SeenTo, UNCHANGED call, receipt'["tool"] = receipt["tool"], TypeOK',
         NotWorse(KeyAccount)
  PROVE  SeenTo'
<1>1. Where' = Where /\ Mined' = Mined
  BY DEF Where, Mined
<1>2. /\ usdc[KeyAccount] \in Nat /\ usdc'[KeyAccount] \in Nat
      /\ allowance[KeyAccount] \in Nat /\ allowance'[KeyAccount] \in Nat
      /\ call.n \in Nat /\ call.short \in Nat
  BY Givens DEF TypeOK, MoneyTypes, ToolTypes
<1>3. /\ usdc[KeyAccount] <= usdc'[KeyAccount] /\ allowance[KeyAccount] <= allowance'[KeyAccount]
      /\ operator[KeyAccount] => operator'[KeyAccount]
  BY DEF NotWorse
<1>4. ASSUME NEW n \in Nat, usdc[KeyAccount] + n >= call.n
      PROVE  usdc'[KeyAccount] + n >= call.n
  BY <1>2, <1>3, <1>4
<1>5. usdc[KeyAccount] >= call.n => usdc'[KeyAccount] >= call.n
  BY <1>2, <1>3
<1>6. allowance[KeyAccount] >= call.n => allowance'[KeyAccount] >= call.n
  BY <1>2, <1>3
<1>7. call.tool = "wrap" /\ Where = "mint" =>
        usdc'[KeyAccount] + (IF Mined THEN 0 ELSE call.short) >= call.n
  BY <1>2, <1>4 DEF SeenTo
<1> QED
  BY <1>1, <1>3, <1>5, <1>6, <1>7 DEF SeenTo

LEMMA ToolHoldsOnChain ==
  ASSUME TypeOK, TypeOK', TheToolAwaitsOne, ToolHolds, Chain, UNCHANGED toolVars,
         call # NoCall, <<"tool", KeyAccount>> \notin overtaken'
  PROVE  SeenTo'
<1>1. "tool" \in Actors /\ "tool" \in Watching /\ KeyAccount \in Accounts /\ UNCHANGED call
  BY Givens DEF Watching, Actors, toolVars
<1>2. ASSUME NEW a \in Accounts, Finalize(a) \/ Accrued(a) \/ Spend(a, Watching)
      PROVE  SeenTo'
  <2>1. NotWorse(KeyAccount) /\ <<"tool", KeyAccount>> \notin overtaken
    BY <1>1, <1>2, OthersTakeNothing
  <2>2. receipt' = receipt
    BY <1>2 DEF Finalize, Accrued, Spend
  <2> QED BY <1>1, <2>1, <2>2, SeenToOthers DEF ToolHolds
<1>3. ASSUME NEW a \in Accounts, NEW liquid \in BOOLEAN, Mine(a, liquid, Watching)
      PROVE  SeenTo'
  <2>1. CASE mempool[a][1].by # "tool"
    <3>1. NotWorse(KeyAccount) /\ <<"tool", KeyAccount>> \notin overtaken
      BY <1>1, <1>3, <2>1, TakingIsNoted
    <3>2. receipt'["tool"] = receipt["tool"]
      BY <1>1, <1>3, <2>1, MineQueue DEF TypeOK
    <3> QED BY <1>1, <3>1, <3>2, SeenToOthers DEF ToolHolds
  <2>2. CASE mempool[a][1].by = "tool"
    <3>1. <<"tool", KeyAccount>> \notin overtaken
      BY <1>3 DEF Mine
    <3> QED BY <1>1, <1>3, <2>2, <3>1, SeenToMined DEF ToolHolds
  <2> QED BY <2>1, <2>2
<1>4. CASE Lapses
  <2>1. /\ UNCHANGED <<usdc, allowance, receipt>> /\ overtaken \subseteq overtaken'
        /\ call.tool = "deposit" => operator'[KeyAccount] = operator[KeyAccount]
    BY <1>1, <1>4, LapsesTakeNothing DEF TypeOK, Depositing
  <2>2. SeenTo /\ ToolSteps
    BY <2>1 DEF ToolHolds
  <2>3. Where = "setOperator" => call.tool = "deposit"
    BY <2>2 DEF ToolSteps, Steps, ToolNames
  <2> QED BY <1>1, <2>1, <2>2, <2>3 DEF SeenTo, Where, Mined
<1> QED
  BY <1>2, <1>3, <1>4 DEF Chain, Lapses

LEMMA ToolHoldsByTool ==
  ASSUME TypeOK, TheToolAwaitsOne, ToolHolds, Tool, call' # NoCall,
         <<"tool", KeyAccount>> \notin overtaken', ToolSteps'
  PROVE  SeenTo'
<1> DEFINE key == KeyAccount
<1>1. /\ key \in Accounts /\ usdc[key] \in Nat /\ allowance[key] \in Nat
      /\ call.n \in Nat /\ call.short \in Nat
  BY Givens DEF TypeOK, MoneyTypes, ToolTypes
<1>2. usdc' = usdc /\ allowance' = allowance /\ operator' = operator
  BY OffChain DEF TypeOK, money
<1>3. ASSUME call # NoCall
      PROVE  /\ SeenTo /\ call.tool \in ToolNames /\ Where \in Steps(call.tool)
  <2>1. <<"tool", key>> \notin overtaken
    BY <1>3 DEF Tool, Call, ReadHeld, ReadAllowance, ReadOperator, Encrypt, Send, Awaited,
       SentAgain, CallFails, Position, SendTx, chainVars, walletVars
  <2> QED BY <1>3, <2>1 DEF ToolHolds, ToolSteps
<1>4. ASSUME NEW step, At(step), step # "await"
      PROVE  /\ call'.tool = call.tool /\ call'.n = call.n /\ call'.at = step
             /\ Where' = step /\ ~Mined'
  <2>1. call'.tool = call.tool /\ call'.n = call.n /\ call'.at = step
    BY <1>4 DEF At, TypeOK, ToolTypes, NoCall
  <2> QED BY <1>4, <2>1 DEF Where, Mined
<1>5. ASSUME NEW tool \in ToolNames, NEW n, Call(tool, n)
      PROVE  SeenTo'
  <2>1. call' = [NoCall EXCEPT !.tool = tool, !.n = n, !.at = FirstStep(tool)]
    BY <1>5 DEF Call
  <2>2. call'.tool = tool /\ call'.at = FirstStep(tool) /\ FirstStep(tool) # "await"
    BY <2>1 DEF NoCall, FirstStep
  <2>3. Where' = FirstStep(tool) /\ ~Mined'
    BY <2>2 DEF Where, Mined
  <2> QED BY <2>2, <2>3 DEF SeenTo, FirstStep, ToolNames
<1>6. CASE ReadHeld
  <2>1. CASE usdc[key] < call.n
    <3>1. call' = [call EXCEPT !.at = "mint", !.short = call.n - usdc[key]]
      BY <1>6, <2>1 DEF ReadHeld
    <3>2. /\ call'.at = "mint" /\ call'.n = call.n /\ call'.short = call.n - usdc[key]
      BY <3>1 DEF TypeOK, ToolTypes, NoCall
    <3>3. Where' = "mint" /\ ~Mined'
      BY <3>2 DEF Where, Mined
    <3>4. usdc[key] + (call.n - usdc[key]) >= call.n
      BY <1>1
    <3>5. usdc'[key] + call'.short >= call'.n
      BY <1>2, <3>2, <3>4
    <3> QED BY <3>3, <3>5 DEF SeenTo
  <2>2. CASE ~(usdc[key] < call.n)
    <3>1. call'.n = call.n /\ Where' = "readAllowance" /\ ~Mined'
      BY <1>4, <1>6, <2>2 DEF ReadHeld
    <3>2. usdc'[key] >= call'.n
      BY <1>1, <1>2, <2>2, <3>1
    <3> QED BY <3>1, <3>2 DEF SeenTo
  <2> QED BY <2>1, <2>2
<1>7. CASE ReadAllowance
  <2>1. Where = "readAllowance" /\ call # NoCall
    BY <1>7 DEF ReadAllowance, Where, NoCall
  <2>2. SeenTo /\ call.tool = "wrap"
    BY <1>3, <2>1 DEF Steps, ToolNames
  <2>3. usdc[key] >= call.n
    BY <2>1, <2>2 DEF SeenTo
  <2>4. CASE allowance[key] < call.n
    <3>1. call'.n = call.n /\ Where' = "approve" /\ ~Mined'
      BY <1>4, <1>7, <2>4 DEF ReadAllowance
    <3> QED BY <1>2, <2>3, <3>1 DEF SeenTo
  <2>5. CASE ~(allowance[key] < call.n)
    <3>1. call'.n = call.n /\ Where' = "wrap" /\ ~Mined'
      BY <1>4, <1>7, <2>5 DEF ReadAllowance
    <3>2. allowance'[key] >= call'.n
      BY <1>1, <1>2, <2>5, <3>1
    <3> QED BY <1>2, <2>3, <3>1, <3>2 DEF SeenTo
  <2> QED BY <2>4, <2>5
<1>8. CASE ReadOperator
  <2>1. Where = "readOperator" /\ call # NoCall
    BY <1>8 DEF ReadOperator, Where, NoCall
  <2>2. call.tool = "deposit"
    BY <1>3, <2>1 DEF Steps, ToolNames
  <2>3. CASE operator[key]
    <3>1. call'.tool = "deposit" /\ Where' = "encrypt" /\ ~Mined'
      BY <1>4, <1>8, <2>2, <2>3 DEF ReadOperator
    <3> QED BY <1>2, <2>3, <3>1 DEF SeenTo
  <2>4. CASE ~operator[key]
    <3>1. call'.tool = "deposit" /\ Where' = "setOperator" /\ ~Mined'
      BY <1>4, <1>8, <2>2, <2>4 DEF ReadOperator
    <3> QED BY <3>1 DEF SeenTo
  <2> QED BY <2>3, <2>4
<1>9. CASE Encrypt
  <2>1. Where = "encrypt" /\ call # NoCall
    BY <1>9 DEF Encrypt, Where, NoCall
  <2>2. SeenTo /\ call.tool \in {"deposit", "unwrap", "withdraw"}
    BY <1>3, <2>1 DEF Steps, ToolNames
  <2>3. call'.tool = call.tool /\ Where' = call.tool /\ ~Mined'
    BY <1>4, <1>9, <2>2 DEF Encrypt
  <2>4. call.tool = "deposit" => operator[key]
    BY <2>1, <2>2 DEF SeenTo
  <2> QED BY <1>2, <2>2, <2>3, <2>4 DEF SeenTo
<1>10. CASE Send \/ SentAgain
  <2>1. call.at \in Sending /\ call # NoCall /\ receipt' = receipt
    BY <1>10 DEF Send, SentAgain, Sending, SendTx, NoCall
  <2>2. call.at # "await" /\ receipt["tool"] = "none"
    BY <2>1 DEF Sending, TheToolAwaitsOne
  <2>3. /\ call'.tool = call.tool /\ call'.n = call.n /\ call'.short = call.short
        /\ Where' = Where /\ ~Mined /\ ~Mined'
    <3>1. CASE Send
      <4>1. call' = [call EXCEPT !.at = "await", !.tx = call.at]
        BY <3>1 DEF Send
      <4>2. /\ call'.tool = call.tool /\ call'.n = call.n /\ call'.short = call.short
            /\ call'.at = "await" /\ call'.tx = call.at
        BY <4>1 DEF TypeOK, ToolTypes, NoCall
      <4> QED BY <2>1, <2>2, <4>2 DEF Where, Mined
    <3>2. CASE SentAgain
      <4>1. call' = [call EXCEPT !.tries = @ + 1]
        BY <3>2 DEF SentAgain
      <4>2. /\ call'.tool = call.tool /\ call'.n = call.n /\ call'.short = call.short
            /\ call'.at = call.at
        BY <4>1 DEF TypeOK, ToolTypes, NoCall
      <4> QED BY <2>1, <2>2, <4>2 DEF Where, Mined
    <3> QED BY <1>10, <3>1, <3>2
  <2>4. SeenTo
    BY <1>3, <2>1
  <2> QED BY <1>2, <2>3, <2>4 DEF SeenTo
<1>11. CASE Awaited
  <2>1. /\ Mined /\ Where = call.tx /\ call # NoCall /\ At(After(call.tx))
        /\ After(call.tx) \notin {"idle", "await"}
    BY <1>11 DEF Awaited, Mined, Where, After, NoCall
  <2>2. SeenTo /\ call.tool \in ToolNames /\ call.tx \in Steps(call.tool)
    BY <1>3, <2>1
  <2>3. call'.tool = call.tool /\ call'.n = call.n /\ Where' = After(call.tx) /\ ~Mined'
    BY <1>4, <2>1
  <2>4. CASE call.tx = "mint"
    <3>1. call.tool = "wrap" /\ After(call.tx) = "readAllowance"
      BY <2>2, <2>4 DEF Steps, ToolNames, After
    <3>2. usdc[key] + 0 >= call.n
      BY <2>1, <2>2, <2>4, <3>1 DEF SeenTo
    <3>3. usdc[key] >= call.n
      BY <1>1, <3>2
    <3> QED BY <1>2, <2>3, <3>1, <3>3 DEF SeenTo
  <2>5. CASE call.tx = "approve"
    <3>1. call.tool \in {"wrap", "localWrap"} /\ After(call.tx) = "wrap"
      BY <2>2, <2>5 DEF Steps, ToolNames, After
    <3>2. allowance[key] >= call.n /\ (call.tool = "wrap" => usdc[key] >= call.n)
      BY <2>1, <2>2, <2>5 DEF SeenTo
    <3> QED BY <1>2, <2>3, <3>1, <3>2 DEF SeenTo
  <2>6. CASE call.tx = "setOperator"
    <3>1. call.tool = "deposit" /\ After(call.tx) = "encrypt"
      BY <2>2, <2>6 DEF Steps, ToolNames, After
    <3>2. operator[key]
      BY <2>1, <2>2, <2>6 DEF SeenTo
    <3> QED BY <1>2, <2>3, <3>1, <3>2 DEF SeenTo
  <2> QED BY <2>1, <2>4, <2>5, <2>6 DEF After
<1>12. ~CallFails /\ ~(Position /\ call = NoCall)
  BY DEF CallFails, Position
<1> QED
  BY <1>5, <1>6, <1>7, <1>8, <1>9, <1>10, <1>11, <1>12 DEF Tool, Position

LEMMA ToolHoldsKept ==
  ASSUME TypeOK, TypeOK', TheToolAwaitsOne, ToolHolds, Next
  PROVE  ToolHolds'
<1>1. ToolSteps'
  BY ToolStepsKept DEF ToolHolds
<1>2. SUFFICES ASSUME call' # NoCall, <<"tool", KeyAccount>> \notin overtaken'
               PROVE  SeenTo'
  BY <1>1 DEF ToolHolds
<1>3. CASE Chain /\ UNCHANGED toolVars
  BY <1>2, <1>3, ToolHoldsOnChain DEF toolVars
<1>4. CASE Tab /\ UNCHANGED toolVars
  <2>1. UNCHANGED call /\ NotWorse(KeyAccount)
    BY <1>4, OffChain, SameMoney, Givens DEF TypeOK, toolVars
  <2>2. receipt'["tool"] = receipt["tool"]
    BY <1>4 DEF Tab, Connect, Disconnect, Go, Read, GrantPermit, Decrypt, Press, Confirm, Fail,
       Done, GiveUp, Dismiss, SendTx, TakesReceipt, chainVars, walletVars, TypeOK, QueueTypes,
       Actors
  <2>3. <<"tool", KeyAccount>> \notin overtaken
    BY <1>2, <1>4 DEF Tab, Connect, Disconnect, Go, Read, GrantPermit, Decrypt, Press, Confirm,
       Fail, Done, GiveUp, Dismiss, Ended, Forgets, SendTx, chainVars, walletVars
  <2> QED BY <1>2, <2>1, <2>2, <2>3, SeenToOthers DEF ToolHolds
<1>5. CASE Tool
  BY <1>1, <1>2, <1>5, ToolHoldsByTool
<1> QED
  BY <1>3, <1>4, <1>5 DEF Next

\* A refusal is the tool's transaction mined without what its call saw to.
LEMMA RefusedWhenTaken ==
  ASSUME TypeOK, TheToolAwaitsOne, ToolHolds, Next,
         receipt["tool"] # "refused", receipt'["tool"] = "refused",
         <<"tool", KeyAccount>> \notin overtaken
  PROVE  \/ call.tool = "localWrap" /\ usdc[KeyAccount] < call.n
         \/ call.tool = "deposit" /\ ~sourceLive
<1>1. ~Tab
  BY DEF Tab, Connect, Disconnect, Go, Read, GrantPermit, Decrypt, Press, Confirm, Fail,
     Done, GiveUp, Dismiss, SendTx, TakesReceipt, chainVars, walletVars, TypeOK, QueueTypes,
     Actors
<1>2. ~Tool
  BY DEF Tool, Call, ReadHeld, ReadAllowance, ReadOperator, Encrypt, Send, Awaited,
     SentAgain, CallFails, Position, SendTx, TakesReceipt, chainVars, walletVars, TypeOK,
     QueueTypes, Actors
<1>3. PICK a \in Accounts, liquid \in BOOLEAN : Mine(a, liquid, Watching)
  BY <1>1, <1>2 DEF Next, Chain, Finalize, Accrued, Spend, OperatorEnds, SourceEnds
<1>4. /\ 1 \in 1..Len(mempool[a]) /\ mempool[a][1].by = "tool"
      /\ receipt'["tool"] = Outcome(mempool[a][1], liquid)
  BY <1>3, MineQueue DEF TypeOK, Actors
<1>5. PICK tx : tx = mempool[a][1]
  OBVIOUS
<1>6. tx.from = a
  BY <1>4, <1>5, QueueFacts DEF TypeOK
<1>7. /\ call.at = "await" /\ receipt["tool"] = "none" /\ a = KeyAccount
      /\ tx.kind = call.tx /\ tx.who = KeyAccount /\ tx.n = ToolNumber
  BY <1>4, <1>5 DEF TheToolAwaitsOne, Awaits, ToolNumber
<1>8. /\ Where = call.tx /\ ~Mined /\ SeenTo
      /\ call.tool \in ToolNames /\ call.tx \in Steps(call.tool)
  BY <1>7 DEF ToolHolds, ToolSteps, Where, Mined, NoCall
<1>9. Refused(tx)
  BY <1>4, <1>5 DEF Outcome
<1>10. ~(tx.kind = "deposit" /\ ~operator[a])
  <2>1. call.tx = "deposit" => call.tool = "deposit"
    BY <1>8 DEF Steps, ToolNames
  <2> QED BY <1>7, <1>8, <2>1 DEF SeenTo
<1> SUFFICES ASSUME ~(call.tool = "deposit" /\ ~sourceLive)
             PROVE  call.tool = "localWrap" /\ usdc[KeyAccount] < call.n
  OBVIOUS
<1>17. ~(tx.kind = "deposit" /\ ~sourceLive)
  BY <1>7, <1>8 DEF Steps, ToolNames
<1>11. call.tx = "wrap" /\ (usdc[KeyAccount] < tx.n \/ allowance[KeyAccount] < tx.n)
  BY <1>6, <1>7, <1>9, <1>10, <1>17 DEF Refused
<1>12. tx.n = call.n /\ call.tool \in {"wrap", "localWrap"}
  BY <1>7, <1>8, <1>11 DEF ToolNumber, Steps, ToolNames
<1>13. /\ allowance[KeyAccount] >= call.n
       /\ call.tool = "wrap" => usdc[KeyAccount] >= call.n
  BY <1>8, <1>11 DEF SeenTo
<1>14. allowance[KeyAccount] \in Nat /\ usdc[KeyAccount] \in Nat /\ call.n \in Nat
  BY Givens DEF TypeOK, MoneyTypes, ToolTypes
<1>15. usdc[KeyAccount] < call.n
  BY <1>11, <1>12, <1>13, <1>14
<1>16. call.tool # "wrap"
  BY <1>13, <1>14, <1>15
<1> QED
  BY <1>12, <1>15, <1>16


-----------------------------------------------------------------------------
(* The theorems                                                            *)

LEMMA InitTypes ==
  ASSUME Init
  PROVE  TypeOK
<1> USE DEF Init
<1>1. \A a \in Accounts :
        /\ Opening[a].usdc \in Nat /\ Opening[a].allowance \in Nat
        /\ Opening[a].operator \in BOOLEAN /\ Opening[a].wallet \in Nat
        /\ Opening[a].pool \in Nat /\ Opening[a].filed \in Nat
  BY WalletsAssumption
<1>2. MoneyTypes
  <2>1. ASSUME NEW a \in Accounts, NEW c \in Cells
        PROVE  cell[a][c] \in Handles
    <3>1. PICK v : v = IF c = "won" THEN 0 ELSE Opening[a][c]
      OBVIOUS
    <3>2. v \in Nat
      BY <1>1, <3>1 DEF Cells
    <3>3. [id |-> <<0, a, c>>, holds |-> v] \in Handles
      BY <3>2 DEF Handles
    <3>4. cell[a][c] = IF v = 0 THEN ZERO ELSE [id |-> <<0, a, c>>, holds |-> v]
      BY <3>1 DEF WalletsInit
    <3> QED BY <3>3, <3>4, ZeroHandle
  <2>2. cell \in [Accounts -> [Cells -> Handles]]
    <3>1. DOMAIN cell = Accounts /\ \A a \in Accounts : cell[a] = [c \in Cells |-> cell[a][c]]
      BY DEF WalletsInit
    <3>2. cell = [a \in Accounts |-> cell[a]]
      BY DEF WalletsInit
    <3>3. \A a \in Accounts : cell[a] \in [Cells -> Handles]
      BY <2>1, <3>1
    <3> QED BY <3>2, <3>3
  <2>3. requests \in [Accounts -> Seq(Nat)]
    <3>1. \A a \in Accounts :
            (IF Opening[a].filed = 0 THEN <<>> ELSE <<Opening[a].filed>>) \in Seq(Nat)
      BY <1>1
    <3> QED BY <3>1 DEF WalletsInit
  <2>4. /\ usdc \in [Accounts -> Nat] /\ allowance \in [Accounts -> Nat]
        /\ operator \in [Accounts -> BOOLEAN] /\ credit \in [Accounts -> Nat]
        /\ received \in [Accounts -> Nat] /\ steps \in Nat
    BY <1>1 DEF WalletsInit
  <2> QED BY <2>2, <2>3, <2>4 DEF MoneyTypes
<1>3. QueueTypes
  BY DEF WalletsInit, QueueTypes
<1>4. TabTypes
  <2>1. who \in Accounts /\ screen \in Screens /\ opened \subseteq Handles
    BY Givens DEF TabInit, Screens
  <2>2. /\ DOMAIN seen = Accounts
        /\ \A a \in Accounts : seen[a] = [f \in Fields |-> Unread]
    BY DEF TabInit, NoneSeen
  <2>3. \A a \in Accounts : /\ seen[a] = [f \in Fields |-> seen[a][f]]
                            /\ \A f \in Fields : seen[a][f] = Unread
    BY <2>2
  <2>4. cashAt \in [Accounts -> Nat] /\ \A a \in Accounts : cashAt[a] <= received[a]
    BY DEF TabInit, WalletsInit
  <2> QED BY <2>1, <2>2, <2>3, <2>4 DEF TabTypes, Fields, Cells
<1>5. ActTypes
  BY DEF TabInit, ActTypes, Idle, Busy
<1>6. ToolTypes
  BY DEF ToolsInit, ToolTypes, NoCall
<1> QED
  BY <1>2, <1>3, <1>4, <1>5, <1>6 DEF TypeOK

LEMMA InitHolds ==
  ASSUME Init
  PROVE  IInv
<1> USE DEF Init
<1>1. TypeOK
  BY InitTypes
<1>2. act = Idle /\ ~Busy /\ act.phase = "idle"
  BY DEF TabInit, Idle, Busy
<1>3. \A a \in Accounts : Len(mempool[a]) = 0 /\ 1..Len(mempool[a]) = {}
  BY DEF WalletsInit
<1>4. receipt["tab"] = "none" /\ receipt["tool"] = "none"
  BY DEF WalletsInit, Actors
<1>5. TheTabAwaitsOne /\ TheToolAwaitsOne
  BY <1>3, <1>4 DEF TheTabAwaitsOne, TheToolAwaitsOne, Awaits
<1>6. OnItsScreen /\ ButtonsHold /\ PressedMeansMoved
  BY <1>2, <1>4 DEF OnItsScreen, ButtonsHold, PressedMeansMoved
<1>7. FiguresFollow
  BY DEF TabInit, FiguresFollow
<1>8. ToolHolds
  BY DEF ToolsInit, ToolHolds, ToolSteps, NoCall
<1>9. RecordsBacked
  <2>1. \A a \in Accounts : seen[a]["usdc"] = Unread
    BY DEF TabInit, NoneSeen, Fields
  <2>2. ASSUME NEW a \in Accounts, stored[a] # Nobody
        PROVE  Record(stored[a]) /\ stored[a].who = a /\ Backed(stored[a], a)
    <3>1. stored[a] = [n |-> Opening[a].filed, base |-> Opening[a].usdc,
                       got |-> 0, known |-> TRUE, who |-> a]
      BY <2>2 DEF TabInit
    <3>2. Opening[a].filed \in Nat /\ Opening[a].usdc \in Nat
      BY WalletsAssumption
    <3>3. usdc[a] = Opening[a].usdc /\ received[a] = 0
      BY DEF WalletsInit
    <3>4. Record(stored[a]) /\ stored[a].who = a
      BY <3>1, <3>2 DEF Record
    <3>5. usdc[a] + 0 <= Opening[a].usdc + received[a]
      BY <3>2, <3>3
    <3> QED BY <2>1, <3>1, <3>4, <3>5 DEF Backed
  <2>3. pending # Nobody => Record(pending) /\ pending = stored[pending.who]
    <3>1. SUFFICES ASSUME pending # Nobody
                   PROVE  Record(pending) /\ pending = stored[pending.who]
      OBVIOUS
    <3>2. pending = stored[who] /\ who \in Accounts
      BY <3>1, Givens DEF TabInit
    <3> QED BY <2>2, <3>1, <3>2
  <2>4. DOMAIN stored = Accounts
    BY DEF TabInit
  <2> QED BY <1>2, <2>1, <2>2, <2>3, <2>4 DEF RecordsBacked
<1> QED
  BY <1>1, <1>5, <1>6, <1>7, <1>8, <1>9 DEF IInv

LEMMA NextHolds ==
  ASSUME IInv, Next
  PROVE  IInv'
<1> USE DEF IInv
<1>1. TypeOK'
  BY TypesKept
<1>2. FiguresFollow'
  BY FiguresFollowOnChain, FiguresFollowOffChain DEF Next
<1>3. ButtonsHold'
  <2>1. CASE Chain
    BY <1>1, <2>1, ButtonsHoldOnChain
  <2>2. CASE Tab
    BY <1>1, <2>2, ButtonsHoldByTab
  <2>3. CASE Tool /\ UNCHANGED tabVars
    BY <2>3, ButtonsHoldByTool
  <2> QED BY <2>1, <2>2, <2>3 DEF Next
<1> QED
  BY <1>1, <1>2, <1>3, TabAwaitsOneKept, ScreenKept, PressedMeansMovedKept,
     ToolAwaitsOneKept, ToolHoldsKept, RecordsBackedKept

LEMMA Stuttering ==
  ASSUME IInv, UNCHANGED vars
  PROVE  IInv'
<1> USE DEF IInv, vars, walletVars, chainVars, money, tabVars, toolVars
<1>1. TypeOK'
  BY DEF TypeOK, MoneyTypes, QueueTypes, TabTypes, ActTypes, ToolTypes, Busy
<1>2. TheTabAwaitsOne' /\ TheToolAwaitsOne'
  BY DEF TheTabAwaitsOne, TheToolAwaitsOne, Awaits
<1>3. OnItsScreen' /\ FiguresFollow' /\ PressedMeansMoved'
  BY DEF OnItsScreen, FiguresFollow, PressedMeansMoved, Busy, OnChain
<1>4. ButtonsHold'
  <2>1. (Busy /\ receipt["tab"] = "none" /\ Cleared)' = (Busy /\ receipt["tab"] = "none" /\ Cleared)
    BY DEF Busy, Cleared
  <2>2. \A i : FundHolds(i)' = FundHolds(i)
    BY DEF FundHolds, Ahead
  <2>3. FundHolds(Len(mempool[act.who]) + 1)' = FundHolds(Len(mempool[act.who]) + 1)
    BY DEF FundHolds, Ahead
  <2>4. StillHolds => StillHolds'
    BY <2>2, <2>3 DEF StillHolds, Drained, Awaits
  <2> QED BY <2>1, <2>4 DEF ButtonsHold
<1>5. ToolHolds'
  BY DEF ToolHolds, ToolSteps, SeenTo, Where, Mined
<1>6. RecordsBacked'
  BY DEF RecordsBacked, Backed, Record, Busy
<1> QED
  BY <1>1, <1>2, <1>3, <1>4, <1>5, <1>6

\* For every set of accounts, every amount typed or asked for and any number of events:
\* the types of what the tab, the tools and the chain keep, and all that the theorems
\* below rest on.
THEOREM SiteInvariant == Spec => []IInv
<1>1. Init => IInv
  BY InitHolds
<1>2. IInv /\ [Next]_vars => IInv'
  BY NextHolds, Stuttering
<1> QED
  BY <1>1, <1>2, PTL DEF Spec

\* Once an action has ended and its reads are in, every figure on the screen is the
\* connected account's own and the chain's, or was changed by somebody else since; a
\* number shown is the decryption of that very handle (useAction and refresh in
\* lib/tx.ts and the screens, showConfidential in lib/format.ts).
THEOREM FiguresStayCurrent == Spec => []FiguresAreCurrent
<1>1. IInv => FiguresAreCurrent
  BY FiguresAreRead DEF IInv
<1> QED
  BY <1>1, SiteInvariant, PTL

\* What a button lets a person press the chain does, unless its figures were stale,
\* hidden or warned about, another took from the account first or its grant ran out, the
\* wallet's account was switched before it was confirmed, or for what the page never
\* looks at: the source's right to a deposit, whether the wallet holds it, the liquidity
\* of the pool (the buttons' `disabled` of Wrap.tsx and Pool.tsx against the checks of
\* the token, the wrapper, the pool and its source).
THEOREM ButtonsKeepTheirWord == Spec => []PressedMeansMoved
<1>1. IInv => PressedMeansMoved
  BY DEF IInv
<1> QED
  BY <1>1, SiteInvariant, PTL

\* A tool's transaction is refused only when another took from the account, or its grant
\* to the pool ran out, after the call began, whatever was already there and wherever
\* the retries fall; but localWrap does not look at the cash, and no deposit at whether
\* the pool's source may still pull it (wrap.ts, pool.ts).
THEOREM ToolsSeeToIt == Spec => ToolRefusalsAreKnown
<1> DEFINE Races ==
      receipt["tool"] # "refused" /\ receipt'["tool"] = "refused" =>
        \/ <<"tool", KeyAccount>> \in overtaken
        \/ call.tool = "localWrap" /\ usdc[KeyAccount] < call.n
        \/ call.tool = "deposit" /\ ~sourceLive
<1>1. IInv /\ [Next]_vars => [Races]_vars
  BY RefusedWhenTaken DEF IInv
<1> QED
  BY <1>1, SiteInvariant, PTL DEF Spec, ToolRefusalsAreKnown

\* A filed unwrap stays on record until that much USDC has come in since, it is dismissed
\* or another is filed over it, whatever reads, account switches and other payments
\* happen meanwhile (the pending request of Wrap.tsx and its localStorage key).
THEOREM RequestsStay == Spec => RequestsKeptUntilPaid
<1> DEFINE Kept(a) ==
      stored[a] # Nobody /\ stored'[a] # stored[a] =>
        \/ Dismiss
        \/ act.kind = "unwrap" /\ Confirm
        \/ pending # Nobody /\ pending.who # a
        \/ ~stored[a].known
        \/ received[a] - stored[a].got >= stored[a].n
<1>1. IInv /\ [Next]_vars => [\A a \in Accounts : Kept(a)]_vars
  <2>1. ASSUME IInv, Next, NEW a \in Accounts
        PROVE  Kept(a)
    BY <2>1, RequestsKept DEF IInv
  <2> QED BY <2>1
<1> QED
  BY <1>1, SiteInvariant, PTL DEF Spec, RequestsKeptUntilPaid
=============================================================================
