------------------------------- MODULE Wallets -------------------------------
(***************************************************************************)
(* The money of a few accounts, as the site's screens and the SDK's money  *)
(* clients move it: public USDC, the wrapper's allowance on it, the        *)
(* confidential wallet, the position in the pool, the prizes credited to   *)
(* it, and the unwrap requests nobody has paid yet.                        *)
(*                                                                         *)
(* A confidential cell is read as a handle, and each write makes a new     *)
(* one; ZERO is the handle of a cell never written.  A handle carries what *)
(* it encrypts, which only a decryption may look at.                       *)
(*                                                                         *)
(* Transactions are sent, wait in their sender's queue in nonce order, and *)
(* are mined.  A refused one moves nothing and says so; the confidential   *)
(* ones may also succeed having moved nothing.                             *)
(***************************************************************************)
EXTENDS Naturals, Sequences, FiniteSets

CONSTANTS Accounts,   \* the accounts of the instance
          Opening,    \* what each account starts with
          MaxSteps    \* bound: clicks, calls, faults, transactions mined, others' moves

ASSUME WalletsAssumption ==
    /\ MaxSteps \in Nat
    /\ Opening \in [Accounts -> [usdc : Nat, allowance : Nat, operator : BOOLEAN,
                               wallet : Nat, pool : Nat, filed : Nat]]

VARIABLES usdc,      \* public balance of each account
          allowance, \* what the wrapper may still take of it
          operator,  \* whether the pool may move the account's cUSDC
          cell,      \* handles of the confidential cells of each account
          credit,    \* prizes credited and not yet folded into the position
          requests,  \* unwrap requests filed and not paid
          mempool,   \* transactions sent and not mined, per sender
          receipt,   \* what became of the transaction each actor waits for
          sourceLive, \* whether the pool's source may still pull what it is paid
          overtaken, \* <<actor, account>>: another took from it meanwhile, or its
                     \* grant to the pool ran out under a deposit
          received,  \* USDC that ever came in, per account
          steps      \* how much has happened, for the bound

money == <<usdc, allowance, operator, cell, credit, requests, received, sourceLive>>
chainVars == <<money, mempool, receipt, overtaken>>
walletVars == <<chainVars, steps>>

Cells == {"wallet", "pool", "won"}
Actors == {"tab", "tool"}
ZERO == [id |-> <<0, "none">>, holds |-> 0]
Handles == [id : ({0} \X {"none"}) \union (Nat \X Accounts \X Cells), holds : Nat]

Step == steps < MaxSteps /\ steps' = steps + 1

\* The ciphertext the next write of cell c of account a makes.
Fresh(a, c, v) == [id |-> <<steps + 1, a, c>>, holds |-> v]

\* A transaction: its kind, its sender, the account it names, an amount, and
\* who waits for it ("nobody" for one sent and not awaited).
Tx(kind, from, who, n, by) ==
    [kind |-> kind, from |-> from, who |-> who, n |-> n, by |-> by]

WalletsInit ==
    /\ usdc = [a \in Accounts |-> Opening[a].usdc]
    /\ allowance = [a \in Accounts |-> Opening[a].allowance]
    /\ operator = [a \in Accounts |-> Opening[a].operator]
    /\ cell = [a \in Accounts |->
                 [c \in Cells |->
                    LET v == IF c = "won" THEN 0 ELSE Opening[a][c]
                    IN IF v = 0 THEN ZERO ELSE [id |-> <<0, a, c>>, holds |-> v]]]
    /\ credit = [a \in Accounts |-> 0]
    /\ requests = [a \in Accounts |->
                     IF Opening[a].filed = 0 THEN <<>> ELSE <<Opening[a].filed>>]
    /\ mempool = [a \in Accounts |-> <<>>]
    /\ receipt = [x \in Actors |-> "none"]
    /\ sourceLive = TRUE
    /\ overtaken = {}
    /\ received = [a \in Accounts |-> 0]
    /\ steps = 0

-----------------------------------------------------------------------------
(* What a transaction does                                                 *)

\* A proof is bound to the account it was made for, so a confidential call is
\* refused from any other; wrap pulls public USDC from its sender; a deposit is
\* pulled by the pool and pulled on by its source, and each right may have ended.
Refused(tx) ==
    \/ /\ tx.kind \in {"unwrap", "deposit", "withdraw"}
       /\ tx.who # tx.from
    \/ tx.kind = "deposit" /\ (~operator[tx.from] \/ ~sourceLive)
    \/ /\ tx.kind = "wrap"
       /\ usdc[tx.from] < tx.n \/ allowance[tx.from] < tx.n

\* The position once its pending prizes are folded in (_drain).
Drained(a) == cell[a]["pool"].holds + credit[a]

\* What a confidential transaction moves: transfers are all or nothing, a
\* withdrawal takes at most the position and needs the pool to be liquid.
Moved(tx, liquid) ==
    CASE tx.kind \in {"unwrap", "deposit"} ->
           IF cell[tx.who]["wallet"].holds >= tx.n THEN tx.n ELSE 0
      [] tx.kind = "withdraw" ->
           IF ~liquid THEN 0
           ELSE IF Drained(tx.who) < tx.n THEN Drained(tx.who) ELSE tx.n
      [] OTHER -> tx.n

Write(a, c, v) == [cell EXCEPT ![a][c] = Fresh(a, c, v)]
WriteBoth(a, w, p) ==
    [cell EXCEPT ![a]["wallet"] = Fresh(a, "wallet", w),
                 ![a]["pool"] = Fresh(a, "pool", p)]

Mint(tx) ==
    /\ tx.kind = "mint"
    /\ usdc' = [usdc EXCEPT ![tx.who] = @ + tx.n]
    /\ received' = [received EXCEPT ![tx.who] = @ + tx.n]
    /\ UNCHANGED <<allowance, operator, cell, credit, requests>>

Approve(tx) ==
    /\ tx.kind = "approve"
    /\ allowance' = [allowance EXCEPT ![tx.from] = tx.n]
    /\ UNCHANGED <<usdc, operator, cell, credit, requests, received>>

Wrap(tx) ==
    /\ tx.kind = "wrap"
    /\ usdc' = [usdc EXCEPT ![tx.from] = @ - tx.n]
    /\ allowance' = [allowance EXCEPT ![tx.from] = @ - tx.n]
    /\ cell' = Write(tx.who, "wallet", cell[tx.who]["wallet"].holds + tx.n)
    /\ UNCHANGED <<operator, credit, requests, received>>

\* Debits now and files a request; the USDC comes when somebody finalises it.
Unwrap(tx) ==
    LET m == Moved(tx, TRUE) IN
    /\ tx.kind = "unwrap"
    /\ cell' = Write(tx.who, "wallet", cell[tx.who]["wallet"].holds - m)
    /\ requests' = [requests EXCEPT ![tx.who] = Append(@, m)]
    /\ UNCHANGED <<usdc, allowance, operator, credit, received>>

SetOperator(tx) ==
    /\ tx.kind = "setOperator"
    /\ operator' = [operator EXCEPT ![tx.from] = TRUE]
    /\ UNCHANGED <<usdc, allowance, cell, credit, requests, received>>

Deposit(tx) ==
    LET m == Moved(tx, TRUE) IN
    /\ tx.kind = "deposit"
    /\ cell' = WriteBoth(tx.who, cell[tx.who]["wallet"].holds - m, Drained(tx.who) + m)
    /\ credit' = [credit EXCEPT ![tx.who] = 0]
    /\ UNCHANGED <<usdc, allowance, operator, requests, received>>

Withdraw(tx, liquid) ==
    LET m == Moved(tx, liquid) IN
    /\ tx.kind = "withdraw"
    /\ cell' = WriteBoth(tx.who, cell[tx.who]["wallet"].holds + m, Drained(tx.who) - m)
    /\ credit' = [credit EXCEPT ![tx.who] = 0]
    /\ UNCHANGED <<usdc, allowance, operator, requests, received>>

Claim(tx) ==
    /\ tx.kind = "claim"
    /\ cell' = Write(tx.who, "pool", Drained(tx.who))
    /\ credit' = [credit EXCEPT ![tx.who] = 0]
    /\ UNCHANGED <<usdc, allowance, operator, requests, received>>

\* What can leave an account with less than somebody counted on: an approval
\* only when it lowers the allowance.
Takes(tx) ==
    \/ tx.kind \in {"wrap", "unwrap", "deposit", "withdraw"}
    \/ tx.kind = "approve" /\ tx.n < allowance[tx.from]

Outcome(tx, liquid) ==
    CASE Refused(tx) -> "refused"
      [] ~Refused(tx) /\ tx.kind = "withdraw" /\ ~liquid -> "illiquid"
      [] /\ ~Refused(tx) /\ (tx.kind = "withdraw" => liquid)
         /\ tx.n > 0 /\ Moved(tx, liquid) # tx.n -> "short"
      [] OTHER -> "moved"

\* The chain mines the next transaction of a.  `watching` are the actors with
\* something under way, who may find themselves overtaken.
Mine(a, liquid, watching) ==
    /\ Step
    /\ mempool[a] # <<>>
    /\ LET tx == Head(mempool[a]) IN
       /\ liquid \/ tx.kind = "withdraw"
       /\ \/ Refused(tx) /\ UNCHANGED money
          \/ /\ ~Refused(tx)
             /\ \/ Mint(tx) \/ Approve(tx) \/ Wrap(tx) \/ Unwrap(tx)
                \/ SetOperator(tx) \/ Deposit(tx) \/ Withdraw(tx, liquid)
                \/ Claim(tx)
       /\ receipt' = IF tx.by \in Actors
                     THEN [receipt EXCEPT ![tx.by] = Outcome(tx, liquid)]
                     ELSE receipt
       /\ overtaken' = IF Takes(tx) /\ ~Refused(tx)
                       THEN overtaken \union ((watching \ {tx.by}) \X {tx.from, tx.who})
                       ELSE overtaken
    /\ mempool' = [mempool EXCEPT ![a] = Tail(@)]
    /\ UNCHANGED sourceLive

-----------------------------------------------------------------------------
(* What others do to the accounts                                          *)

\* The wrapper's operator pays the oldest request; nothing says when.
Finalize(a) ==
    /\ Step
    /\ requests[a] # <<>>
    /\ usdc' = [usdc EXCEPT ![a] = @ + Head(requests[a])]
    /\ received' = [received EXCEPT ![a] = @ + Head(requests[a])]
    /\ requests' = [requests EXCEPT ![a] = Tail(@)]
    /\ UNCHANGED <<allowance, operator, cell, credit, mempool, receipt, overtaken,
                   sourceLive>>

\* A keeper's accrual credits a prize: winnings are written, the position waits.
Accrued(a) ==
    /\ Step
    /\ cell[a]["pool"] # ZERO
    /\ credit' = [credit EXCEPT ![a] = @ + 1]
    /\ cell' = Write(a, "won", cell[a]["won"].holds + 1)
    /\ UNCHANGED <<usdc, allowance, operator, requests, mempool, receipt,
                   overtaken, received, sourceLive>>

\* The account's owner pays somebody in public USDC, outside of the product.
Spend(a, watching) ==
    /\ Step
    /\ usdc[a] > 0
    /\ usdc' = [usdc EXCEPT ![a] = @ - 1]
    /\ overtaken' = overtaken \union (watching \X {a})
    /\ UNCHANGED <<allowance, operator, cell, credit, requests, mempool,
                   receipt, received, sourceLive>>

\* The grant an account gave the pool runs out (both give it for a year).
OperatorEnds(a, depositing) ==
    /\ Step
    /\ operator[a]
    /\ operator' = [operator EXCEPT ![a] = FALSE]
    /\ overtaken' = overtaken \union (depositing \X {a})
    /\ UNCHANGED <<usdc, allowance, cell, credit, requests, mempool, receipt,
                   received, sourceLive>>

\* The right the pool gave its source runs out; nobody renews it once the pool has
\* no owner.
SourceEnds ==
    /\ Step
    /\ sourceLive
    /\ sourceLive' = FALSE
    /\ UNCHANGED <<usdc, allowance, operator, cell, credit, requests, mempool, receipt,
                   received, overtaken>>

\* Sends a transaction of account a, after those it already sent.
SendTx(a, tx) ==
    /\ mempool' = [mempool EXCEPT ![a] = Append(@, tx)]
    /\ UNCHANGED <<money, receipt, overtaken>>

\* An actor is done: what others took meanwhile excuses nothing that follows.
Forgets(x) == overtaken' = {p \in overtaken : p[1] # x}

\* An actor has its answer.
TakesReceipt(x) == receipt' = [receipt EXCEPT ![x] = "none"]

\* An actor no longer waits for the transaction it sent from a.
Abandons(x) ==
    mempool' = [a \in Accounts |->
                  [i \in 1..Len(mempool[a]) |->
                     IF mempool[a][i].by = x
                     THEN [mempool[a][i] EXCEPT !.by = "nobody"] ELSE mempool[a][i]]]
=============================================================================
