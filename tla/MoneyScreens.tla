---------------------------- MODULE MoneyScreens ----------------------------
(***************************************************************************)
(* One browser tab of the site: the Wrap, Pool and Balances screens        *)
(* (components/screens/Wrap.tsx, Pool.tsx, Balances.tsx), the connected    *)
(* wallet (Sidebar.tsx, lib/chain.ts) and the hook every button goes       *)
(* through (lib/tx.ts).                                                    *)
(*                                                                         *)
(* What the tab shows is what it last read: `seen` is its query cache, one *)
(* entry per account and field, and `toRead` the reads it has asked for    *)
(* and not got.  A button captures the account and the figures of the      *)
(* render it was pressed in; the wallet sends from the account connected   *)
(* when it is confirmed.                                                   *)
(***************************************************************************)
EXTENDS Wallets

CONSTANTS Nobody,      \* no wallet connected, no request filed
          Unread,      \* a read that has not answered yet
          Hidden,      \* the dots of a value this browser cannot read
          Typed,       \* the amounts a person types
          Faucet,      \* what a "Get 1,000" button mints
          Reconnected, \* the account the page finds connected when it loads
          Signed       \* the permits this browser already keeps

ASSUME TabAssumption ==
    /\ Nobody \notin Accounts /\ Reconnected \in Accounts
    /\ Unread \notin Handles
    /\ Typed \subseteq Nat /\ Faucet \in Nat
    /\ Signed \in [Accounts -> SUBSET {"token", "pool"}]

VARIABLES who,     \* the connected account
          screen,  \* the screen shown
          seen,    \* what the tab last read
          toRead,  \* the reads under way
          permits, \* the contracts each account has signed a permit for
          opened,  \* the handles decrypted in this browser
          act,     \* the action under way (useAction)
          pending, \* the unwrap request the Wrap screen shows
          stored,  \* the request kept in localStorage, per account
          unseen,  \* the fields shown that others changed and were not read since
          cashAt   \* `received` when an account's USDC was last read

tabVars == <<who, screen, seen, toRead, permits, opened, act,
             pending, stored, unseen, cashAt>>

Fields == {"usdc", "allowance", "operator", "wallet", "pool", "won"}
Screens == {"wrap", "pool", "balances"}

\* The reads of each screen, and those its `refresh` makes again.
WrapReads == {"usdc", "allowance", "wallet"}
PoolReads == {"operator", "wallet", "pool", "won"}
BalancesReads == {"usdc", "wallet", "pool", "won"}
Shown(s) == CASE s = "wrap" -> WrapReads
              [] s = "pool" -> PoolReads
              [] OTHER -> BalancesReads
WrapRefreshWithoutAllowance == {"usdc", "wallet"}
WrapRefresh == {"usdc", "allowance", "wallet"}
PoolRefresh == {"operator", "wallet", "pool"}
Refreshed(s) == IF s = "wrap" THEN WrapRefresh ELSE PoolRefresh

\* The permit a screen asks for.
PermitFor(s) == IF s = "wrap" THEN {"token"} ELSE {"token", "pool"}

\* What the chain answers to a read.
OnChain(a, f) == CASE f = "usdc" -> usdc[a]
                   [] f = "allowance" -> allowance[a]
                   [] f = "operator" -> operator[a]
                   [] OTHER -> cell[a][f]

-----------------------------------------------------------------------------
(* What a screen shows (lib/format.ts)                                     *)

Permitted == who # Nobody /\ PermitFor(screen) \subseteq permits[who]

\* The decryptions this browser holds, looked up by handle.
ClearOf(h) == IF h \in opened THEN h.holds ELSE Unread

\* showConfidential: no wallet, loading, a real zero, hidden, or the number.
Confidential(f) ==
    IF who = Nobody THEN Nobody
    ELSE LET h == seen[who][f] IN
         IF h = Unread THEN Unread
         ELSE IF h = ZERO THEN 0
         ELSE IF ~Permitted \/ ClearOf(h) = Unread THEN Hidden
         ELSE ClearOf(h)

Public(f) == IF who = Nobody THEN Nobody ELSE seen[who][f]

Figure(f) == IF f \in Cells THEN Confidential(f) ELSE Public(f)

\* A figure the tab does not have yet counts as nothing (`?? 0n`).
Cash == IF seen[who]["usdc"] = Unread THEN 0 ELSE seen[who]["usdc"]
Allowed == IF seen[who]["allowance"] = Unread THEN 0 ELSE seen[who]["allowance"]
IsOperator == seen[who]["operator"] = TRUE

-----------------------------------------------------------------------------
(* Buttons                                                                 *)

Busy == act.phase \in {"wallet", "pending"}
Ready == who # Nobody /\ ~Busy

MayMint == screen = "wrap" /\ Ready
Approved(n) == Allowed >= n
MayApprove(n) == screen = "wrap" /\ Ready /\ ~Approved(n)
MayWrapUnapproved(n) == screen = "wrap" /\ Ready /\ Cash >= n
MayWrap(n) == screen = "wrap" /\ Ready /\ Approved(n) /\ Cash >= n

UnwrapBlocked(n) ==
    LET h == seen[who]["wallet"] IN
    \/ h = ZERO
    \/ ~Permitted
    \/ h # Unread /\ h \in opened /\ n > h.holds
MayUnwrap(n) == screen = "wrap" /\ Ready /\ ~UnwrapBlocked(n)

MayFund == screen = "pool" /\ Ready
MayAuthorise == screen = "pool" /\ Ready /\ ~IsOperator
MayDeposit(n) == screen = "pool" /\ Ready /\ IsOperator
MayWithdraw(n) == screen = "pool" /\ Ready /\ seen[who]["pool"] # ZERO
MayClaim == screen = "pool" /\ Ready /\ seen[who]["won"] # ZERO
MayClaimFor == screen = "pool" /\ Ready

\* What the box may hold: an amount typed, or what MAX fills in -- the public
\* balance, or a confidential one this browser has decrypted.
Entered(kind) ==
    LET Known(c) == IF Permitted THEN {ClearOf(h) : h \in {seen[who][c]} \intersect opened}
                    ELSE {}
        Filled == CASE kind = "wrap" -> {Cash}
                    [] kind \in {"unwrap", "deposit"} -> Known("wallet")
                    [] kind = "withdraw" -> Known("pool")
                    [] OTHER -> {}
    IN (Typed \union Filled) \ {0}

MayPress(kind, n, target) ==
    CASE kind = "mint" -> MayMint /\ n = Faucet /\ target = who
      [] kind = "approve" -> MayApprove(n) /\ n \in Entered(kind) /\ target = who
      [] kind = "wrap" -> MayWrap(n) /\ n \in Entered(kind) /\ target = who
      [] kind = "unwrap" -> MayUnwrap(n) /\ n \in Entered(kind) /\ target = who
      [] kind = "fund" -> MayFund /\ n = Faucet /\ target = who
      [] kind = "setOperator" -> MayAuthorise /\ n = 0 /\ target = who
      [] kind = "deposit" -> MayDeposit(n) /\ n \in Entered(kind) /\ target = who
      [] kind = "withdraw" -> MayWithdraw(n) /\ n \in Entered(kind) /\ target = who
      [] OTHER -> /\ n = 0
                  /\ MayClaimFor
                  /\ target = who => MayClaim

\* withdrawRisk: what the Pool screen warns about before a withdrawal.
WithdrawRisk(n) ==
    LET h == seen[who]["pool"] IN
    IF h = Unread \/ h = ZERO THEN "none"
    ELSE IF ~Permitted \/ h \notin opened THEN "unknown"
    ELSE IF n >= h.holds THEN "near" ELSE "none"

\* Whether the figures the button went by are the chain's, and the page had
\* nothing to warn about.  A deposit is not compared with the wallet.
Sure(kind, n) ==
    LET Current(F) == \A f \in F : seen[who][f] = OnChain(who, f) IN
    CASE kind = "wrap" -> Current({"usdc", "allowance"})
      [] kind = "unwrap" -> Current({"wallet"}) /\ seen[who]["wallet"] \in opened
      [] kind = "deposit" -> Current({"operator"})
      [] kind = "withdraw" -> Current({"pool"}) /\ WithdrawRisk(n) = "none"
      [] OTHER -> TRUE

-----------------------------------------------------------------------------
(* The tab                                                                 *)

Idle == [phase |-> "idle", kind |-> "none", n |-> 0, who |-> Nobody,
         asked |-> 0,
         base |-> 0, got |-> 0, known |-> TRUE, sure |-> TRUE, enough |-> TRUE,
         strayed |-> FALSE]

NoneSeen == [f \in Fields |-> Unread]

TabInit ==
    /\ who = Reconnected
    /\ screen \in {"wrap", "pool"}
    /\ seen = [a \in Accounts |-> NoneSeen]
    /\ toRead = Shown(screen)
    /\ permits = Signed
    /\ opened = {}
    /\ act = Idle
    /\ stored = [a \in Accounts |->
                   IF Opening[a].filed = 0 THEN Nobody
                   ELSE [n |-> Opening[a].filed, base |-> Opening[a].usdc,
                         got |-> 0, known |-> TRUE, who |-> a]]
    /\ pending = IF screen = "wrap" THEN stored[who] ELSE Nobody
    /\ unseen = {}
    /\ cashAt = [a \in Accounts |-> 0]

PaidWithoutBaseline(p, cash) ==
    p # Nobody /\ cash # Unread /\ cash >= p.n

\* The Wrap screen's effect: the request is settled once the USDC read is
\* above its baseline by what it asked for.
Paid(p, cash) ==
    p # Nobody /\ cash # Unread /\ cash >= p.base + p.n

\* It runs whenever the request, the account or the USDC read changes.
Settle(p, a, cash) ==
    IF Paid(p, cash)
    THEN pending' = Nobody /\ stored' = [stored EXCEPT ![a] = Nobody]
    ELSE pending' = p /\ UNCHANGED stored

\* The wallet is connected, or changes account: the new account's reads start
\* over and its stored request is loaded, but the effect first runs on the
\* request of the account that was there.
Connect(a) ==
    /\ Step
    /\ who # a
    /\ who' = a
    /\ toRead' = Shown(screen)
    /\ IF screen = "wrap" /\ Paid(pending, seen[a]["usdc"])
       THEN pending' = Nobody /\ stored' = [stored EXCEPT ![a] = Nobody]
       ELSE Settle(IF screen = "wrap" THEN stored[a] ELSE Nobody, a, seen[a]["usdc"])
    /\ UNCHANGED chainVars
    /\ unseen' = {}
    /\ UNCHANGED <<screen, seen, permits, opened, act, cashAt>>

Disconnect ==
    /\ Step
    /\ who # Nobody
    /\ who' = Nobody
    /\ toRead' = {}
    /\ pending' = Nobody
    /\ UNCHANGED chainVars
    /\ unseen' = {}
    /\ UNCHANGED <<screen, seen, permits, opened, act, stored, cashAt>>

\* Another screen is mounted: its reads start again.
Go(s) ==
    /\ Step
    /\ s # screen
    /\ ~Busy
    /\ screen' = s
    /\ toRead' = IF who = Nobody THEN {} ELSE Shown(s)
    /\ act' = Idle
    /\ IF who # Nobody /\ s = "wrap"
       THEN Settle(stored[who], who, seen[who]["usdc"])
       ELSE pending' = Nobody /\ UNCHANGED stored
    /\ UNCHANGED chainVars
    /\ unseen' = {}
    /\ UNCHANGED <<who, seen, permits, opened, cashAt>>

\* The reads asked for are answered, all of them together (they are seconds
\* apart at most).  While a request is shown the USDC is polled besides.
Read ==
    LET fields == IF toRead # {} THEN toRead ELSE {"usdc"} IN
    /\ who # Nobody
    /\ toRead # {} \/ pending # Nobody
    /\ seen' = [seen EXCEPT ![who] =
                  [f \in Fields |-> IF f \in fields THEN OnChain(who, f) ELSE @[f]]]
    /\ toRead' = {}
    /\ unseen' = unseen \ fields
    /\ cashAt' = IF "usdc" \in fields THEN [cashAt EXCEPT ![who] = received[who]] ELSE cashAt
    /\ IF screen = "wrap" /\ "usdc" \in fields
       THEN Settle(pending, who, usdc[who])
       ELSE UNCHANGED <<pending, stored>>
    /\ UNCHANGED walletVars
    /\ UNCHANGED <<who, screen, permits, opened, act>>

\* One EIP-712 signature covers the screen's contracts.
GrantPermit ==
    /\ Step
    /\ who # Nobody /\ ~Permitted
    /\ permits' = [permits EXCEPT ![who] = @ \union PermitFor(screen)]
    /\ UNCHANGED chainVars
    /\ UNCHANGED <<who, screen, seen, toRead, opened, act, pending,
                   stored, unseen, cashAt>>

\* The relayer answers with the screen's handles in the clear.
Decrypt ==
    LET asked == {seen[who][f] : f \in Shown(screen) \intersect Cells} \ {ZERO, Unread}
    IN /\ Permitted
       /\ ~(asked \subseteq opened)
       /\ opened' = opened \union asked
       /\ UNCHANGED walletVars
       /\ UNCHANGED <<who, screen, seen, toRead, permits, act,
                      pending, stored, unseen, cashAt>>

\* A button is pressed; the wallet asks (after the encryption, where there is one).
Press(kind, n, target) ==
    /\ Step
    /\ who # Nobody
    /\ MayPress(kind, n, target)
    /\ act' = [phase |-> "wallet", kind |-> kind, n |-> n, who |-> target, asked |-> 0,
               base |-> IF kind = "unwrap" THEN Cash ELSE 0,
               got |-> IF kind = "unwrap" THEN cashAt[who] ELSE 0,
               known |-> kind = "unwrap" => seen[who]["usdc"] # Unread,
               sure |-> Sure(kind, n),
               enough |-> kind = "deposit" => cell[target]["wallet"].holds >= n,
               strayed |-> FALSE]
    /\ UNCHANGED chainVars
    /\ UNCHANGED <<who, screen, seen, toRead, permits, opened,
                   pending, stored, unseen, cashAt>>

\* The transaction the wallet is asked for: "Get 1,000" on the Pool screen is
\* three, of which only the last is waited for.
Asked ==
    CASE act.kind = "fund" /\ act.asked = 0 -> Tx("mint", who, act.who, act.n, "nobody")
      [] act.kind = "fund" /\ act.asked = 1 -> Tx("approve", who, who, act.n, "nobody")
      [] act.kind = "fund" /\ act.asked = 2 -> Tx("wrap", who, act.who, act.n, "tab")
      [] OTHER -> Tx(act.kind, who, act.who, act.n, "tab")

\* It is confirmed and sent from whichever account is connected now.  An unwrap
\* is recorded at once, for the account of the press.
Confirm ==
    /\ act.phase = "wallet"
    /\ who # Nobody
    /\ SendTx(who, Asked)
    /\ UNCHANGED steps
    /\ act' = [act EXCEPT !.asked = @ + 1,
                          !.strayed = @ \/ (who # act.who /\ act.kind # "claim"),
                          !.phase = IF Asked.by = "tab" THEN "pending" ELSE "wallet"]
    /\ IF act.kind = "unwrap"
       THEN LET p == [n |-> act.n, base |-> act.base, got |-> act.got,
                      known |-> act.known, who |-> act.who]
                kept == [stored EXCEPT ![act.who] = p]
            IN IF Paid(p, seen[who]["usdc"])
               THEN pending' = Nobody /\ stored' = [kept EXCEPT ![who] = Nobody]
               ELSE pending' = p /\ stored' = kept
       ELSE UNCHANGED <<pending, stored>>
    /\ UNCHANGED <<who, screen, seen, toRead, permits, opened, unseen, cashAt>>

\* `run` ends in `done` or `error`, neither of which is busy, and `refresh`
\* follows either.
Ended ==
    /\ act' = Idle
    /\ Forgets("tab")
    /\ toRead' = IF who = Nobody THEN {} ELSE toRead \union Refreshed(screen)
    /\ UNCHANGED <<who, screen, seen, permits, opened, pending,
                   stored, unseen, cashAt>>

\* Cancelled in the wallet, on another network, or not encrypted.
Fail ==
    /\ Step
    /\ act.phase = "wallet"
    /\ Ended
    /\ UNCHANGED <<money, mempool, receipt>>

\* The receipt is there; whether it says `reverted` is not looked at.
Done ==
    /\ act.phase = "pending"
    /\ receipt["tab"] # "none"
    /\ Ended
    /\ TakesReceipt("tab")
    /\ UNCHANGED <<money, mempool, steps>>

\* The receipt does not come in time; the transaction may still be mined.
GiveUp ==
    /\ Step
    /\ act.phase = "pending"
    /\ receipt["tab"] = "none"
    /\ Ended
    /\ Abandons("tab")
    /\ UNCHANGED <<money, receipt>>

Dismiss ==
    /\ who # Nobody /\ pending # Nobody
    /\ pending' = Nobody
    /\ stored' = [stored EXCEPT ![who] = Nobody]
    /\ UNCHANGED walletVars
    /\ UNCHANGED <<who, screen, seen, toRead, permits, opened, act,
                   unseen, cashAt>>

\* What others change is news the tab has no way to hear of.
Misses(fromTab) ==
    /\ UNCHANGED <<who, screen, seen, toRead, permits, opened, act, pending,
                   stored, cashAt>>
    /\ unseen' = IF fromTab \/ who = Nobody THEN unseen
                 ELSE unseen \union {f \in Shown(screen) : OnChain(who, f)' # OnChain(who, f)}
=============================================================================
