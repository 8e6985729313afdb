-------------------------------- MODULE Site --------------------------------
(***************************************************************************)
(* A browser tab and the assistant's tools moving the money of the same    *)
(* accounts, with the keepers, the wrapper's operator and the accounts'    *)
(* owners doing what they do in between.                                   *)
(***************************************************************************)
EXTENDS MoneyScreens, MoneyTools

vars == <<walletVars, tabVars, toolVars>>

Init == WalletsInit /\ TabInit /\ ToolsInit

Kinds == {"mint", "approve", "wrap", "unwrap", "fund", "setOperator",
          "deposit", "withdraw", "claim"}

\* Those with something under way, and those of them who deposit.
Watching == {x \in Actors : IF x = "tab" THEN Busy ELSE call # NoCall}
Depositing == {x \in Watching : (IF x = "tab" THEN act.kind ELSE call.tool) = "deposit"}

Chain ==
    \/ \E a \in Accounts, liquid \in BOOLEAN :
         Mine(a, liquid, Watching) /\ Misses(Head(mempool[a]).by = "tab")
    \/ /\ \/ \E a \in Accounts : \/ Finalize(a) \/ Accrued(a) \/ Spend(a, Watching)
                                 \/ OperatorEnds(a, Depositing)
          \/ SourceEnds
       /\ Misses(FALSE)

Tab ==
    \/ \E a \in Accounts : Connect(a)
    \/ Disconnect
    \/ \E s \in Screens : Go(s)
    \/ Read
    \/ GrantPermit
    \/ Decrypt
    \/ /\ who # Nobody
       /\ \E kind \in Kinds, target \in Accounts :
             \E n \in Entered(kind) \union {0, Faucet} : Press(kind, n, target)
    \/ Confirm
    \/ Fail
    \/ Done
    \/ GiveUp
    \/ Dismiss

Tool ==
    \/ /\ \/ \E tool \in ToolNames, n \in Amounts \union Resolved : Call(tool, n)
          \/ ReadHeld
          \/ ReadAllowance
          \/ ReadOperator
          \/ Encrypt
          \/ Send
          \/ Awaited
          \/ SentAgain
          \/ CallFails
       /\ UNCHANGED refs
    \/ Position

Next ==
    \/ Chain /\ UNCHANGED toolVars
    \/ Tab /\ UNCHANGED toolVars
    \/ Tool /\ UNCHANGED tabVars

Spec == Init /\ [][Next]_vars

-----------------------------------------------------------------------------
(* What the tab and the tools promise                                      *)

\* Once an action has ended and the reads it asked for are in, every figure on
\* the screen is the connected account's own and the chain's -- unless somebody
\* else changed it since: the screen's `refresh` covers whatever its buttons
\* move, a decryption is never shown for another handle or another account, and
\* a number is never shown for a value nobody decrypted.
FiguresAreCurrent ==
    who # Nobody /\ ~Busy /\ toRead = {} =>
        \A f \in Shown(screen) :
            \/ f \in unseen
            \/ /\ seen[who][f] = OnChain(who, f)
               /\ f \in Cells => Figure(f) \in {Unread, Hidden, OnChain(who, f).holds}

\* What a button lets a person press the chain does: a transaction of the tab is
\* refused, or moves less than was typed, only when the figures it was pressed on
\* were stale, hidden or warned about, when another transaction took from the
\* account first or its grant to the pool ran out, when the wallet's account was
\* switched before it was confirmed -- or for one of three things the page does
\* not look at: that the pool's source may still pull a deposit, that the wallet
\* holds it, that the pool is liquid enough for a withdrawal.
PressedMeansMoved ==
    receipt["tab"] \in {"refused", "short", "illiquid"} =>
        \/ ~act.sure \/ act.strayed \/ <<"tab", act.who>> \in overtaken
        \/ act.kind = "deposit" /\ receipt["tab"] = "refused" /\ ~sourceLive
        \/ act.kind = "deposit" /\ receipt["tab"] = "short" /\ ~act.enough
        \/ act.kind = "withdraw" /\ receipt["tab"] = "illiquid"

\* A tool's transaction is refused only when another took from the account, or its
\* grant to the pool ran out, after the call began: the SDK sees to each
\* precondition before what needs it.  Two it does not see to: a local wrap does
\* not look at the cash, and a deposit not at whether the source may still pull.
ToolRefusalsAreKnown ==
    [][receipt["tool"] # "refused" /\ receipt'["tool"] = "refused" =>
           \/ <<"tool", KeyAccount>> \in overtaken
           \/ call.tool = "localWrap" /\ usdc[KeyAccount] < call.n
           \/ call.tool = "deposit" /\ ~sourceLive]_vars

\* A filed unwrap stays on record until the account has received that much USDC
\* since it was filed, is dismissed, or another is filed over it.  Two ways of
\* losing it are known and left out: a request filed before the USDC was read,
\* and another account's request still on the panel.
RequestsKeptUntilPaid ==
    [][\A a \in Accounts :
         stored[a] # Nobody /\ stored'[a] # stored[a] =>
             \/ Dismiss
             \/ act.kind = "unwrap" /\ Confirm
             \/ pending # Nobody /\ pending.who # a
             \/ ~stored[a].known
             \/ received[a] - stored[a].got >= stored[a].n]_vars
=============================================================================
