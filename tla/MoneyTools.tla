----------------------------- MODULE MoneyTools -----------------------------
(***************************************************************************)
(* A tool of the assistant that moves an account's money through the SDK:  *)
(* WrapClient (sdk/src/wrap.ts), PoolClient (sdk/src/pool.ts) and the      *)
(* encryption and retries under them (sdk/src/fhe.ts), as tools.ts calls   *)
(* them.  Every await is a step of its own, and anything may happen to the *)
(* account in between.                                                     *)
(***************************************************************************)
EXTENDS Wallets

CONSTANTS KeyAccount,   \* the account the tools sign for
          Amounts,      \* the amounts a tool is given as numbers
          Ceiling,      \* the server's ceiling on one unwrap
          Attempts      \* tries withRetry makes (4 in fhe.ts)

ASSUME ToolsAssumption ==
    KeyAccount \in Accounts /\ Amounts \subseteq Nat /\ Ceiling \in Nat /\ Attempts \in Nat

VARIABLES call,  \* the tool call under way
          refs   \* the handles the session holds references to

toolVars == <<call, refs>>

\* `local` tools sign with the vault's owner key, the others with the session key.
ToolNames == {"wrap", "localWrap", "unwrap", "deposit", "withdraw"}
NoCall == [tool |-> "none", n |-> 0, at |-> "idle", tx |-> "none",
           short |-> 0, tries |-> 0]

ToolsInit == call = NoCall /\ refs = {}

\* pool_position: references to the position and the winnings.  The pending
\* credit is handed out too, without a way to resolve it.
Position ==
    /\ Step
    /\ call = NoCall
    /\ refs' = {cell[KeyAccount]["pool"], cell[KeyAccount]["won"]}
    /\ UNCHANGED chainVars
    /\ UNCHANGED call

\* What a reference resolves to: the handle it was read with, decrypted -- not
\* the cell's value now.  A zero amount is refused before anything is sent.
Resolved == {h.holds : h \in refs} \ {0}

\* Where each tool starts.
FirstStep(tool) ==
    CASE tool = "wrap" -> "readHeld"
      [] tool = "localWrap" -> "approve"
      [] tool = "deposit" -> "readOperator"
      [] OTHER -> "encrypt"

Call(tool, n) ==
    /\ call = NoCall
    /\ tool = "unwrap" => n <= Ceiling
    /\ call' = [NoCall EXCEPT !.tool = tool, !.n = n, !.at = FirstStep(tool)]
    /\ Step
    /\ UNCHANGED chainVars

At(step) == call' = [call EXCEPT !.at = step, !.tries = 0]

\* wrap: the faucet covers what the account is short of.
ReadHeld ==
    /\ call.at = "readHeld"
    /\ IF usdc[KeyAccount] < call.n
       THEN call' = [call EXCEPT !.at = "mint", !.short = call.n - usdc[KeyAccount]]
       ELSE At("readAllowance")
    /\ UNCHANGED walletVars

ReadAllowanceAsAFlag ==
    /\ call.at = "readAllowance"
    /\ At(IF allowance[KeyAccount] = 0 THEN "approve" ELSE "wrap")
    /\ UNCHANGED walletVars
ReadAllowance ==
    /\ call.at = "readAllowance"
    /\ At(IF allowance[KeyAccount] < call.n THEN "approve" ELSE "wrap")
    /\ UNCHANGED walletVars

\* deposit: the pool is authorised first, unless it already is.
ReadOperator ==
    /\ call.at = "readOperator"
    /\ At(IF operator[KeyAccount] THEN "encrypt" ELSE "setOperator")
    /\ UNCHANGED walletVars

\* The proof is made and registered with the relayer (warmInput).
Encrypt ==
    /\ call.at = "encrypt"
    /\ At(call.tool)
    /\ UNCHANGED walletVars

\* The call a step sends; its answer is awaited.
ToolTx(by) ==
    Tx(call.at, KeyAccount, KeyAccount,
       CASE call.at = "mint" -> call.short
         [] call.at = "setOperator" -> 0
         [] OTHER -> call.n,
       by)
Sending == {"mint", "approve", "wrap", "setOperator", "unwrap", "deposit", "withdraw"}

Send ==
    /\ call.at \in Sending
    /\ call.tries < Attempts
    /\ SendTx(KeyAccount, ToolTx("tool"))
    /\ UNCHANGED steps
    /\ call' = [call EXCEPT !.at = "await", !.tx = call.at]

\* What follows each transaction once it is mined.
After(step) ==
    CASE step = "mint" -> "readAllowance"
      [] step = "approve" -> "wrap"
      [] step = "setOperator" -> "encrypt"
      [] OTHER -> "idle"

\* tx.wait() answers, and throws when the transaction was refused.
Awaited ==
    /\ call.at = "await"
    /\ receipt["tool"] # "none"
    /\ IF receipt["tool"] = "refused" \/ After(call.tx) = "idle"
       THEN call' = NoCall /\ Forgets("tool")
       ELSE At(After(call.tx)) /\ UNCHANGED overtaken
    /\ TakesReceipt("tool")
    /\ UNCHANGED <<money, mempool, steps>>

\* withRetry.  An attempt that never reached the network leaves nothing behind,
\* so only the last one shows, as CallFails; but a submission whose answer was
\* lost is in the queue all the same, and is made again.
SentAgain ==
    /\ call.at \in {"deposit", "withdraw"}
    /\ call.tries < Attempts
    /\ Step
    /\ SendTx(KeyAccount, ToolTx("nobody"))
    /\ call' = [call EXCEPT !.tries = @ + 1]

\* Any other failure ends the call: what was already mined stays.
CallFails ==
    /\ Step
    /\ call # NoCall
    /\ call.at # "await"
    /\ call' = NoCall
    /\ Forgets("tool")
    /\ UNCHANGED <<money, mempool, receipt>>
=============================================================================
