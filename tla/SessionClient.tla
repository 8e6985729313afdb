--------------------------- MODULE SessionClient ---------------------------
(***************************************************************************)
(* packages/sdk: the process that opens sessions and spends through them.   *)
(* Every await is a step, so other operations, the owner and the chain get  *)
(* in between; a crash loses what is in memory and keeps the keystore.      *)
(* A call into the module is mined or it reverts: a revert is a step that   *)
(* changes nothing on chain and ends the operation.                         *)
(***************************************************************************)
EXTENDS SessionModule, Keystore, SequencesExt

CONSTANTS Ops,            \* identities of sends
          Expiry, Cap, Budget, Listed, Token,   \* what the client asks to open
          Visible,        \* readScope = "balance-visible"
          Amount,         \* the amount expressions a send may carry
          SendTo,         \* the recipients a send may name
          Recipients,     \* the recipients the owner and the key add and remove
          GasTarget,      \* DEFAULT_SESSION_GAS, in transactions
          OwnerFunds,     \* balances the owner may be left with
          MaxUpsets       \* bound of the model: upsets, pauses and steps of the owner

ASSUME ClientConstants ==
  /\ Expiry \in Nat /\ Cap \in Nat /\ Budget \in Amounts /\ Token \in Tokens
  /\ Listed \in Seq(Addresses) /\ \A k \in Keys : IsInjective(Append(Listed, k))
  /\ SendTo \subseteq Addresses /\ Recipients \subseteq Addresses /\ OwnerFunds \subseteq Amounts
  /\ IsFiniteSet(Ops)

VARIABLES flow,        \* the opening of a key
          batch,       \* calls a wallet accepted as a batch and has not mined
          live,        \* the owner a session object in memory acts for, per key
          delegated,   \* keys the owner let read its balance
          gas,         \* transactions a session key can pay for
          sweeping,    \* keys whose session this client closed and has not swept
          op,          \* the sends
          upsets       \* crashes, pauses and steps of the owner so far

clientVars == <<keystoreVars, flow, batch, live, delegated, gas, sweeping, op, upsets>>
allVars == <<vars, clientVars>>

Absent == "absent"
Idle == [pc |-> "idle", owner |-> NoOne, calls |-> <<>>]
NoSend == [pc |-> "idle", key |-> NoOne, to |-> NoOne, value |-> 0, budget |-> 0, had |-> 0,
           ran |-> FALSE, moved |-> 0, within |-> FALSE, outcome |-> "none"]

ClientInit ==
  /\ Init /\ \A o \in Owners : funds[Token][o] \in OwnerFunds
  /\ KeystoreInit
  /\ flow = [k \in Keys |-> Idle]
  /\ batch = [k \in Keys |-> <<>>]
  /\ live = [k \in Keys |-> Absent]
  /\ delegated = {}
  /\ gas = [k \in Keys |-> 0]
  /\ sweeping = {}
  /\ op = [i \in Ops |-> NoSend]
  /\ upsets = 0

---------------------------------------------------------------------------
(* Amount expressions: a base and the steps applied to it                   *)

ApplyStep(x, step) ==
  CASE step.kind = "scale" -> (x * step.bps) \div 10000
    [] step.kind = "minus" -> IF x > step.value THEN x - step.value ELSE 0
    [] step.kind = "cap"   -> IF x > step.max THEN step.max ELSE x

\* `budget` is the base that stands for the session's remaining budget.
Resolve(expr, budget) ==
  FoldLeft(ApplyStep, IF expr.base = "budget" THEN budget ELSE expr.value, expr.steps)

---------------------------------------------------------------------------
(* Opening: keystore.create, prepareSession, submitOwnerCalls, adoptSession  *)

Fails(k) == flow' = [flow EXCEPT ![k] = Idle]
Moves(k, from, to) == flow[k].pc = from /\ flow' = [flow EXCEPT ![k].pc = to]

\* A fresh key: its file is written first, its label next, its passphrase last.
CreateFile(o, k) ==
  /\ flow[k].pc = "idle" /\ ~Exists(k) /\ WriteKeyFile(k)
  /\ flow' = [flow EXCEPT ![k] = [pc |-> "file", owner |-> o, calls |-> <<>>]]
  /\ UNCHANGED <<vars, batch, live, delegated, gas, sweeping, op, upsets>>

CreateMeta(k) ==
  /\ Moves(k, "file", "meta")
  /\ WriteLabel(k)
  /\ UNCHANGED <<vars, batch, live, delegated, gas, sweeping, op, upsets>>

StoreSecret(k) ==
  /\ Moves(k, "meta", "stored")
  /\ PutSecret(k)
  /\ UNCHANGED <<vars, batch, live, delegated, gas, sweeping, op, upsets>>

\* Mutated: reading is granted before the session is opened.
OwnerCallsReadFirst == (IF Visible THEN <<"delegate">> ELSE <<>>) \o <<"operator", "open">>

\* What the owner's wallet is asked to do, in order.
OwnerCalls == IF Visible THEN <<"operator", "open", "delegate">> ELSE <<"operator", "open">>

\* Mutated: the key signs while the keystore is still being written.
PrepareAtOnce(k) ==
  /\ flow[k].pc \in {"meta", "stored"}
  /\ Consent(flow[k].owner, k, Expiry, Cap)
  /\ flow' = [flow EXCEPT ![k] = [@ EXCEPT !.pc = "prepared", !.calls = OwnerCalls]]
  /\ UNCHANGED <<keystoreVars, batch, live, delegated, gas, sweeping, op, upsets>>

\* The key, loaded back from the keystore, signs that this owner may open it.
Prepare(k) ==
  /\ flow[k].pc = "stored" /\ Loadable(k)
  /\ Consent(flow[k].owner, k, Expiry, Cap)
  /\ flow' = [flow EXCEPT ![k] = [@ EXCEPT !.pc = "prepared", !.calls = OwnerCalls]]
  /\ UNCHANGED <<keystoreVars, batch, live, delegated, gas, sweeping, op, upsets>>

\* The effect of one of the owner's calls once mined.
Mined(call, o, k) ==
  CASE call = "operator" -> SetOperator(o, Token, Expiry) /\ UNCHANGED delegated
    [] call = "open"     -> /\ OpenSession(o, k, Expiry, Cap, [t \in {Token} |-> Budget],
                                           Append(Listed, k))
                            /\ UNCHANGED delegated
    [] call = "delegate" -> delegated' = delegated \cup {k} /\ UNCHANGED vars

\* A wallet that supports batches takes all the calls and answers before they are
\* mined; when the request throws after the wallet took it, the calls are sent one
\* by one as well.
AskBatch(k) ==
  /\ flow[k].pc = "prepared"
  /\ batch' = [batch EXCEPT ![k] = flow[k].calls]
  /\ \E pc \in {"funding", "calls"} : flow' = [flow EXCEPT ![k].pc = pc]
  /\ UNCHANGED <<vars, keystoreVars, live, delegated, gas, sweeping, op, upsets>>

NoBatch(k) ==
  /\ Moves(k, "prepared", "calls")
  /\ UNCHANGED <<vars, keystoreVars, batch, live, delegated, gas, sweeping, op, upsets>>

\* The wallet mines its batch in order; a batch it drops is never mined.
BatchCall(o, k) ==
  /\ frame = NoOne
  /\ batch[k] # <<>>
  /\ Mined(Head(batch[k]), o, k)
  /\ batch' = [batch EXCEPT ![k] = Tail(@)]
  /\ UNCHANGED <<keystoreVars, flow, live, gas, sweeping, op, upsets>>

DropBatch(k) ==
  /\ batch[k] # <<>> /\ batch' = [batch EXCEPT ![k] = <<>>]
  /\ UNCHANGED <<vars, keystoreVars, flow, live, delegated, gas, sweeping, op, upsets>>

\* One by one: each is awaited, and when the answer to a mined call is lost the
\* opening fails although the call took effect.
SubmitCall(k) ==
  /\ frame = NoOne
  /\ flow[k].pc = "calls"
  /\ Mined(Head(flow[k].calls), flow[k].owner, k)
  /\ LET rest == Tail(flow[k].calls)
     IN  \/ flow' = [flow EXCEPT ![k] = [@ EXCEPT !.calls = rest,
                                          !.pc = IF rest = <<>> THEN "funding" ELSE "calls"]]
         \/ Fails(k)
  /\ UNCHANGED <<keystoreVars, batch, live, gas, sweeping, op, upsets>>

\* The owner tops the key up when it holds less than half of the target.
Fund(k) ==
  /\ Moves(k, "funding", "adopting")
  /\ gas' = [gas EXCEPT ![k] = IF @ < GasTarget \div 2 THEN GasTarget ELSE @]
  /\ UNCHANGED <<vars, keystoreVars, batch, live, delegated, sweeping, op, upsets>>

\* The session is taken over only on the chain's word.
Adopt(k) ==
  /\ frame = NoOne
  /\ flow[k].pc = "adopting"
  /\ Exists(k) /\ session[k].owner = flow[k].owner /\ session[k].expiry # 0
  /\ Loadable(k)
  /\ live' = [live EXCEPT ![k] = session[k].owner]
  /\ Fails(k)
  /\ UNCHANGED <<vars, keystoreVars, batch, delegated, gas, sweeping, op, upsets>>

\* A keychain that refuses, a call that reverts, a refused adoption, a lost read.
OpeningFails(k) ==
  /\ frame = NoOne
  /\ flow[k].pc # "idle" /\ Fails(k)
  /\ UNCHANGED <<vars, keystoreVars, batch, live, delegated, gas, sweeping, op, upsets>>

\* resumeSession believes whatever the chain says of the key.
Resume(k) ==
  /\ frame = NoOne
  /\ live[k] = Absent /\ flow[k].pc = "idle" /\ Loadable(k)
  /\ live' = [live EXCEPT ![k] = session[k].owner]
  /\ UNCHANGED <<vars, keystoreVars, flow, batch, delegated, gas, sweeping, op, upsets>>

---------------------------------------------------------------------------
(* Sending: prepare, submit                                                *)

OthersStay == UNCHANGED <<keystoreVars, flow, batch, live, delegated, sweeping, upsets>>
Ends(i, outcome) == op' = [op EXCEPT ![i] = [@ EXCEPT !.pc = "done", !.outcome = outcome]]

\* Mutated: a zero amount is not refused.
StartSendOfZero(i, k, to, expr) ==
  /\ frame = NoOne
  /\ op[i].pc = "idle" /\ live[k] # Absent
  /\ op' = [op EXCEPT ![i] = [@ EXCEPT !.pc = "proved", !.key = k, !.to = to,
                                       !.value = Resolve(expr, remaining[k][Token])]]
  /\ UNCHANGED <<vars, gas>> /\ OthersStay

\* The amount is resolved and its proof generated, long before the submission;
\* zero is refused, and what is no euint64 does not encrypt.
StartSend(i, k, to, expr) ==
  /\ frame = NoOne
  /\ op[i].pc = "idle" /\ live[k] # Absent
  /\ LET value == Resolve(expr, remaining[k][Token])
         fits == value \in Amounts \ {0}
         begun == [op[i] EXCEPT !.pc = IF fits THEN "proved" ELSE "done",
                                !.key = k, !.to = to, !.value = value,
                                !.outcome = IF fits THEN @ ELSE "no-amount"]
     IN  op' = [op EXCEPT ![i] = begun]
  /\ UNCHANGED <<vars, gas>> /\ OthersStay

AbortSend(i) ==
  /\ op[i].pc = "proved" /\ Ends(i, "aborted")
  /\ UNCHANGED <<vars, gas>> /\ OthersStay

\* readiness, and isRecipientAllowed before it.
Ready(k, to) ==
  /\ recipientIndex[k][to] # 0
  /\ Live(k) /\ CapLeft(k)
  /\ IsOperator(Token, session[k].owner)
  /\ ~aclPaused

CheckSend(i) ==
  /\ frame = NoOne
  /\ op[i].pc = "proved"
  /\ IF Ready(op[i].key, op[i].to) THEN op' = [op EXCEPT ![i].pc = "checked"]
                                   ELSE Ends(i, "refused")
  /\ UNCHANGED <<vars, gas>> /\ OthersStay

\* The transaction runs.
SubmitSend(i) ==
  LET k == op[i].key
  IN  /\ op[i].pc = "checked" /\ gas[k] > 0
      /\ SendCall(k, Token, op[i].to, op[i].value)
      /\ gas' = [gas EXCEPT ![k] = @ - 1]
      /\ op' = [op EXCEPT ![i] = [@ EXCEPT !.pc = "onchain", !.ran = TRUE,
                                           !.budget = remaining[k][Token],
                                           !.had = funds[Token][session[k].owner]]]
      /\ OthersStay

\* It reverts, because what was checked has changed, or never reaches the chain.
SendReverts(i) ==
  /\ frame = NoOne
  /\ op[i].pc = "checked" /\ Ends(i, "reverted")
  /\ UNCHANGED <<vars, gas>> /\ OthersStay

SendMined(i) ==
  /\ op[i].pc = "onchain"
  /\ SendReturn
  /\ op' = [op EXCEPT ![i] = [@ EXCEPT !.pc = "mined", !.moved = SentBy(frame),
                                       !.within = frame.within]]
  /\ UNCHANGED gas /\ OthersStay

\* The truth table of the two handles the event carries.
Outcome(within, moved) ==
  IF ~within THEN "over-budget" ELSE IF moved = 0 THEN "insufficient-balance" ELSE "sent"

\* The relayer answers, or gives up after its retries.
ReadSend(i) ==
  /\ op[i].pc = "mined"
  /\ Ends(i, Outcome(op[i].within, op[i].moved)) \/ Ends(i, "unknown")
  /\ UNCHANGED <<vars, gas>> /\ OthersStay

---------------------------------------------------------------------------
(* Narrowing and closing                                                   *)

KeyRemoves(k, to) ==
  /\ frame = NoOne
  /\ live[k] # Absent /\ gas[k] > 0
  /\ RemoveRecipient(k, k, to)
  /\ gas' = [gas EXCEPT ![k] = @ - 1]
  /\ UNCHANGED <<keystoreVars, flow, batch, live, delegated, sweeping, op, upsets>>

\* Closed by the session key, or by the owner through the client.
Close(k, caller) ==
  /\ frame = NoOne
  /\ live[k] # Absent
  /\ caller = k => gas[k] > 0
  /\ CloseSession(caller, k)
  /\ gas' = IF caller = k THEN [gas EXCEPT ![k] = @ - 1] ELSE gas
  /\ sweeping' = sweeping \cup {k}
  /\ UNCHANGED <<keystoreVars, flow, batch, live, delegated, op, upsets>>

\* What is left beyond the fee of the sweep goes to the owner; a failure is only
\* reported.
Sweep(k) ==
  /\ k \in sweeping /\ sweeping' = sweeping \ {k}
  /\ gas' \in {gas, IF gas[k] > 1 THEN [gas EXCEPT ![k] = 0] ELSE gas}
  /\ UNCHANGED <<vars, keystoreVars, flow, batch, live, delegated, op, upsets>>

Upset ==
  /\ upsets < MaxUpsets /\ upsets' = upsets + 1
  /\ UNCHANGED <<keystoreVars, flow, batch, live, delegated, gas, sweeping, op>>

\* The owner acts with the vault key: directly, or from inside a token's call.
OwnerActs(o) ==
  /\ \/ \E k \in Keys, delta \in Amounts \ {0} : IncreaseBudget(o, k, Token, delta)
     \/ \E k \in Keys, to \in Recipients : AddRecipient(o, k, to) \/ RemoveRecipient(o, k, to)
     \/ \E k \in Keys : CloseSession(o, k)
     \/ operatorUntil[Token][o] # -1 /\ SetOperator(o, Token, -1)
     \/ \E left \in OwnerFunds : OwnerMoves(Token, o, left)
  /\ Upset

RevokeBalanceAccess(k) ==
  /\ k \in delegated /\ delegated' = delegated \ {k}
  /\ UNCHANGED <<vars, keystoreVars, flow, batch, live, gas, sweeping, op, upsets>>

\* The process dies and comes back with its keystore and nothing else.
Crash ==
  /\ frame = NoOne /\ upsets < MaxUpsets /\ upsets' = upsets + 1
  /\ flow' = [k \in Keys |-> Idle] /\ live' = [k \in Keys |-> Absent] /\ sweeping' = {}
  /\ op' = [i \in Ops |-> IF op[i].pc \in {"idle", "done"} THEN op[i]
                          ELSE [op[i] EXCEPT !.pc = "done", !.outcome = "lost"]]
  /\ UNCHANGED <<vars, keystoreVars, batch, delegated, gas>>

Surroundings == (PauseAcl /\ Upset) \/ (Tick /\ UNCHANGED clientVars)

ClientNext ==
  \/ \E o \in Owners, k \in Keys : CreateFile(o, k) \/ BatchCall(o, k)
  \/ \E k \in Keys :
       \/ CreateMeta(k) \/ StoreSecret(k) \/ Prepare(k) \/ AskBatch(k) \/ NoBatch(k)
       \/ DropBatch(k) \/ SubmitCall(k) \/ Fund(k) \/ Adopt(k) \/ OpeningFails(k) \/ Resume(k)
       \/ Sweep(k) \/ RevokeBalanceAccess(k)
       \/ \E to \in Recipients : KeyRemoves(k, to)
       \/ \E caller \in {k} \cup Owners : Close(k, caller)
  \/ \E i \in Ops :
       \/ \E k \in Keys, to \in SendTo, expr \in Amount : StartSend(i, k, to, expr)
       \/ AbortSend(i) \/ CheckSend(i) \/ SubmitSend(i) \/ SendReverts(i) \/ SendMined(i)
       \/ ReadSend(i)
  \/ \E o \in Owners : OwnerActs(o)
  \/ Crash \/ Surroundings

ClientSpec == ClientInit /\ [][ClientNext]_allVars

---------------------------------------------------------------------------
(* Correctness                                                             *)

\* What a send reports is what the chain did with it, however the budget, the
\* balance, the operator grant and the other sends moved between the moment the
\* amount was resolved and the moment it was mined (submit's truth table).
ReportsMatchChain ==
  \A i \in Ops : op[i].pc = "done" =>
    CASE op[i].outcome = "sent" -> op[i].moved = op[i].value
      [] op[i].outcome = "over-budget" -> op[i].moved = 0 /\ op[i].value > op[i].budget
      [] op[i].outcome = "insufficient-balance" ->
           op[i].moved = 0 /\ op[i].value <= op[i].budget /\ op[i].value > op[i].had
      [] op[i].outcome \in {"no-amount", "aborted", "refused", "reverted"} -> op[i].moved = 0
      [] OTHER -> TRUE

\* Wherever the process died while opening, a key that holds an open session, and
\* perhaps money, can be loaded again (keystore create before the first signature).
OpenedKeysLoadable == \A k \in Keys : Exists(k) => Loadable(k)

\* A key may read the owner's balance only once the owner opened its session: an
\* opening that failed half way leaves no reader behind (the order of the calls).
ReadersAreOpened == \A k \in delegated : Exists(k)

\* A session never sends more often than its cap allows, whatever was prepared,
\* checked and submitted side by side (txCount, counted before the token is called).
SendsWithinCap ==
  \A k \in Keys : session[k].maxTxCount # 0 =>
    Cardinality({i \in Ops : op[i].key = k /\ op[i].ran}) <= session[k].maxTxCount

=============================================================================
