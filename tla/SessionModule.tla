--------------------------- MODULE SessionModule ---------------------------
(***************************************************************************)
(* SaveTogetherSession.sol: an ERC-7984 operator with an encrypted budget    *)
(* per session key and token, a plaintext allowlist, a cap on the number of  *)
(* sends and an expiry.  A call is one step, except `send`, which is cut at  *)
(* the call into the token: a token may call back, so the owner's and the    *)
(* session key's other calls can happen inside it.  Ciphertexts stand for    *)
(* their plaintexts; a handle is initialized for the tokens of `tokensOf`.   *)
(***************************************************************************)
EXTENDS Integers, Sequences, FiniteSets, Functions

CONSTANTS Owners, Keys, Others,   \* addresses: owners, session keys, further recipients
          Tokens, NoOne,
          MaxAmount,                    \* type(uint64).max
          MaxTokens, MaxRecipients,
          MaxTime                 \* bound of the model: the clock stops here

Addresses == Owners \cup Keys \cup Others
Amounts == 0..MaxAmount

Sessions == [owner : Owners \cup {NoOne}, expiry : Nat, maxTxCount : Nat, txCount : Nat]

\* A send between its call into the token and the token's answer.
Frames == [key : Keys, token : Tokens, to : Addresses, owner : Owners, within : BOOLEAN,
           clamped : Amounts, amount : Amounts]

ASSUME SessionConstants ==
  /\ MaxAmount \in Nat \ {0} /\ MaxTime \in Nat /\ MaxTokens \in Nat /\ MaxRecipients \in Nat
  /\ NoOne \notin Owners
  /\ NoOne \notin Frames
  /\ NoOne \notin Keys \X Tokens

VARIABLES now,
          session,         \* _sessions
          tokensOf,        \* _tokens: the tokens whose budget is initialized
          remaining,       \* _remaining
          recipients,      \* _recipients
          recipientIndex,  \* _recipientIndex, one-based, 0 when absent
          consent,         \* the EIP-712 openings session keys signed
          funds,           \* the owners' confidential balances, per token
          operatorUntil,   \* until when the module is an operator, per token and holder
          aclPaused,
          frame,           \* the send whose token call is under way, or NoOne
          spent            \* what the sends of a key moved (kept only for stating)

sessionVars == <<session, tokensOf, recipients, recipientIndex>>
vars == <<now, sessionVars, remaining, consent, funds, operatorUntil, aclPaused, frame, spent>>

Unused == [owner |-> NoOne, expiry |-> 0, maxTxCount |-> 0, txCount |-> 0]

Init ==
  /\ now = 0
  /\ session = [k \in Keys |-> Unused]
  /\ tokensOf = [k \in Keys |-> {}]
  /\ remaining = [k \in Keys |-> [t \in Tokens |-> 0]]
  /\ recipients = [k \in Keys |-> <<>>]
  /\ recipientIndex = [k \in Keys |-> [a \in Addresses |-> 0]]
  /\ consent = {}
  /\ funds \in [Tokens -> [Owners -> Amounts]]
  /\ operatorUntil = [t \in Tokens |-> [o \in Owners |-> -1]]
  /\ aclPaused = FALSE
  /\ frame = NoOne
  /\ spent = [k \in Keys |-> [t \in Tokens |-> 0]]

Exists(k) == session[k].owner # NoOne
Live(k) == Exists(k) /\ session[k].expiry # 0 /\ session[k].expiry > now
MayNarrow(caller, k) == Exists(k) /\ caller \in {session[k].owner, k}
IsOperator(t, o) == now <= operatorUntil[t][o]
\* Mutated: one send too many passes the cap.
CapLeftOrReached(k) == session[k].maxTxCount = 0 \/ session[k].txCount <= session[k].maxTxCount

CapLeft(k) == session[k].maxTxCount = 0 \/ session[k].txCount < session[k].maxTxCount

---------------------------------------------------------------------------
(* Opening, widening and narrowing a session                                *)

\* `budget` is a function from the tokens of the call; `list` is the recipients of
\* the call without its repetitions, which _addRecipient drops.
OpenSession(o, k, expiry, cap, budget, list) ==
  LET opening == [owner |-> o, key |-> k, expiry |-> expiry, cap |-> cap]
  IN  /\ ~aclPaused
      /\ DOMAIN budget # {} /\ Cardinality(DOMAIN budget) <= MaxTokens
      /\ list # <<>> /\ Len(list) <= MaxRecipients /\ IsInjective(list)
      /\ expiry > now
      /\ ~Exists(k)
      /\ opening \in consent
      /\ session' = [session EXCEPT ![k] =
           [owner |-> o, expiry |-> expiry, maxTxCount |-> cap, txCount |-> 0]]
      /\ tokensOf' = [tokensOf EXCEPT ![k] = DOMAIN budget]
      /\ remaining' = [remaining EXCEPT ![k] =
           [t \in Tokens |-> IF t \in DOMAIN budget THEN budget[t] ELSE 0]]
      /\ recipients' = [recipients EXCEPT ![k] = list]
      /\ recipientIndex' = [recipientIndex EXCEPT ![k] = [a \in Addresses |->
           IF \E i \in DOMAIN list : list[i] = a THEN CHOOSE i \in DOMAIN list : list[i] = a
           ELSE 0]]
      /\ UNCHANGED <<now, consent, funds, operatorUntil, aclPaused, frame, spent>>

\* An increase that would overflow leaves the budget as it was.
IncreaseBudget(caller, k, t, delta) ==
  /\ ~aclPaused
  /\ Live(k) /\ session[k].owner = caller
  /\ t \in tokensOf[k]
  /\ remaining' = [remaining EXCEPT ![k][t] = IF @ + delta <= MaxAmount THEN @ + delta ELSE @]
  /\ UNCHANGED <<now, sessionVars, consent, funds, operatorUntil, aclPaused, frame, spent>>

AddRecipient(caller, k, to) ==
  /\ Live(k) /\ session[k].owner = caller
  /\ recipientIndex[k][to] = 0
  /\ Len(recipients[k]) < MaxRecipients
  /\ recipients' = [recipients EXCEPT ![k] = Append(@, to)]
  /\ recipientIndex' = [recipientIndex EXCEPT ![k][to] = Len(recipients[k]) + 1]
  /\ UNCHANGED <<now, session, tokensOf, remaining, consent, funds, operatorUntil, aclPaused,
                 frame, spent>>

\* Mutated: the index of the recipient that moved is not brought up to date.
RemoveForgettingMoved(caller, k, to) ==
  LET idx == recipientIndex[k][to]
      last == Len(recipients[k])
      moved == recipients[k][last]
  IN  /\ MayNarrow(caller, k)
      /\ idx # 0
      /\ recipients' = [recipients EXCEPT ![k] =
           SubSeq([recipients[k] EXCEPT ![idx] = moved], 1, last - 1)]
      /\ recipientIndex' = [recipientIndex EXCEPT ![k][to] = 0]
      /\ UNCHANGED <<now, session, tokensOf, remaining, consent, funds, operatorUntil, aclPaused,
                     frame, spent>>

\* Swap and pop: the last recipient takes the place of the one removed.
RemoveRecipient(caller, k, to) ==
  LET idx == recipientIndex[k][to]
      last == Len(recipients[k])
      moved == recipients[k][last]
  IN  /\ MayNarrow(caller, k)
      /\ idx # 0
      /\ recipients' = [recipients EXCEPT ![k] =
           SubSeq([recipients[k] EXCEPT ![idx] = moved], 1, last - 1)]
      /\ recipientIndex' = [recipientIndex EXCEPT ![k] = [@ EXCEPT ![moved] = idx, ![to] = 0]]
      /\ UNCHANGED <<now, session, tokensOf, remaining, consent, funds, operatorUntil, aclPaused,
                     frame, spent>>

\* Budgets are not zeroed.
CloseSession(caller, k) ==
  /\ MayNarrow(caller, k)
  /\ session[k].expiry # 0
  /\ session' = [session EXCEPT ![k].expiry = 0]
  /\ UNCHANGED <<now, tokensOf, recipients, recipientIndex, remaining, consent, funds,
                 operatorUntil, aclPaused, frame, spent>>

---------------------------------------------------------------------------
(* Sending.  The budget is read before the token is called and written after *)

\* Up to the call into the token: the checks, the transaction count, the clamp.
\* nonReentrant: no send begins while another is under way.
SendCall(k, t, to, requested) ==
  LET budget == remaining[k][t]
      within == requested <= budget
  IN  /\ frame = NoOne
      /\ ~aclPaused
      /\ Live(k) /\ CapLeft(k)
      /\ recipientIndex[k][to] # 0
      /\ t \in tokensOf[k]
      /\ IsOperator(t, session[k].owner)
      /\ session' = [session EXCEPT ![k].txCount = @ + 1]
      /\ frame' = [key |-> k, token |-> t, to |-> to, owner |-> session[k].owner,
                   within |-> within,
                   clamped |-> IF within THEN budget - requested ELSE budget,
                   amount |-> IF within THEN requested ELSE 0]
      /\ UNCHANGED <<now, tokensOf, recipients, recipientIndex, remaining, consent, funds,
                     operatorUntil, aclPaused, spent>>

\* The token moves the whole amount or nothing.
SentBy(f) == IF f.amount <= funds[f.token][f.owner] THEN f.amount ELSE 0

\* Mutated: the refund is what was asked for, whether or not it moved.
SendRefundingAll ==
  LET f == frame
      sent == SentBy(f)
  IN  /\ frame # NoOne
      /\ funds' = IF f.to = f.owner THEN funds
                  ELSE [funds EXCEPT ![f.token][f.owner] = @ - sent]
      /\ remaining' = [remaining EXCEPT ![f.key][f.token] = f.clamped + f.amount]
      /\ spent' = [spent EXCEPT ![f.key][f.token] = @ + sent]
      /\ frame' = NoOne
      /\ UNCHANGED <<now, sessionVars, consent, operatorUntil, aclPaused>>

\* From the token's answer on: the part that did not move returns to the budget.
SendReturn ==
  LET f == frame
      sent == SentBy(f)
      refund == f.amount - sent
  IN  /\ frame # NoOne
      /\ funds' = IF f.to = f.owner THEN funds
                  ELSE [funds EXCEPT ![f.token][f.owner] = @ - sent]
      /\ remaining' = [remaining EXCEPT ![f.key][f.token] = f.clamped + refund]
      /\ spent' = [spent EXCEPT ![f.key][f.token] = @ + sent]
      /\ frame' = NoOne
      /\ UNCHANGED <<now, sessionVars, consent, operatorUntil, aclPaused>>

---------------------------------------------------------------------------
(* The world around the module                                             *)

\* A session key signs that `o` may open it (openSessionDigest).
Consent(o, k, expiry, cap) ==
  /\ consent' = consent \cup {[owner |-> o, key |-> k, expiry |-> expiry, cap |-> cap]}
  /\ UNCHANGED <<now, sessionVars, remaining, funds, operatorUntil, aclPaused, frame, spent>>

SetOperator(o, t, until) ==
  /\ operatorUntil' = [operatorUntil EXCEPT ![t][o] = until]
  /\ UNCHANGED <<now, sessionVars, remaining, consent, funds, aclPaused, frame, spent>>

\* The owner moves money without the session, in or out.
OwnerMoves(t, o, left) ==
  /\ frame = NoOne
  /\ funds' = [funds EXCEPT ![t][o] = left]
  /\ UNCHANGED <<now, sessionVars, remaining, consent, operatorUntil, aclPaused, frame, spent>>

PauseAcl ==
  /\ frame = NoOne
  /\ aclPaused' = ~aclPaused
  /\ UNCHANGED <<now, sessionVars, remaining, consent, funds, operatorUntil, frame, spent>>

Tick ==
  /\ frame = NoOne /\ now < MaxTime
  /\ now' = now + 1
  /\ UNCHANGED <<sessionVars, remaining, consent, funds, operatorUntil, aclPaused, frame, spent>>

---------------------------------------------------------------------------

\* What an account may do to the module, inside a send or outside it.
Call(caller) ==
  \/ \E k \in Keys, t \in Tokens, delta \in Amounts : IncreaseBudget(caller, k, t, delta)
  \/ \E k \in Keys, to \in Addresses : AddRecipient(caller, k, to) \/ RemoveRecipient(caller, k, to)
  \/ \E k \in Keys : CloseSession(caller, k)
  \/ /\ caller \in Owners
     /\ \E k \in Keys, expiry \in Nat, cap \in Nat, T \in SUBSET Tokens :
          \E budget \in [T -> Amounts], list \in Seq(Addresses) :
            OpenSession(caller, k, expiry, cap, budget, list)
  \/ /\ caller \in Keys
     /\ \E t \in Tokens, to \in Addresses, requested \in Amounts :
          SendCall(caller, t, to, requested)

World ==
  \/ Tick \/ PauseAcl
  \/ \E o \in Owners, k \in Keys, expiry \in Nat, cap \in Nat : Consent(o, k, expiry, cap)
  \/ \E o \in Owners, t \in Tokens, until \in Int : SetOperator(o, t, until)
  \/ \E o \in Owners, t \in Tokens, left \in Amounts : OwnerMoves(t, o, left)

Next == World \/ SendReturn \/ \E caller \in Addresses : Call(caller)

Spec == Init /\ [][Next]_vars

---------------------------------------------------------------------------
(* Correctness                                                             *)

TypeOK ==
  /\ now \in 0..MaxTime
  /\ session \in [Keys -> Sessions]
  /\ tokensOf \in [Keys -> SUBSET Tokens]
  /\ remaining \in [Keys -> [Tokens -> Amounts]]
  /\ recipients \in [Keys -> Seq(Addresses)]
  /\ recipientIndex \in [Keys -> [Addresses -> Nat]]
  /\ funds \in [Tokens -> [Owners -> Amounts]]
  /\ operatorUntil \in [Tokens -> [Owners -> Int]]
  /\ aclPaused \in BOOLEAN
  /\ frame \in Frames \cup {NoOne}
  /\ spent \in [Keys -> [Tokens -> Nat]]

\* The allowlist and its index agree: every recipient is found at its one place and
\* nobody else is allowed, after any sequence of additions and swap-and-pop
\* removals (_addRecipient, removeRecipient).
IndexMatchesList ==
  \A k \in Keys :
    /\ \A j \in DOMAIN recipients[k] : recipientIndex[k][recipients[k][j]] = j
    /\ \A a \in Addresses : recipientIndex[k][a] # 0 =>
         /\ recipientIndex[k][a] \in DOMAIN recipients[k]
         /\ recipients[k][recipientIndex[k][a]] = a

\* What the module promises the owner (Allowance): the allowance is what was spent
\* plus what is left, and a key is granted, ended and never granted again.
Allowed == [k \in Keys |-> [t \in Tokens |-> spent[k][t] + remaining[k][t]]]
Phase == [k \in Keys |-> IF ~Exists(k) THEN "new" ELSE IF Live(k) THEN "granted" ELSE "ended"]
Under == IF frame = NoOne THEN NoOne ELSE <<frame.key, frame.token>>

Promise == INSTANCE Allowance WITH allowed <- Allowed, used <- spent, phase <- Phase,
                                   under <- Under, Nothing <- NoOne

\* The module implements the allowance: spends fit the budget even when the token
\* calls back between the read and the write of `send`, an ended session is never
\* revived, and nothing raises a budget that has ended.
ImplementsAllowance == Promise!Spec

=============================================================================
