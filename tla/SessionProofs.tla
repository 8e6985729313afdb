--------------------------- MODULE SessionProofs ---------------------------
(***************************************************************************)
(* The session contract implements Allowance and its list of recipients    *)
(* agrees with its index map; and of the client over it: wherever an       *)
(* opening dies, a key with a session can be loaded and a key that reads   *)
(* the owner's balance has a session; what a send reports is what the      *)
(* contract did; and the client's steps are the contract's, or none of     *)
(* its: for every set of owners, keys and tokens, every width of the       *)
(* amounts, opened call by call or by a wallet's batch.                    *)
(***************************************************************************)
EXTENDS SessionClient, FiniteSetTheorems, TLAPS

USE DEF Amounts, sessionVars

---------------------------------------------------------------------------
(* The part of the type invariant the refinement needs, and what a send under *)
(* way knows of the budget it read                                           *)

MoneyType ==
  /\ now \in Nat
  /\ session \in [Keys -> Sessions]
  /\ tokensOf \in [Keys -> SUBSET Tokens]
  /\ remaining \in [Keys -> [Tokens -> Amounts]]
  /\ funds \in [Tokens -> [Owners -> Amounts]]
  /\ frame \in Frames \cup {NoOne}
  /\ spent \in [Keys -> [Tokens -> Nat]]

\* While the token is called, the budget that was read is still there: only an
\* increase can have come in between.
FrameInv ==
  frame # NoOne => /\ frame \in Frames
                   /\ frame.clamped + frame.amount <= remaining[frame.key][frame.token]
                   /\ Exists(frame.key)

MoneyInv == MoneyType /\ FrameInv

LEMMA InitMoney == Init => MoneyInv
BY SessionConstants DEF Init, MoneyInv, MoneyType, FrameInv, Unused, Sessions, Exists

LEMMA StepMoney ==
  ASSUME MoneyInv, [Next]_vars
  PROVE  MoneyInv'
<1> USE SessionConstants DEF MoneyInv
<1>1. CASE UNCHANGED vars
  BY <1>1 DEF vars, MoneyType, FrameInv, Exists
<1>2. CASE World
  <2>1. UNCHANGED <<session, tokensOf, remaining, frame, spent>> /\ now' \in Nat
        /\ funds' \in [Tokens -> [Owners -> Amounts]]
    <3>1. CASE \E o \in Owners, t \in Tokens, left \in Amounts : OwnerMoves(t, o, left)
      BY <3>1 DEF OwnerMoves, MoneyType
    <3>2. CASE Tick \/ PauseAcl
      BY <3>2 DEF Tick, PauseAcl, MoneyType
    <3>3. CASE \E o \in Owners, k \in Keys, expiry \in Nat, cap \in Nat : Consent(o, k, expiry, cap)
      BY <3>3 DEF Consent, MoneyType
    <3>4. CASE \E o \in Owners, t \in Tokens, until \in Int : SetOperator(o, t, until)
      BY <3>4 DEF SetOperator, MoneyType
    <3> QED BY <1>2, <3>1, <3>2, <3>3, <3>4 DEF World
  <2> QED
    BY <2>1 DEF MoneyType, FrameInv, Exists
<1>3. CASE SendReturn
  <2> DEFINE f == frame
             sent == SentBy(f)
  <2>1. f \in Frames /\ f.key \in Keys /\ f.token \in Tokens /\ f.owner \in Owners
        /\ f.clamped \in Amounts /\ f.amount \in Amounts
        /\ f.clamped + f.amount <= remaining[f.key][f.token]
    BY <1>3 DEF SendReturn, FrameInv, Frames
  <2>2. sent \in 0..f.amount /\ sent <= funds[f.token][f.owner]
    BY <2>1 DEF SentBy, MoneyType
  <2>3. f.clamped + (f.amount - sent) \in Amounts
    BY <2>1, <2>2 DEF MoneyType
  <2>4. remaining' \in [Keys -> [Tokens -> Amounts]]
    BY <1>3, <2>1, <2>3 DEF SendReturn, MoneyType
  <2>5. funds' \in [Tokens -> [Owners -> Amounts]]
    BY <1>3, <2>1, <2>2 DEF SendReturn, MoneyType
  <2>6. spent' \in [Keys -> [Tokens -> Nat]]
    BY <1>3, <2>1, <2>2 DEF SendReturn, MoneyType
  <2>7. frame' = NoOne /\ UNCHANGED <<now, session, tokensOf>>
    BY <1>3 DEF SendReturn
  <2> QED
    BY <2>4, <2>5, <2>6, <2>7 DEF MoneyType, FrameInv
<1>4. ASSUME NEW caller \in Addresses, Call(caller) PROVE MoneyInv'
  <2>1. CASE \E k \in Keys, t \in Tokens, delta \in Amounts : IncreaseBudget(caller, k, t, delta)
    <3> PICK k \in Keys, t \in Tokens, delta \in Amounts : IncreaseBudget(caller, k, t, delta)
      BY <2>1
    <3>1. remaining' \in [Keys -> [Tokens -> Amounts]]
      BY DEF IncreaseBudget, MoneyType
    <3>2. \A kk \in Keys, tt \in Tokens : remaining'[kk][tt] >= remaining[kk][tt]
      BY DEF IncreaseBudget, MoneyType
    <3>3. UNCHANGED <<now, session, tokensOf, funds, frame, spent>>
      BY DEF IncreaseBudget
    <3>4. frame # NoOne => frame.clamped + frame.amount <= remaining'[frame.key][frame.token]
      <4> SUFFICES ASSUME frame # NoOne PROVE frame.clamped + frame.amount <= remaining'[frame.key][frame.token]
        OBVIOUS
      <4>1. frame.key \in Keys /\ frame.token \in Tokens /\ frame.clamped + frame.amount \in Int
        BY DEF FrameInv, Frames
      <4>2. frame.clamped + frame.amount <= remaining[frame.key][frame.token]
        BY DEF FrameInv
      <4>3. remaining[frame.key][frame.token] \in Int /\ remaining'[frame.key][frame.token] \in Int
        BY <4>1, <3>1 DEF MoneyType
      <4> QED BY <4>1, <4>2, <4>3, <3>2
    <3> QED
      BY <3>1, <3>3, <3>4 DEF MoneyType, FrameInv, Exists
  <2>2. CASE \E k \in Keys, to \in Addresses : AddRecipient(caller, k, to) \/ RemoveRecipient(caller, k, to)
    <3>1. UNCHANGED <<now, session, tokensOf, remaining, funds, frame, spent>>
      BY <2>2 DEF AddRecipient, RemoveRecipient
    <3> QED BY <3>1 DEF MoneyType, FrameInv, Exists
  <2>3. CASE \E k \in Keys : CloseSession(caller, k)
    <3> PICK k \in Keys : CloseSession(caller, k)
      BY <2>3
    <3>1. session' = [session EXCEPT ![k].expiry = 0] /\ UNCHANGED <<now, tokensOf, remaining, funds, frame, spent>>
      BY DEF CloseSession
    <3>2. session' \in [Keys -> Sessions] /\ \A kk \in Keys : session'[kk].owner = session[kk].owner
      <4> DEFINE s == [session[k] EXCEPT !.expiry = 0]
      <4>1. session[k] \in Sessions
        BY DEF MoneyType
      <4>2. s \in Sessions /\ s.owner = session[k].owner
        BY <4>1 DEF Sessions
      <4>3. session' = [session EXCEPT ![k] = s]
        BY <3>1
      <4> HIDE DEF s
      <4> QED BY <4>2, <4>3 DEF MoneyType
    <3>3. MoneyType'
      BY <3>1, <3>2 DEF MoneyType
    <3>4. FrameInv'
      <4> SUFFICES ASSUME frame # NoOne PROVE /\ frame \in Frames
                                              /\ frame.clamped + frame.amount <= remaining[frame.key][frame.token]
                                              /\ session'[frame.key].owner # NoOne
        BY <3>1 DEF FrameInv, Exists
      <4>1. frame.key \in Keys /\ session[frame.key].owner # NoOne
        BY DEF FrameInv, Frames, Exists
      <4> QED BY <4>1, <3>2 DEF FrameInv
    <3> QED BY <3>3, <3>4
  <2>4. ASSUME caller \in Owners, NEW k \in Keys, NEW expiry \in Nat, NEW cap \in Nat,
               NEW T \in SUBSET Tokens, NEW budget \in [T -> Amounts], NEW list \in Seq(Addresses),
               OpenSession(caller, k, expiry, cap, budget, list)
        PROVE  MoneyInv'
    <3>1. session' \in [Keys -> Sessions]
      BY <2>4 DEF OpenSession, MoneyType, Sessions
    <3>2. remaining' \in [Keys -> [Tokens -> Amounts]]
      BY <2>4 DEF OpenSession, MoneyType
    <3>3. tokensOf' \in [Keys -> SUBSET Tokens] /\ UNCHANGED <<now, funds, frame, spent>>
      BY <2>4 DEF OpenSession, MoneyType
    <3>4. frame # NoOne => frame.key # k
      BY <2>4 DEF OpenSession, FrameInv
    <3>5. frame # NoOne => /\ remaining'[frame.key] = remaining[frame.key]
                           /\ session'[frame.key] = session[frame.key]
      BY <2>4, <3>4 DEF OpenSession, MoneyType, FrameInv, Frames
    <3> QED
      BY <3>1, <3>2, <3>3, <3>5 DEF MoneyType, FrameInv, Exists
  <2>5. ASSUME caller \in Keys, NEW t \in Tokens, NEW to \in Addresses, NEW requested \in Amounts,
               SendCall(caller, t, to, requested)
        PROVE  MoneyInv'
    <3> DEFINE budget == remaining[caller][t]
    <3>1. budget \in Amounts
      BY <2>5 DEF MoneyType
    <3>2. session[caller].owner \in Owners
      BY <2>5 DEF SendCall, Live, Exists, MoneyType, Sessions
    <3>3. /\ frame' \in Frames
          /\ frame'.key = caller /\ frame'.token = t
          /\ frame'.clamped + frame'.amount = budget
      BY <2>5, <3>1, <3>2 DEF SendCall, Frames
    <3>4. session' = [session EXCEPT ![caller].txCount = @ + 1]
          /\ UNCHANGED <<now, tokensOf, remaining, funds, spent>>
      BY <2>5 DEF SendCall
    <3>5. session' \in [Keys -> Sessions]
          /\ session'[caller].owner = session[caller].owner
      <4> DEFINE s == [session[caller] EXCEPT !.txCount = @ + 1]
      <4>1. session[caller] \in Sessions
        BY <2>5 DEF MoneyType
      <4>2. s \in Sessions /\ s.owner = session[caller].owner
        BY <4>1 DEF Sessions
      <4>3. session' = [session EXCEPT ![caller] = s]
        BY <3>4
      <4> HIDE DEF s
      <4> QED BY <2>5, <4>2, <4>3 DEF MoneyType
    <3> HIDE DEF budget
    <3>6. MoneyType'
      BY <3>3, <3>4, <3>5 DEF MoneyType
    <3>7. FrameInv'
      <4>1. remaining'[frame'.key][frame'.token] = budget
        BY <3>3, <3>4 DEF budget
      <4>2. Exists(frame.key)'
        BY <3>2, <3>3, <3>5, SessionConstants DEF Exists
      <4> QED BY <3>1, <3>3, <4>1, <4>2 DEF FrameInv
    <3> QED
      BY <3>6, <3>7
  <2> QED
    BY <1>4, <2>1, <2>2, <2>3, <2>4, <2>5 DEF Call
<1> QED
  BY <1>1, <1>2, <1>3, <1>4 DEF Next

LEMMA SpecMoney == Spec => []MoneyInv
BY InitMoney, StepMoney, PTL DEF Spec

---------------------------------------------------------------------------
(* The refinement                                                          *)

LEMMA AllowedType == MoneyInv => Allowed \in [Keys -> [Tokens -> Nat]]
BY SessionConstants DEF MoneyInv, MoneyType, Allowed

LEMMA InitPromise == Init => Promise!Init
BY SessionConstants DEF Init, Promise!Init, Allowed, Phase, Under, Exists, Unused

\* The clock ends the sessions whose expiry it reaches, and nothing else.
LEMMA TickPromise ==
  ASSUME MoneyInv, Tick
  PROVE  Promise!Next
<1> DEFINE S == {k \in Keys : Live(k) /\ ~Live(k)'}
<1>1. UNCHANGED <<session, spent, remaining, frame>> /\ now' = now + 1
  BY DEF Tick, sessionVars
<1>2. S \in SUBSET Keys /\ \A k \in S : Phase[k] = "granted"
  BY DEF Phase, Live
<1>3. Phase' = [k \in Keys |-> IF k \in S THEN "ended" ELSE Phase[k]]
  <2>1. \A k \in Keys : Exists(k)' = Exists(k)
    BY <1>1 DEF Exists
  <2>2. \A k \in Keys : Live(k)' => Live(k)
    BY <1>1, SessionConstants DEF Live, Exists, MoneyInv, MoneyType, Sessions
  <2>3. Phase' = [k \in Keys |-> IF ~Exists(k)' THEN "new" ELSE IF Live(k)' THEN "granted" ELSE "ended"]
    BY DEF Phase
  <2>4. ASSUME NEW k \in Keys
        PROVE  (IF ~Exists(k)' THEN "new" ELSE IF Live(k)' THEN "granted" ELSE "ended")
                 = IF k \in S THEN "ended" ELSE Phase[k]
    <3>1. Phase[k] = IF ~Exists(k) THEN "new" ELSE IF Live(k) THEN "granted" ELSE "ended"
      BY DEF Phase
    <3>2. k \in S <=> Live(k) /\ ~Live(k)'
      OBVIOUS
    <3>3. Live(k) => Exists(k)
      BY DEF Live
    <3> HIDE DEF S
    <3> QED BY <2>1, <2>2, <3>1, <3>2, <3>3
  <2> HIDE DEF S
  <2> QED BY <2>3, <2>4
<1>4. UNCHANGED <<Allowed, spent, Under>>
  BY <1>1 DEF Allowed, Under
<1>5. Promise!End(S)
  BY <1>2, <1>3, <1>4 DEF Promise!End
<1> QED
  BY <1>2, <1>5 DEF Promise!Next

LEMMA ChangedAt ==
  ASSUME NEW A, NEW B, NEW f, NEW g, NEW k \in A, NEW t \in B,
         f = [a \in A |-> [b \in B |-> f[a][b]]], g = [a \in A |-> [b \in B |-> g[a][b]]],
         \A a \in A, b \in B : a # k \/ b # t => g[a][b] = f[a][b]
  PROVE  g = [f EXCEPT ![k][t] = g[k][t]]
<1> DEFINE h == [f EXCEPT ![k][t] = g[k][t]]
<1>1. h = [a \in A |-> [b \in B |-> IF a = k /\ b = t THEN g[k][t] ELSE f[a][b]]]
  OBVIOUS
<1> HIDE DEF h
<1>2. \A a \in A, b \in B : (IF a = k /\ b = t THEN g[k][t] ELSE f[a][b]) = g[a][b]
  OBVIOUS
<1>3. h = [a \in A |-> [b \in B |-> g[a][b]]]
  BY <1>1, <1>2
<1> QED BY <1>3 DEF h

LEMMA SamePromise ==
  ASSUME UNCHANGED <<now, session, remaining, frame, spent>>
  PROVE  UNCHANGED <<Allowed, spent, Phase, Under>>
BY DEF Allowed, Phase, Under, Exists, Live

LEMMA RaisePromise ==
  ASSUME MoneyInv, NEW caller \in Addresses, NEW k \in Keys, NEW t \in Tokens, NEW delta \in Amounts,
         IncreaseBudget(caller, k, t, delta)
  PROVE  Promise!Raise(k, t)
<1>1. UNCHANGED <<now, session, frame, spent>>
  BY DEF IncreaseBudget
<1>2. Phase[k] = "granted" /\ UNCHANGED <<Phase, Under>>
  BY <1>1 DEF IncreaseBudget, Phase, Under, Live, Exists
<1> DEFINE new == IF remaining[k][t] + delta <= MaxAmount THEN remaining[k][t] + delta ELSE remaining[k][t]
<1>3. remaining' = [remaining EXCEPT ![k][t] = new] /\ new \in Nat /\ new >= remaining[k][t]
  BY SessionConstants DEF IncreaseBudget, MoneyInv, MoneyType
<1> HIDE DEF new
<1>4. Allowed'[k][t] \in Nat /\ Allowed'[k][t] >= Allowed[k][t]
  <2>1. remaining'[k][t] = new /\ remaining[k][t] \in Nat /\ spent[k][t] \in Nat
    BY <1>3, SessionConstants DEF MoneyInv, MoneyType
  <2>2. Allowed'[k][t] = spent[k][t] + remaining'[k][t] /\ Allowed[k][t] = spent[k][t] + remaining[k][t]
    BY <1>1 DEF Allowed
  <2> QED BY <1>3, <2>1, <2>2
<1>5. Allowed' = [Allowed EXCEPT ![k][t] = Allowed'[k][t]]
  <2>1. \A kk \in Keys, tt \in Tokens : <<kk, tt>> # <<k, t>> => remaining'[kk][tt] = remaining[kk][tt]
    BY <1>3 DEF MoneyInv, MoneyType
  <2>2. Allowed' = [kk \in Keys |-> [tt \in Tokens |-> spent[kk][tt] + remaining'[kk][tt]]]
    BY <1>1 DEF Allowed
  <2>3. \A kk \in Keys, tt \in Tokens : kk # k \/ tt # t => Allowed'[kk][tt] = Allowed[kk][tt]
    BY <2>1, <2>2 DEF Allowed
  <2>4. Allowed = [kk \in Keys |-> [tt \in Tokens |-> Allowed[kk][tt]]]
        /\ Allowed' = [kk \in Keys |-> [tt \in Tokens |-> Allowed'[kk][tt]]]
    BY <2>2 DEF Allowed
  <2> QED BY <2>3, <2>4, ChangedAt
<1> QED
  BY <1>1, <1>2, <1>4, <1>5 DEF Promise!Raise

LEMMA ClosePromise ==
  ASSUME MoneyInv, NEW caller \in Addresses, NEW k \in Keys, CloseSession(caller, k)
  PROVE  Promise!End({k}) \/ UNCHANGED <<Allowed, spent, Phase, Under>>
<1>1. UNCHANGED <<now, remaining, frame, spent>> /\ session' = [session EXCEPT ![k].expiry = 0]
  BY DEF CloseSession
<1>2. session'[k].expiry = 0 /\ session'[k].owner = session[k].owner
      /\ \A kk \in Keys : kk # k => session'[kk] = session[kk]
  BY <1>1 DEF MoneyInv, MoneyType, Sessions
<1>3. Exists(k) /\ UNCHANGED <<Allowed, spent, Under>>
  BY <1>1 DEF Allowed, Under, CloseSession, MayNarrow
<1>4. Phase'[k] = "ended" /\ \A kk \in Keys : kk # k => Phase'[kk] = Phase[kk]
  BY <1>1, <1>2, <1>3 DEF Phase, Exists, Live
<1>5. Phase[k] \in {"granted", "ended"}
  BY <1>3 DEF Phase
<1>6. Phase' = [kk \in Keys |-> IF kk \in {k} THEN "ended" ELSE Phase[kk]]
  BY <1>4 DEF Phase
<1>7. CASE Phase[k] = "granted"
  BY <1>3, <1>6, <1>7 DEF Promise!End
<1>8. CASE Phase[k] = "ended"
  <2>1. Phase' = Phase
    BY <1>6, <1>8 DEF Phase
  <2> QED BY <1>3, <2>1
<1> QED
  BY <1>5, <1>7, <1>8

LEMMA OpenPromise ==
  ASSUME MoneyInv, NEW caller \in Owners, NEW k \in Keys, NEW expiry \in Nat, NEW cap \in Nat,
         NEW T \in SUBSET Tokens, NEW budget \in [T -> Amounts], NEW list \in Seq(Addresses),
         OpenSession(caller, k, expiry, cap, budget, list)
  PROVE  Promise!Grant(k)
<1> USE SessionConstants
<1>1. UNCHANGED <<now, frame, spent>> /\ ~Exists(k) /\ expiry > now /\ expiry # 0
  BY DEF OpenSession, MoneyInv, MoneyType
<1>2. session' = [session EXCEPT ![k] = [owner |-> caller, expiry |-> expiry, maxTxCount |-> cap, txCount |-> 0]]
  BY DEF OpenSession
<1>3. session'[k].owner = caller /\ session'[k].expiry = expiry
      /\ \A kk \in Keys : kk # k => session'[kk] = session[kk]
  <2>1. DOMAIN session = Keys
    BY DEF MoneyInv, MoneyType
  <2> QED BY <1>2, <2>1, Zenon
<1>4. \A kk \in Keys : kk # k => remaining'[kk] = remaining[kk]
  BY DEF OpenSession, MoneyInv, MoneyType
<1>5. Phase[k] = "new" /\ Phase'[k] = "granted" /\ \A kk \in Keys : kk # k => Phase'[kk] = Phase[kk]
  BY <1>1, <1>3 DEF Phase, Exists, Live
<1>6. Phase' = [Phase EXCEPT ![k] = "granted"]
  BY <1>5 DEF Phase
<1>7. \A kk \in Keys : kk # k => Allowed'[kk] = Allowed[kk]
  BY <1>1, <1>4 DEF Allowed
<1>8. Allowed' = [Allowed EXCEPT ![k] = Allowed'[k]]
  <2>1. Allowed = [kk \in Keys |-> Allowed[kk]] /\ Allowed' = [kk \in Keys |-> Allowed'[kk]]
    BY DEF Allowed
  <2> QED BY <1>7, <2>1
<1>9. Allowed'[k] \in [Tokens -> Nat]
  <2>1. MoneyInv'
    BY StepMoney DEF Next, Call, Addresses
  <2> QED BY <2>1 DEF MoneyInv, MoneyType, Allowed
<1> QED
  BY <1>1, <1>5, <1>6, <1>8, <1>9 DEF Promise!Grant, Under

LEMMA CallPromise ==
  ASSUME MoneyInv, NEW k \in Keys, NEW t \in Tokens, NEW to \in Addresses, NEW requested \in Amounts,
         SendCall(k, t, to, requested)
  PROVE  Promise!Begin(k, t)
<1> USE SessionConstants
<1>1. frame = NoOne /\ UNCHANGED <<now, remaining, spent>> /\ Live(k)
      /\ session' = [session EXCEPT ![k].txCount = @ + 1]
  BY DEF SendCall
<1>2. \A kk \in Keys : session'[kk].owner = session[kk].owner /\ session'[kk].expiry = session[kk].expiry
  <2>1. \A kk \in Keys : session[kk] \in Sessions
    BY DEF MoneyInv, MoneyType
  <2> QED BY <1>1, <2>1 DEF MoneyInv, MoneyType, Sessions
<1>3. UNCHANGED <<Allowed, Phase>> /\ Phase[k] = "granted"
  BY <1>1, <1>2 DEF Allowed, Phase, Exists, Live
<1>4. frame'.key = k /\ frame'.token = t
  BY DEF SendCall
<1>5. frame' # NoOne
  <2>1. frame' \in Frames \cup {NoOne} /\ FrameInv' /\ MoneyInv'
    BY StepMoney DEF Next, Call, Addresses, MoneyInv, MoneyType
  <2>2. session[k].owner \in Owners /\ remaining[k][t] \in Amounts
    BY <1>1 DEF Live, Exists, MoneyInv, MoneyType, Sessions
  <2>3. frame' \in Frames
    BY <2>2 DEF SendCall, Frames
  <2> QED BY <2>3
<1> QED
  BY <1>1, <1>3, <1>4, <1>5 DEF Promise!Begin, Under

LEMMA ReturnPromise ==
  ASSUME MoneyInv, SendReturn
  PROVE  \E k \in Keys, t \in Tokens : Promise!Spend(k, t)
<1> USE SessionConstants
<1> DEFINE k == frame.key
           t == frame.token
           sent == SentBy(frame)
           left == frame.clamped + (frame.amount - sent)
<1>1. frame \in Frames /\ frame # NoOne /\ frame.clamped + frame.amount <= remaining[k][t]
  BY DEF SendReturn, MoneyInv, FrameInv
<1>2. k \in Keys /\ t \in Tokens /\ frame.clamped \in Nat /\ frame.amount \in Nat
      /\ spent[k][t] \in Nat /\ remaining[k][t] \in Nat
  BY <1>1 DEF Frames, MoneyInv, MoneyType
<1>3. sent \in Nat /\ sent <= frame.amount
  BY <1>2 DEF SentBy
<1>4. remaining' = [remaining EXCEPT ![k][t] = left] /\ spent' = [spent EXCEPT ![k][t] = @ + sent]
      /\ frame' = NoOne /\ UNCHANGED <<now, session>>
  BY DEF SendReturn
<1> HIDE DEF k, t, sent
<1>5. remaining'[k][t] = left /\ spent'[k][t] = spent[k][t] + sent
  BY <1>2, <1>4 DEF MoneyInv, MoneyType
<1>6. \A kk \in Keys, tt \in Tokens : kk # k \/ tt # t =>
        remaining'[kk][tt] = remaining[kk][tt] /\ spent'[kk][tt] = spent[kk][tt]
  BY <1>2, <1>4 DEF MoneyInv, MoneyType
<1>7. Allowed = [kk \in Keys |-> [tt \in Tokens |-> Allowed[kk][tt]]]
      /\ Allowed' = [kk \in Keys |-> [tt \in Tokens |-> Allowed'[kk][tt]]]
      /\ \A kk \in Keys, tt \in Tokens : /\ Allowed[kk][tt] = spent[kk][tt] + remaining[kk][tt]
                                         /\ Allowed'[kk][tt] = spent'[kk][tt] + remaining'[kk][tt]
  BY DEF Allowed
<1>8. spent = [kk \in Keys |-> [tt \in Tokens |-> spent[kk][tt]]]
      /\ spent' = [kk \in Keys |-> [tt \in Tokens |-> spent'[kk][tt]]]
  <2>1. MoneyInv'
    BY StepMoney DEF Next
  <2> QED BY <2>1 DEF MoneyInv, MoneyType
<1>9. Allowed' = [Allowed EXCEPT ![k][t] = Allowed'[k][t]]
  BY <1>2, <1>6, <1>7, ChangedAt
<1>10. spent' = [spent EXCEPT ![k][t] = spent'[k][t]]
  BY <1>2, <1>6, <1>8, ChangedAt
<1>11. spent'[k][t] >= spent[k][t] /\ spent'[k][t] <= Allowed'[k][t] /\ Allowed'[k][t] <= Allowed[k][t]
  <2>1. Allowed'[k][t] = (spent[k][t] + sent) + left /\ Allowed[k][t] = spent[k][t] + remaining[k][t]
    BY <1>2, <1>5, <1>7
  <2> QED BY <1>1, <1>2, <1>3, <1>5, <2>1
<1>12. Under = <<k, t>> /\ Under' = NoOne /\ UNCHANGED Phase
  BY <1>1, <1>4 DEF Under, Phase, Exists, Live, k, t
<1> QED
  BY <1>2, <1>9, <1>10, <1>11, <1>12 DEF Promise!Spend

LEMMA StepPromise ==
  ASSUME MoneyInv, [Next]_vars
  PROVE  [Promise!Next]_(Promise!vars)
<1> USE SessionConstants
<1>1. CASE UNCHANGED vars
  BY <1>1, SamePromise DEF vars, Promise!vars
<1>2. CASE World
  <2>1. CASE Tick
    BY <2>1, TickPromise
  <2>2. CASE ~Tick
    <3>1. UNCHANGED <<now, session, remaining, frame, spent>>
      BY <1>2, <2>2 DEF World, PauseAcl, Consent, SetOperator, OwnerMoves
    <3> QED BY <3>1, SamePromise DEF Promise!vars
  <2> QED BY <2>1, <2>2
<1>3. CASE SendReturn
  BY <1>3, ReturnPromise DEF Promise!Next
<1>4. ASSUME NEW caller \in Addresses, Call(caller) PROVE [Promise!Next]_(Promise!vars)
  <2>1. CASE \E k \in Keys, t \in Tokens, delta \in Amounts : IncreaseBudget(caller, k, t, delta)
    BY <2>1, RaisePromise DEF Promise!Next
  <2>2. CASE \E k \in Keys, to \in Addresses : AddRecipient(caller, k, to) \/ RemoveRecipient(caller, k, to)
    <3>1. UNCHANGED <<now, session, remaining, frame, spent>>
      BY <2>2 DEF AddRecipient, RemoveRecipient
    <3> QED BY <3>1, SamePromise DEF Promise!vars
  <2>3. CASE \E k \in Keys : CloseSession(caller, k)
    <3> PICK k \in Keys : CloseSession(caller, k)
      BY <2>3
    <3> QED BY ClosePromise DEF Promise!Next, Promise!vars
  <2>4. ASSUME caller \in Owners, NEW k \in Keys, NEW expiry \in Nat, NEW cap \in Nat,
               NEW T \in SUBSET Tokens, NEW budget \in [T -> Amounts], NEW list \in Seq(Addresses),
               OpenSession(caller, k, expiry, cap, budget, list)
        PROVE  Promise!Next
    BY <2>4, OpenPromise DEF Promise!Next
  <2>5. ASSUME caller \in Keys, NEW t \in Tokens, NEW to \in Addresses, NEW requested \in Amounts,
               SendCall(caller, t, to, requested)
        PROVE  Promise!Next
    BY <2>5, CallPromise DEF Promise!Next
  <2> QED
    BY <1>4, <2>1, <2>2, <2>3, <2>4, <2>5 DEF Call
<1> QED
  BY <1>1, <1>2, <1>3, <1>4 DEF Next

\* Whatever owners, keys, tokens and amounts there are, and also when a token calls
\* back while a send is under way, the module never lets a key spend more than it
\* was granted, nor begin a spend, nor be raised, once its session has ended
\* (openSession, send, increaseBudget, closeSession).
THEOREM SessionImplementsAllowance == Spec => ImplementsAllowance
<1>1. MoneyInv /\ [Next]_vars => [Promise!Next]_(Promise!vars)
  BY StepPromise
<1> QED
  BY <1>1, InitPromise, SpecMoney, PTL DEF Spec, ImplementsAllowance, Promise!Spec

---------------------------------------------------------------------------
(* The allowlist and its index                                              *)

\* A list without repetitions, and where each of its members is in it.
Indexed(list, index) ==
  /\ list \in Seq(Addresses) /\ index \in [Addresses -> Nat]
  /\ \A j \in DOMAIN list : index[list[j]] = j
  /\ \A a \in Addresses : index[a] # 0 => index[a] \in DOMAIN list /\ list[index[a]] = a

ListInv ==
  /\ recipients \in [Keys -> Seq(Addresses)]
  /\ recipientIndex \in [Keys -> [Addresses -> Nat]]
  /\ \A k \in Keys : Indexed(recipients[k], recipientIndex[k])

\* _addRecipient, called once for every recipient of an opening.
LEMMA FreshIndex ==
  ASSUME NEW list \in Seq(Addresses), IsInjective(list)
  PROVE  Indexed(list, [a \in Addresses |->
           IF \E i \in DOMAIN list : list[i] = a THEN CHOOSE i \in DOMAIN list : list[i] = a ELSE 0])
<1> DEFINE index == [a \in Addresses |->
             IF \E i \in DOMAIN list : list[i] = a THEN CHOOSE i \in DOMAIN list : list[i] = a ELSE 0]
<1>1. DOMAIN list \subseteq Nat \ {0} /\ \A j \in DOMAIN list : list[j] \in Addresses
  OBVIOUS
<1>2. ASSUME NEW a \in Addresses, \E i \in DOMAIN list : list[i] = a
      PROVE  index[a] \in DOMAIN list /\ list[index[a]] = a
  BY <1>2
<1>3. ASSUME NEW a \in Addresses, ~ \E i \in DOMAIN list : list[i] = a
      PROVE  index[a] = 0
  BY <1>3
<1>4. DOMAIN index = Addresses /\ index = [a \in Addresses |-> index[a]]
  OBVIOUS
<1> HIDE DEF index
<1>5. index \in [Addresses -> Nat]
  BY <1>1, <1>2, <1>3, <1>4
<1>6. \A j \in DOMAIN list : index[list[j]] = j
  BY <1>1, <1>2 DEF IsInjective
<1> QED
  BY <1>2, <1>3, <1>5, <1>6 DEF Indexed, index

LEMMA AddedIndex ==
  ASSUME NEW list, NEW index, Indexed(list, index), NEW a \in Addresses, index[a] = 0
  PROVE  Indexed(Append(list, a), [index EXCEPT ![a] = Len(list) + 1])
<1> DEFINE longer == Append(list, a)
           new == [index EXCEPT ![a] = Len(list) + 1]
<1>1. /\ list \in Seq(Addresses) /\ longer \in Seq(Addresses) /\ Len(longer) = Len(list) + 1
      /\ DOMAIN list = 1..Len(list) /\ DOMAIN longer = 1..(Len(list) + 1) /\ Len(list) \in Nat
      /\ longer[Len(list) + 1] = a /\ \A j \in 1..Len(list) : longer[j] = list[j]
  BY DEF Indexed
<1>2. new \in [Addresses -> Nat] /\ new[a] = Len(list) + 1
      /\ \A b \in Addresses : b # a => new[b] = index[b]
  BY <1>1 DEF Indexed
<1>3. \A j \in 1..Len(list) : list[j] # a /\ list[j] \in Addresses
  BY <1>1 DEF Indexed
<1> HIDE DEF longer, new
<1>4. ASSUME NEW j \in DOMAIN longer
      PROVE  new[longer[j]] = j
  <2>1. CASE j = Len(list) + 1
    BY <1>1, <1>2, <2>1
  <2>2. CASE j \in 1..Len(list)
    BY <1>1, <1>2, <1>3, <2>2 DEF Indexed
  <2> QED
    BY <1>1, <2>1, <2>2
<1>5. ASSUME NEW b \in Addresses, new[b] # 0
      PROVE  new[b] \in DOMAIN longer /\ longer[new[b]] = b
  <2>1. CASE b = a
    BY <1>1, <1>2, <2>1
  <2>2. CASE b # a
    BY <1>1, <1>2, <1>5, <2>2 DEF Indexed
  <2> QED
    BY <2>1, <2>2
<1> QED
  BY <1>1, <1>2, <1>4, <1>5 DEF Indexed, longer, new

\* Swap and pop: also when the one removed is the last.
LEMMA RemovedIndex ==
  ASSUME NEW list, NEW index, Indexed(list, index), NEW a \in Addresses, index[a] # 0
  PROVE  Indexed(SubSeq([list EXCEPT ![index[a]] = list[Len(list)]], 1, Len(list) - 1),
                 [index EXCEPT ![list[Len(list)]] = index[a], ![a] = 0])
<1> DEFINE idx == index[a]
           last == Len(list)
           moved == list[last]
           swapped == [list EXCEPT ![idx] = moved]
           shorter == SubSeq(swapped, 1, last - 1)
           new == [index EXCEPT ![moved] = idx, ![a] = 0]
<1>1. /\ list \in Seq(Addresses) /\ last \in Nat /\ DOMAIN list = 1..last
      /\ index \in [Addresses -> Nat]
      /\ idx \in 1..last /\ list[idx] = a /\ last \in 1..last /\ index[moved] = last
      /\ moved \in Addresses /\ \A j \in 1..last : list[j] \in Addresses
  <2>1. list \in Seq(Addresses) /\ last \in Nat /\ DOMAIN list = 1..last /\ index \in [Addresses -> Nat]
    BY DEF Indexed
  <2>2. idx \in 1..last /\ list[idx] = a
    BY <2>1 DEF Indexed
  <2>3. last \in 1..last
    BY <2>1, <2>2
  <2> QED
    BY <2>1, <2>2, <2>3 DEF Indexed
<1>2. /\ swapped \in Seq(Addresses) /\ Len(swapped) = last
      /\ \A j \in 1..last : swapped[j] = IF j = idx THEN moved ELSE list[j]
  BY <1>1
<1> HIDE DEF swapped
<1>3. /\ shorter \in Seq(Addresses) /\ DOMAIN shorter = 1..(last - 1)
      /\ \A j \in 1..(last - 1) : shorter[j] = IF j = idx THEN moved ELSE list[j]
  <2>1. last - 1 \in 0..Len(swapped) /\ \A j \in 1..(last - 1) : j \in 1..last
    BY <1>1, <1>2
  <2>2. shorter \in Seq(Addresses) /\ Len(shorter) = last - 1
        /\ \A j \in 1..(last - 1) : shorter[j] = swapped[j]
    BY <1>1, <1>2, <2>1
  <2> QED
    BY <1>2, <2>1, <2>2
<1>4. new \in [Addresses -> Nat]
      /\ \A b \in Addresses : new[b] = IF b = a THEN 0 ELSE IF b = moved THEN idx ELSE index[b]
  BY <1>1
<1> HIDE DEF shorter, new, idx, last, moved
<1>5. \A i, j \in 1..last : list[i] = list[j] => i = j
  BY <1>1 DEF Indexed
<1>6. ASSUME NEW j \in DOMAIN shorter
      PROVE  new[shorter[j]] = j
  <2>1. j \in 1..last /\ j # last
    BY <1>1, <1>3
  <2>2. CASE j = idx
    <3>1. moved # a
      BY <1>1, <1>5, <2>1, <2>2 DEF moved
    <3> QED
      BY <1>1, <1>3, <1>4, <2>2, <3>1
  <2>3. CASE j # idx
    <3>1. list[j] # a /\ list[j] # moved
      BY <1>1, <1>5, <2>1, <2>3 DEF moved
    <3>2. index[list[j]] = j
      BY <1>1, <2>1 DEF Indexed
    <3> QED
      BY <1>1, <1>3, <1>4, <2>1, <2>3, <3>1, <3>2
  <2> QED
    BY <2>2, <2>3
<1>7. ASSUME NEW b \in Addresses, new[b] # 0
      PROVE  new[b] \in DOMAIN shorter /\ shorter[new[b]] = b
  <2>1. b # a
    BY <1>4, <1>7
  <2>2. CASE b = moved
    <3>1. idx # last
      BY <1>1, <2>1, <2>2 DEF moved
    <3>2. new[b] = idx
      BY <1>4, <2>1, <2>2
    <3>3. idx \in 1..(last - 1)
      BY <1>1, <3>1
    <3>4. shorter[idx] = moved
      BY <1>3, <3>3
    <3> QED
      BY <1>3, <2>2, <3>2, <3>3, <3>4
  <2>3. CASE b # moved
    <3>1. new[b] = index[b] /\ index[b] \in 1..last /\ list[index[b]] = b
      BY <1>1, <1>4, <1>7, <2>1, <2>3 DEF Indexed
    <3>2. index[b] # last /\ index[b] # idx
      BY <1>1, <2>1, <2>3, <3>1 DEF moved
    <3> QED
      BY <1>1, <1>3, <3>1, <3>2
  <2> QED
    BY <2>2, <2>3
<1> QED
  BY <1>3, <1>4, <1>6, <1>7 DEF Indexed, shorter, swapped, new, idx, last, moved

LEMMA InitList == Init => ListInv
<1> SUFFICES ASSUME Init PROVE ListInv
  OBVIOUS
<1>1. /\ recipients = [k \in Keys |-> <<>>]
      /\ recipientIndex = [k \in Keys |-> [a \in Addresses |-> 0]]
  BY DEF Init
<1>2. Indexed(<<>>, [a \in Addresses |-> 0])
  BY DEF Indexed
<1> QED
  BY <1>1, <1>2 DEF ListInv, Indexed

\* One key's list and index change together.
LEMMA OneList ==
  ASSUME ListInv, NEW k \in Keys, NEW list, NEW index, Indexed(list, index),
         recipients' = [recipients EXCEPT ![k] = list],
         recipientIndex' = [recipientIndex EXCEPT ![k] = index]
  PROVE  ListInv'
<1>1. list \in Seq(Addresses) /\ index \in [Addresses -> Nat]
  BY DEF Indexed
<1>2. /\ recipients' \in [Keys -> Seq(Addresses)] /\ recipientIndex' \in [Keys -> [Addresses -> Nat]]
      /\ recipients'[k] = list /\ recipientIndex'[k] = index
      /\ \A other \in Keys : other # k => /\ recipients'[other] = recipients[other]
                                           /\ recipientIndex'[other] = recipientIndex[other]
  BY <1>1 DEF ListInv
<1>3. ASSUME NEW other \in Keys
      PROVE  Indexed(recipients'[other], recipientIndex'[other])
  BY <1>2 DEF ListInv
<1> QED
  BY <1>2, <1>3 DEF ListInv, Indexed

LEMMA StepList ==
  ASSUME ListInv, [Next]_vars
  PROVE  ListInv'
<1>1. ASSUME NEW caller, NEW k \in Keys, NEW to \in Addresses, AddRecipient(caller, k, to)
      PROVE  ListInv'
  <2>1. Indexed(recipients[k], recipientIndex[k]) /\ recipientIndex[k][to] = 0
    BY <1>1 DEF AddRecipient, ListInv
  <2>2. /\ recipients' = [recipients EXCEPT ![k] = Append(recipients[k], to)]
        /\ recipientIndex' = [recipientIndex EXCEPT
             ![k] = [recipientIndex[k] EXCEPT ![to] = Len(recipients[k]) + 1]]
    BY <1>1 DEF AddRecipient
  <2> QED
    BY <2>1, <2>2, AddedIndex, OneList
<1>2. ASSUME NEW caller, NEW k \in Keys, NEW to \in Addresses, RemoveRecipient(caller, k, to)
      PROVE  ListInv'
  <2>1. Indexed(recipients[k], recipientIndex[k]) /\ recipientIndex[k][to] # 0
    BY <1>2 DEF RemoveRecipient, ListInv
  <2>2. /\ recipients' = [recipients EXCEPT ![k] =
             SubSeq([recipients[k] EXCEPT ![recipientIndex[k][to]] = recipients[k][Len(recipients[k])]],
                    1, Len(recipients[k]) - 1)]
        /\ recipientIndex' = [recipientIndex EXCEPT ![k] =
             [recipientIndex[k] EXCEPT ![recipients[k][Len(recipients[k])]] = recipientIndex[k][to],
                                       ![to] = 0]]
    BY <1>2 DEF RemoveRecipient
  <2> QED
    BY <2>1, <2>2, RemovedIndex, OneList
<1>3. ASSUME NEW o, NEW k \in Keys, NEW expiry, NEW cap, NEW budget, NEW list \in Seq(Addresses),
             OpenSession(o, k, expiry, cap, budget, list)
      PROVE  ListInv'
  <2> DEFINE index == [a \in Addresses |->
               IF \E i \in DOMAIN list : list[i] = a THEN CHOOSE i \in DOMAIN list : list[i] = a
               ELSE 0]
  <2>1. IsInjective(list) /\ recipients' = [recipients EXCEPT ![k] = list]
        /\ recipientIndex' = [recipientIndex EXCEPT ![k] = index]
    BY <1>3 DEF OpenSession
  <2>2. Indexed(list, index)
    BY <2>1, FreshIndex
  <2> HIDE DEF index
  <2> QED
    BY <2>1, <2>2, OneList
<1>4. CASE UNCHANGED <<recipients, recipientIndex>>
  BY <1>4 DEF ListInv, Indexed
<1>5. CASE World \/ SendReturn \/ UNCHANGED vars
  <2>1. UNCHANGED <<recipients, recipientIndex>>
    BY <1>5 DEF World, Tick, PauseAcl, Consent, SetOperator, OwnerMoves, SendReturn, vars
  <2> QED
    BY <1>4, <2>1
<1>6. ASSUME NEW caller \in Addresses, Call(caller)
      PROVE  ListInv'
  <2>1. CASE \/ \E k \in Keys, t \in Tokens, delta \in Amounts : IncreaseBudget(caller, k, t, delta)
             \/ \E k \in Keys : CloseSession(caller, k)
             \/ \E k \in Keys, t \in Tokens, to \in Addresses, requested \in Amounts :
                  SendCall(k, t, to, requested)
    <3>1. UNCHANGED <<recipients, recipientIndex>>
      BY <2>1 DEF IncreaseBudget, CloseSession, SendCall
    <3> QED
      BY <1>4, <3>1
  <2> QED
    BY <1>1, <1>2, <1>3, <1>6, <2>1 DEF Call
<1> QED
  BY <1>5, <1>6 DEF Next

LEMMA SpecList == Spec => []ListInv
BY InitList, StepList, PTL DEF Spec

\* The allowlist and its index agree for every list the contract can hold, after
\* any sequence of openings, additions and swap-and-pop removals, the removal of
\* the last recipient among them (_addRecipient, removeRecipient).
THEOREM AllowlistIsIndexed == Spec => []IndexMatchesList
<1>1. ListInv => IndexMatchesList
  BY DEF ListInv, Indexed, IndexMatchesList
<1> QED
  BY <1>1, SpecList, PTL

---------------------------------------------------------------------------
(* The client                                                              *)

\* What may be left of the calls an opening asks its owner for.
CallsLeft == {OwnerCalls, Tail(OwnerCalls), <<"delegate">>, <<>>}

Stages == {"idle", "file", "meta", "stored", "prepared", "calls", "funding", "adopting"}

Flows == [pc : Stages, owner : Owners \cup {NoOne}, calls : CallsLeft]

\* Reading is left to be granted only where the session was opened; whoever is
\* asked is an owner, for as long as there is something to ask.
FlowInv ==
  /\ flow \in [Keys -> Flows] /\ batch \in [Keys -> CallsLeft]
  /\ \A k \in Keys :
       /\ flow[k].pc # "idle" => flow[k].owner \in Owners
       /\ flow[k].pc \in {"prepared", "calls"} => flow[k].calls # <<>>
       /\ flow[k].calls = <<"delegate">> \/ batch[k] = <<"delegate">> => Exists(k)

\* A key signs only once it can be loaded, and is opened only if it signed.
SignedKeysLoadable == \A c \in consent : Loadable(c.key)

OpeningInv ==
  /\ session \in [Keys -> Sessions] /\ delegated \subseteq Keys
  /\ FlowInv /\ SignedKeysLoadable /\ OpenedKeysLoadable /\ ReadersAreOpened

---------------------------------------------------------------------------
(* The calls of an opening, in their order                                  *)

LEMMA TwoOrThree ==
  /\ Tail(<<"operator", "open">>) = <<"open">> /\ Head(<<"operator", "open">>) = "operator"
  /\ Tail(<<"open">>) = <<>> /\ Head(<<"open">>) = "open"
  /\ Tail(<<"operator", "open", "delegate">>) = <<"open", "delegate">>
  /\ Head(<<"operator", "open", "delegate">>) = "operator"
  /\ Tail(<<"open", "delegate">>) = <<"delegate">> /\ Head(<<"open", "delegate">>) = "open"
  /\ Tail(<<"delegate">>) = <<>> /\ Head(<<"delegate">>) = "delegate"
OBVIOUS

LEMMA Lengths ==
  /\ <<"open">> # <<"delegate">> /\ <<"open", "delegate">> # <<"delegate">>
  /\ <<"operator", "open">> # <<"delegate">> /\ <<"operator", "open">> # <<>>
  /\ <<"operator", "open", "delegate">> # <<"delegate">>
  /\ <<"operator", "open", "delegate">> # <<>>
  /\ <<>> # <<"delegate">>
OBVIOUS

\* What is first, and what is left when it has been mined.
LEMMA NextCall ==
  ASSUME NEW q \in CallsLeft, q # <<>>
  PROVE  /\ Tail(q) \in CallsLeft
         /\ \/ Head(q) = "operator" /\ Tail(q) # <<"delegate">>
            \/ Head(q) = "open"
            \/ Head(q) = "delegate" /\ q = <<"delegate">> /\ Tail(q) = <<>>
<1>1. CASE Visible
  <2>1. OwnerCalls = <<"operator", "open", "delegate">>
    BY <1>1 DEF OwnerCalls
  <2>2. CallsLeft = {<<"operator", "open", "delegate">>, <<"open", "delegate">>,
                     <<"delegate">>, <<>>}
    BY <2>1, TwoOrThree DEF CallsLeft
  <2> QED
    BY <2>2, TwoOrThree, Lengths, Zenon
<1>2. CASE ~Visible
  <2>1. OwnerCalls = <<"operator", "open">>
    BY <1>2 DEF OwnerCalls
  <2>2. CallsLeft = {<<"operator", "open">>, <<"open">>, <<"delegate">>, <<>>}
    BY <2>1, TwoOrThree DEF CallsLeft
  <2> QED
    BY <2>2, TwoOrThree, Lengths, Zenon
<1> QED
  BY <1>1, <1>2

LEMMA AllCalls == OwnerCalls \in CallsLeft /\ OwnerCalls # <<>> /\ OwnerCalls # <<"delegate">>
                  /\ <<>> \in CallsLeft /\ <<>> # <<"delegate">>
BY Lengths DEF CallsLeft, OwnerCalls

---------------------------------------------------------------------------
(* What a step of the module does to owners and keys                        *)

\* Steps that open nothing, sign nothing and grant no reading.
LEMMA NothingOpened ==
  ASSUME OpeningInv, FlowInv',
         session' \in [Keys -> Sessions], \A k \in Keys : session'[k].owner = session[k].owner,
         keyFile \subseteq keyFile', keySecret \subseteq keySecret',
         consent' = consent, delegated' \subseteq delegated
  PROVE  OpeningInv'
<1>1. SignedKeysLoadable'
  BY DEF OpeningInv, SignedKeysLoadable, Loadable, Load, Answer
<1>2. OpenedKeysLoadable'
  BY DEF OpeningInv, OpenedKeysLoadable, Exists, Loadable, Load, Answer
<1>3. ReadersAreOpened'
  BY DEF OpeningInv, ReadersAreOpened, Exists
<1> QED
  BY <1>1, <1>2, <1>3 DEF OpeningInv

\* Closing a session and counting a send leave its owner alone.
LEMMA ClosingKeepsOwners ==
  ASSUME session \in [Keys -> Sessions], NEW caller, NEW key \in Keys, CloseSession(caller, key)
  PROVE  /\ session' \in [Keys -> Sessions] /\ consent' = consent
         /\ \A k \in Keys : session'[k].owner = session[k].owner
<1> DEFINE s == [session[key] EXCEPT !.expiry = 0]
<1>1. s \in Sessions /\ s.owner = session[key].owner
  BY DEF Sessions
<1>2. session' = [session EXCEPT ![key] = s] /\ consent' = consent
  BY DEF CloseSession
<1> HIDE DEF s
<1> QED
  BY <1>1, <1>2

LEMMA SendingKeepsOwners ==
  ASSUME session \in [Keys -> Sessions], NEW key, NEW t, NEW to, NEW requested,
         SendCall(key, t, to, requested)
  PROVE  /\ session' \in [Keys -> Sessions] /\ consent' = consent
         /\ \A k \in Keys : session'[k].owner = session[k].owner
<1>1. session' = [session EXCEPT ![key].txCount = @ + 1] /\ consent' = consent
  BY DEF SendCall
<1>2. CASE key \in Keys
  <2> DEFINE s == [session[key] EXCEPT !.txCount = @ + 1]
  <2>1. s \in Sessions /\ s.owner = session[key].owner
    BY <1>2 DEF Sessions
  <2>2. session' = [session EXCEPT ![key] = s]
    BY <1>1
  <2> HIDE DEF s
  <2> QED
    BY <1>1, <2>1, <2>2
<1>3. CASE key \notin Keys
  <2>1. session' = session
    BY <1>1, <1>3
  <2> QED
    BY <1>1, <2>1
<1> QED
  BY <1>2, <1>3

\* A call of the owner's, mined: whoever it opens a session for had signed, and
\* reading is granted last.
LEMMA MinedKeeps ==
  ASSUME OpeningInv, NEW q \in CallsLeft, q # <<>>, NEW o \in Owners, NEW k \in Keys,
         q = <<"delegate">> => Exists(k),
         Mined(Head(q), o, k), UNCHANGED keystoreVars
  PROVE  /\ session' \in [Keys -> Sessions] /\ delegated' \subseteq Keys
         /\ SignedKeysLoadable' /\ OpenedKeysLoadable' /\ ReadersAreOpened'
         /\ \A other \in Keys : Exists(other) => Exists(other)'
         /\ Tail(q) = <<"delegate">> => Exists(k)'
<1>1. CASE Head(q) = "operator"
  <2>1. session' = session /\ consent' = consent /\ delegated' = delegated
    BY <1>1 DEF Mined, SetOperator, sessionVars
  <2>2. Tail(q) # <<"delegate">>
    BY <1>1, NextCall
  <2> QED
    BY <2>1, <2>2 DEF OpeningInv, SignedKeysLoadable, OpenedKeysLoadable, ReadersAreOpened,
                      Exists, Loadable, Load, Answer, keystoreVars
<1>2. CASE Head(q) = "open"
  <2> DEFINE opened == [owner |-> o, expiry |-> Expiry, maxTxCount |-> Cap, txCount |-> 0]
             signed == [owner |-> o, key |-> k, expiry |-> Expiry, cap |-> Cap]
  <2>1. /\ session' = [session EXCEPT ![k] = opened]
        /\ signed \in consent /\ consent' = consent /\ delegated' = delegated
    BY <1>2 DEF Mined, OpenSession
  <2>2. opened \in Sessions /\ opened.owner = o /\ o # NoOne
    BY ClientConstants, SessionConstants DEF Sessions
  <2> HIDE DEF opened
  <2>3. session' \in [Keys -> Sessions]
    BY <2>1, <2>2 DEF OpeningInv
  <2>4. Exists(k)' /\ \A other \in Keys : other # k => (Exists(other)' <=> Exists(other))
    BY <2>1, <2>2 DEF OpeningInv, Exists
  <2>5. Loadable(k)
    <3>1. Loadable(signed.key)
      BY <2>1 DEF OpeningInv, SignedKeysLoadable
    <3> QED
      BY <3>1
  <2>6. \A other : Loadable(other)' <=> Loadable(other)
    BY DEF Loadable, Load, Answer, keystoreVars
  <2>7. SignedKeysLoadable'
    BY <2>1, <2>6 DEF OpeningInv, SignedKeysLoadable
  <2>8. OpenedKeysLoadable' /\ ReadersAreOpened'
    BY <2>1, <2>4, <2>5, <2>6 DEF OpeningInv, OpenedKeysLoadable, ReadersAreOpened
  <2> QED
    BY <2>1, <2>3, <2>4, <2>7, <2>8 DEF OpeningInv
<1>3. CASE Head(q) = "delegate" /\ q = <<"delegate">> /\ Tail(q) = <<>>
  <2>1. session' = session /\ consent' = consent /\ delegated' = delegated \cup {k}
    BY <1>3 DEF Mined, vars, sessionVars
  <2>2. Tail(q) # <<"delegate">>
    BY <1>3, AllCalls
  <2> QED
    BY <1>3, <2>1, <2>2 DEF OpeningInv, SignedKeysLoadable, OpenedKeysLoadable, ReadersAreOpened,
                            Exists, Loadable, Load, Answer, keystoreVars
<1> QED
  BY <1>1, <1>2, <1>3, NextCall

---------------------------------------------------------------------------
(* What a step does to the openings under way                                *)

\* One opening moves on, asking for no more than it did.
LEMMA FlowMoves ==
  ASSUME OpeningInv, NEW k \in Keys, NEW f \in Flows,
         flow' = [flow EXCEPT ![k] = f], batch' \in [Keys -> CallsLeft],
         f.pc # "idle" => f.owner \in Owners,
         f.pc \in {"prepared", "calls"} => f.calls # <<>>,
         f.calls = <<"delegate">> => Exists(k)',
         \A other \in Keys : batch'[other] = <<"delegate">> => Exists(other)',
         \A other \in Keys : Exists(other) => Exists(other)'
  PROVE  FlowInv'
<1>1. flow' \in [Keys -> Flows]
  BY DEF OpeningInv, FlowInv
<1>2. \A other \in Keys : flow'[other] = IF other = k THEN f ELSE flow[other]
  BY DEF OpeningInv, FlowInv
<1>3. ASSUME NEW other \in Keys
      PROVE  /\ flow'[other].pc # "idle" => flow'[other].owner \in Owners
             /\ flow'[other].pc \in {"prepared", "calls"} => flow'[other].calls # <<>>
             /\ flow'[other].calls = <<"delegate">> \/ batch'[other] = <<"delegate">>
                  => Exists(other)'
  <2>1. CASE other = k
    BY <1>2, <2>1
  <2>2. CASE other # k
    BY <1>2, <2>2 DEF OpeningInv, FlowInv
  <2> QED
    BY <2>1, <2>2
<1> QED
  BY <1>1, <1>3 DEF FlowInv

LEMMA FlowStays ==
  ASSUME OpeningInv, UNCHANGED <<flow, batch>>,
         \A k \in Keys : session'[k].owner = session[k].owner
  PROVE  FlowInv'
BY DEF OpeningInv, FlowInv, Exists

LEMMA IdleIsFlow == Idle \in Flows /\ Idle.pc = "idle" /\ Idle.calls = <<>>
BY AllCalls DEF Idle, Flows, Stages

LEMMA PcMoves ==
  ASSUME OpeningInv, NEW k \in Keys, NEW from \in Stages, NEW to \in Stages, from # "idle",
         to \in {"prepared", "calls"} => from \in {"prepared", "calls"},
         Moves(k, from, to), UNCHANGED <<batch, session>>
  PROVE  FlowInv'
<1> DEFINE f == [flow[k] EXCEPT !.pc = to]
<1>1. flow[k] \in Flows /\ flow[k].pc = from /\ flow' = [flow EXCEPT ![k] = f]
  BY DEF Moves, OpeningInv, FlowInv
<1>2. f \in Flows /\ f.pc = to /\ f.owner = flow[k].owner /\ f.calls = flow[k].calls
  BY <1>1 DEF Flows
<1> HIDE DEF f
<1>3. f.owner \in Owners /\ (f.pc \in {"prepared", "calls"} => f.calls # <<>>)
  BY <1>1, <1>2 DEF OpeningInv, FlowInv
<1>4. /\ f.calls = <<"delegate">> => Exists(k)'
      /\ \A other \in Keys : batch'[other] = <<"delegate">> => Exists(other)'
      /\ \A other \in Keys : Exists(other) => Exists(other)'
      /\ batch' \in [Keys -> CallsLeft]
  BY <1>2 DEF OpeningInv, FlowInv, Exists
<1> QED
  BY <1>1, <1>2, <1>3, <1>4, FlowMoves

LEMMA OpeningEnds ==
  ASSUME OpeningInv, NEW k \in Keys, Fails(k), UNCHANGED <<batch, session>>
  PROVE  FlowInv'
<1>1. /\ \A other \in Keys : batch'[other] = <<"delegate">> => Exists(other)'
      /\ \A other \in Keys : Exists(other) => Exists(other)'
      /\ batch' \in [Keys -> CallsLeft] /\ flow' = [flow EXCEPT ![k] = Idle]
  BY DEF OpeningInv, FlowInv, Exists, Fails
<1> QED
  BY <1>1, IdleIsFlow, AllCalls, FlowMoves

---------------------------------------------------------------------------
(* One lemma per part of the next-state relation                            *)

\* keystore.create: the records are written one after the other.
LEMMA CreatingKeeps ==
  ASSUME OpeningInv, NEW k \in Keys,
         (\E o \in Owners : CreateFile(o, k)) \/ CreateMeta(k) \/ StoreSecret(k)
  PROVE  OpeningInv'
<1>1. FlowInv'
  <2>1. ASSUME NEW o \in Owners, CreateFile(o, k)
        PROVE  FlowInv'
    <3> DEFINE f == [pc |-> "file", owner |-> o, calls |-> <<>>]
    <3>1. f \in Flows /\ f.owner \in Owners /\ f.pc = "file" /\ f.calls = <<>>
      BY AllCalls DEF Flows, Stages
    <3>2. flow' = [flow EXCEPT ![k] = f] /\ UNCHANGED <<batch, session>>
      BY <2>1 DEF CreateFile, vars, sessionVars
    <3> HIDE DEF f
    <3>3. /\ \A other \in Keys : batch'[other] = <<"delegate">> => Exists(other)'
          /\ \A other \in Keys : Exists(other) => Exists(other)'
          /\ batch' \in [Keys -> CallsLeft]
      BY <3>2 DEF OpeningInv, FlowInv, Exists
    <3> QED
      BY <3>1, <3>2, <3>3, AllCalls, FlowMoves
  <2>2. CASE CreateMeta(k)
    <3>1. Moves(k, "file", "meta") /\ UNCHANGED <<batch, session>>
      BY <2>2 DEF CreateMeta, vars, sessionVars
    <3> QED
      BY <3>1, PcMoves DEF Stages
  <2>3. CASE StoreSecret(k)
    <3>1. Moves(k, "meta", "stored") /\ UNCHANGED <<batch, session>>
      BY <2>3 DEF StoreSecret, vars, sessionVars
    <3> QED
      BY <3>1, PcMoves DEF Stages
  <2> QED
    BY <2>1, <2>2, <2>3
<1>2. /\ UNCHANGED <<session, consent, delegated>>
      /\ keyFile \subseteq keyFile' /\ keySecret \subseteq keySecret'
  BY DEF CreateFile, CreateMeta, StoreSecret, WriteKeyFile, WriteLabel, PutSecret, vars, sessionVars
<1> QED
  BY <1>1, <1>2, NothingOpened DEF OpeningInv

\* prepareSession: the key that signs is the one that was loaded.
LEMMA PrepareKeeps ==
  ASSUME OpeningInv, NEW k \in Keys, Prepare(k)
  PROVE  OpeningInv'
<1> DEFINE f == [flow[k] EXCEPT !.pc = "prepared", !.calls = OwnerCalls]
           signed == [owner |-> flow[k].owner, key |-> k, expiry |-> Expiry, cap |-> Cap]
<1>1. /\ flow[k] \in Flows /\ flow[k].owner \in Owners /\ Loadable(k)
      /\ flow' = [flow EXCEPT ![k] = f] /\ consent' = consent \cup {signed}
      /\ UNCHANGED <<keyFile, keySecret, batch, session, delegated>>
  BY DEF Prepare, Consent, sessionVars, keystoreVars, OpeningInv, FlowInv
<1>2. f \in Flows /\ f.owner \in Owners /\ f.calls = OwnerCalls
  BY <1>1, AllCalls DEF Flows, Stages
<1>3. signed.key = k
  OBVIOUS
<1> HIDE DEF f, signed
<1>4. /\ \A other \in Keys : batch'[other] = <<"delegate">> => Exists(other)'
      /\ \A other \in Keys : Exists(other)' <=> Exists(other)
      /\ batch' \in [Keys -> CallsLeft]
  BY <1>1 DEF OpeningInv, FlowInv, Exists
<1>5. FlowInv'
  BY <1>1, <1>2, <1>4, AllCalls, FlowMoves
<1>6. \A other : Loadable(other)' <=> Loadable(other)
  BY <1>1 DEF Loadable, Load, Answer
<1>7. SignedKeysLoadable'
  BY <1>1, <1>3, <1>6 DEF OpeningInv, SignedKeysLoadable
<1>8. OpenedKeysLoadable' /\ ReadersAreOpened'
  BY <1>1, <1>4, <1>6 DEF OpeningInv, OpenedKeysLoadable, ReadersAreOpened
<1> QED
  BY <1>1, <1>5, <1>7, <1>8 DEF OpeningInv

\* A wallet takes the calls as a batch, mines some of it, or drops it.
LEMMA BatchKeeps ==
  ASSUME OpeningInv, NEW k \in Keys,
         AskBatch(k) \/ DropBatch(k) \/ \E o \in Owners : BatchCall(o, k)
  PROVE  OpeningInv'
<1>1. CASE AskBatch(k)
  <2>1. PICK pc \in {"funding", "calls"} : flow' = [flow EXCEPT ![k].pc = pc]
    BY <1>1 DEF AskBatch
  <2> DEFINE f == [flow[k] EXCEPT !.pc = pc]
  <2>2. /\ flow[k] \in Flows /\ flow[k].pc = "prepared" /\ flow' = [flow EXCEPT ![k] = f]
        /\ batch' = [batch EXCEPT ![k] = flow[k].calls]
        /\ UNCHANGED <<keyFile, keySecret, session, consent, delegated>>
    BY <1>1, <2>1 DEF AskBatch, OpeningInv, FlowInv, vars, sessionVars, keystoreVars
  <2>3. f \in Flows /\ f.owner = flow[k].owner /\ f.calls = flow[k].calls /\ f.calls \in CallsLeft
    BY <2>2 DEF Flows, Stages
  <2> HIDE DEF f
  <2>4. f.owner \in Owners /\ f.calls # <<>> /\ (f.calls = <<"delegate">> => Exists(k)')
    BY <2>2, <2>3 DEF OpeningInv, FlowInv, Exists
  <2>5. batch' \in [Keys -> CallsLeft]
    BY <2>2, <2>3 DEF OpeningInv, FlowInv
  <2>6. \A other \in Keys : batch'[other] = <<"delegate">> => Exists(other)'
    BY <2>2, <2>3, <2>4 DEF OpeningInv, FlowInv, Exists
  <2>7. \A other \in Keys : Exists(other) => Exists(other)'
    BY <2>2 DEF Exists
  <2>8. FlowInv'
    BY <2>2, <2>3, <2>4, <2>5, <2>6, <2>7, FlowMoves
  <2> QED
    BY <2>2, <2>8, NothingOpened DEF OpeningInv
<1>2. CASE DropBatch(k)
  <2>1. /\ batch' = [batch EXCEPT ![k] = <<>>] /\ flow' = flow
        /\ UNCHANGED <<keyFile, keySecret, session, consent, delegated>>
    BY <1>2 DEF DropBatch, vars, sessionVars, keystoreVars
  <2>2. FlowInv'
    BY <2>1, AllCalls DEF OpeningInv, FlowInv, Exists
  <2> QED
    BY <2>1, <2>2, NothingOpened DEF OpeningInv
<1>3. ASSUME NEW o \in Owners, BatchCall(o, k)
      PROVE  OpeningInv'
  <2> DEFINE q == batch[k]
  <2>1. /\ q \in CallsLeft /\ q # <<>> /\ (q = <<"delegate">> => Exists(k))
        /\ Mined(Head(q), o, k) /\ UNCHANGED keystoreVars
        /\ batch' = [batch EXCEPT ![k] = Tail(q)] /\ flow' = flow
    BY <1>3 DEF BatchCall, OpeningInv, FlowInv
  <2>2. Tail(q) \in CallsLeft
    BY <2>1, NextCall
  <2>3. /\ session' \in [Keys -> Sessions] /\ delegated' \subseteq Keys
        /\ SignedKeysLoadable' /\ OpenedKeysLoadable' /\ ReadersAreOpened'
        /\ \A other \in Keys : Exists(other) => Exists(other)'
        /\ Tail(q) = <<"delegate">> => Exists(k)'
    BY <2>1, MinedKeeps
  <2> HIDE DEF q
  <2>4. FlowInv'
    BY <2>1, <2>2, <2>3 DEF OpeningInv, FlowInv
  <2> QED
    BY <2>3, <2>4 DEF OpeningInv
<1> QED
  BY <1>1, <1>2, <1>3

\* The calls are sent one by one, and the answer to one may be lost.
LEMMA SubmitKeeps ==
  ASSUME OpeningInv, NEW k \in Keys, SubmitCall(k)
  PROVE  OpeningInv'
<1> DEFINE q == flow[k].calls
<1>1. /\ flow[k] \in Flows /\ q \in CallsLeft /\ q # <<>> /\ (q = <<"delegate">> => Exists(k))
      /\ flow[k].owner \in Owners /\ flow[k].pc = "calls"
      /\ Mined(Head(q), flow[k].owner, k) /\ UNCHANGED <<keystoreVars, batch>>
  BY DEF SubmitCall, OpeningInv, FlowInv, Flows, keystoreVars
<1>2. Tail(q) \in CallsLeft
  BY <1>1, NextCall
<1>3. /\ session' \in [Keys -> Sessions] /\ delegated' \subseteq Keys
      /\ SignedKeysLoadable' /\ OpenedKeysLoadable' /\ ReadersAreOpened'
      /\ \A other \in Keys : Exists(other) => Exists(other)'
      /\ Tail(q) = <<"delegate">> => Exists(k)'
  BY <1>1, MinedKeeps
<1>4. \/ Fails(k)
      \/ flow' = [flow EXCEPT ![k] = [@ EXCEPT !.calls = Tail(q),
                                              !.pc = IF Tail(q) = <<>> THEN "funding" ELSE "calls"]]
  BY DEF SubmitCall
<1>5. /\ \A other \in Keys : batch'[other] = <<"delegate">> => Exists(other)'
      /\ batch' \in [Keys -> CallsLeft]
  BY <1>1, <1>3 DEF OpeningInv, FlowInv
<1>6. CASE Fails(k)
  <2>1. flow' = [flow EXCEPT ![k] = Idle]
    BY <1>6 DEF Fails
  <2>2. FlowInv'
    BY <1>3, <1>5, <2>1, IdleIsFlow, AllCalls, FlowMoves
  <2> QED
    BY <1>3, <2>2 DEF OpeningInv
<1>7. CASE ~Fails(k)
  <2> DEFINE f == [flow[k] EXCEPT !.calls = Tail(q),
                                  !.pc = IF Tail(q) = <<>> THEN "funding" ELSE "calls"]
  <2>1. flow' = [flow EXCEPT ![k] = f]
    BY <1>4, <1>7
  <2>2. /\ f \in Flows /\ f.owner = flow[k].owner /\ f.calls = Tail(q)
        /\ f.pc = IF Tail(q) = <<>> THEN "funding" ELSE "calls"
    BY <1>1, <1>2 DEF Flows, Stages
  <2> HIDE DEF f
  <2>3. FlowInv'
    BY <1>1, <1>3, <1>5, <2>1, <2>2, FlowMoves
  <2> QED
    BY <1>3, <2>3 DEF OpeningInv
<1> QED
  BY <1>6, <1>7

\* The rest of an opening: a turn of its counter, or its end.
LEMMA OpeningKeeps ==
  ASSUME OpeningInv, NEW k \in Keys,
         NoBatch(k) \/ Fund(k) \/ Adopt(k) \/ OpeningFails(k)
  PROVE  OpeningInv'
<1>1. UNCHANGED <<keyFile, keySecret, batch, session, consent, delegated>>
  BY DEF NoBatch, Fund, Adopt, OpeningFails, vars, sessionVars, keystoreVars
<1>2. FlowInv'
  <2>1. CASE NoBatch(k)
    <3>1. Moves(k, "prepared", "calls")
      BY <2>1 DEF NoBatch
    <3> QED
      BY <1>1, <3>1, PcMoves DEF Stages
  <2>2. CASE Fund(k)
    <3>1. Moves(k, "funding", "adopting")
      BY <2>2 DEF Fund
    <3> QED
      BY <1>1, <3>1, PcMoves DEF Stages
  <2>3. CASE Adopt(k) \/ OpeningFails(k)
    <3>1. Fails(k)
      BY <2>3 DEF Adopt, OpeningFails
    <3> QED
      BY <1>1, <3>1, OpeningEnds
  <2> QED
    BY <2>1, <2>2, <2>3
<1> QED
  BY <1>1, <1>2, NothingOpened DEF OpeningInv

\* Steps that leave every opening where it is and every owner with its sessions.
LEMMA OthersKeep ==
  ASSUME OpeningInv, UNCHANGED <<keyFile, keySecret, flow, batch, consent>>,
         delegated' \subseteq delegated, session' \in [Keys -> Sessions],
         \A k \in Keys : session'[k].owner = session[k].owner
  PROVE  OpeningInv'
BY FlowStays, NothingOpened

\* A session that is taken over, narrowed, closed, swept, or no longer read with.
LEMMA KeyStepKeeps ==
  ASSUME OpeningInv, NEW k \in Keys,
         \/ Resume(k) \/ Sweep(k) \/ RevokeBalanceAccess(k)
         \/ \E to \in Recipients : KeyRemoves(k, to)
         \/ \E caller \in {k} \cup Owners : Close(k, caller)
  PROVE  OpeningInv'
<1>1. CASE \E caller \in {k} \cup Owners : Close(k, caller)
  <2> PICK caller \in {k} \cup Owners : Close(k, caller)
    BY <1>1
  <2>1. /\ CloseSession(caller, k)
        /\ UNCHANGED <<keyFile, keySecret, flow, batch, delegated>>
    BY DEF Close, keystoreVars
  <2> QED
    BY <2>1, ClosingKeepsOwners, OthersKeep DEF OpeningInv
<1>2. CASE \/ Resume(k) \/ Sweep(k) \/ RevokeBalanceAccess(k)
           \/ \E to \in Recipients : KeyRemoves(k, to)
  <2>1. UNCHANGED <<keyFile, keySecret, flow, batch, session, consent>> /\ delegated' \subseteq delegated
    BY <1>2 DEF Resume, Sweep, RevokeBalanceAccess, KeyRemoves, RemoveRecipient, vars, sessionVars,
                keystoreVars
  <2> QED
    BY <2>1, OthersKeep DEF OpeningInv
<1> QED
  BY <1>1, <1>2

LEMMA SendStepKeeps ==
  ASSUME OpeningInv, NEW i \in Ops,
         \/ \E k \in Keys, to \in SendTo, expr \in Amount : StartSend(i, k, to, expr)
         \/ AbortSend(i) \/ CheckSend(i) \/ SubmitSend(i) \/ SendReverts(i) \/ SendMined(i)
         \/ ReadSend(i)
  PROVE  OpeningInv'
<1>1. UNCHANGED <<keyFile, keySecret, flow, batch, delegated>>
  BY DEF StartSend, AbortSend, CheckSend, SubmitSend, SendReverts, SendMined, ReadSend,
         OthersStay, keystoreVars
<1>2. CASE SubmitSend(i)
  <2>1. SendCall(op[i].key, Token, op[i].to, op[i].value)
    BY <1>2 DEF SubmitSend
  <2> QED
    BY <1>1, <2>1, SendingKeepsOwners, OthersKeep DEF OpeningInv
<1>3. CASE ~SubmitSend(i)
  <2>1. UNCHANGED <<session, consent>>
    BY <1>3 DEF StartSend, AbortSend, CheckSend, SendReverts, SendMined, ReadSend, SendReturn,
                vars, sessionVars
  <2> QED
    BY <1>1, <2>1, OthersKeep DEF OpeningInv
<1> QED
  BY <1>2, <1>3

LEMMA OwnerKeeps ==
  ASSUME OpeningInv, NEW o \in Owners, OwnerActs(o)
  PROVE  OpeningInv'
<1>1. UNCHANGED <<keyFile, keySecret, flow, batch, delegated>>
  BY DEF OwnerActs, Upset, keystoreVars
<1>2. CASE \E k \in Keys : CloseSession(o, k)
  BY <1>1, <1>2, ClosingKeepsOwners, OthersKeep DEF OpeningInv
<1>3. CASE ~ \E k \in Keys : CloseSession(o, k)
  <2>1. UNCHANGED <<session, consent>>
    BY <1>3 DEF OwnerActs, IncreaseBudget, AddRecipient, RemoveRecipient, SetOperator, OwnerMoves,
                sessionVars
  <2> QED
    BY <1>1, <2>1, OthersKeep DEF OpeningInv
<1> QED
  BY <1>2, <1>3

\* The process dies; the keystore, the chain and the wallet's batches stay.
LEMMA CrashKeeps ==
  ASSUME OpeningInv, Crash
  PROVE  OpeningInv'
<1>1. /\ flow' = [k \in Keys |-> Idle]
      /\ UNCHANGED <<keyFile, keySecret, batch, session, consent, delegated>>
  BY DEF Crash, vars, sessionVars, keystoreVars
<1>2. FlowInv'
  BY <1>1, IdleIsFlow, AllCalls DEF OpeningInv, FlowInv, Exists
<1> QED
  BY <1>1, <1>2, NothingOpened DEF OpeningInv

LEMMA SurroundingsKeep ==
  ASSUME OpeningInv, Surroundings
  PROVE  OpeningInv'
<1>1. UNCHANGED <<keyFile, keySecret, flow, batch, delegated, session, consent>>
  BY DEF Surroundings, PauseAcl, Tick, Upset, clientVars, sessionVars, keystoreVars
<1> QED
  BY <1>1, OthersKeep DEF OpeningInv

LEMMA InitOpening == ClientInit => OpeningInv
<1> SUFFICES ASSUME ClientInit PROVE OpeningInv
  OBVIOUS
<1>1. /\ session = [k \in Keys |-> Unused] /\ consent = {} /\ delegated = {}
      /\ flow = [k \in Keys |-> Idle] /\ batch = [k \in Keys |-> <<>>]
  BY DEF ClientInit, Init
<1>2. Unused \in Sessions /\ Unused.owner = NoOne
  BY DEF Unused, Sessions
<1>3. FlowInv
  BY <1>1, IdleIsFlow, AllCalls DEF FlowInv
<1> QED
  BY <1>1, <1>2, <1>3 DEF OpeningInv, SignedKeysLoadable, OpenedKeysLoadable, ReadersAreOpened, Exists

LEMMA StepOpening ==
  ASSUME OpeningInv, [ClientNext]_allVars
  PROVE  OpeningInv'
<1>1. CASE UNCHANGED allVars
  <2>1. UNCHANGED <<keyFile, keySecret, flow, batch, delegated, session, consent>>
    BY <1>1 DEF allVars, clientVars, vars, sessionVars, keystoreVars
  <2> QED
    BY <2>1, OthersKeep DEF OpeningInv
<1>2. CASE \E o \in Owners, k \in Keys : CreateFile(o, k) \/ BatchCall(o, k)
  BY <1>2, CreatingKeeps, BatchKeeps
<1>3. ASSUME NEW k \in Keys,
             \/ CreateMeta(k) \/ StoreSecret(k) \/ Prepare(k) \/ AskBatch(k) \/ NoBatch(k)
             \/ DropBatch(k) \/ SubmitCall(k) \/ Fund(k) \/ Adopt(k) \/ OpeningFails(k) \/ Resume(k)
             \/ Sweep(k) \/ RevokeBalanceAccess(k)
             \/ \E to \in Recipients : KeyRemoves(k, to)
             \/ \E caller \in {k} \cup Owners : Close(k, caller)
      PROVE  OpeningInv'
  BY <1>3, CreatingKeeps, PrepareKeeps, BatchKeeps, SubmitKeeps, OpeningKeeps, KeyStepKeeps
<1>4. ASSUME NEW i \in Ops,
             \/ \E k \in Keys, to \in SendTo, expr \in Amount : StartSend(i, k, to, expr)
             \/ AbortSend(i) \/ CheckSend(i) \/ SubmitSend(i) \/ SendReverts(i) \/ SendMined(i)
             \/ ReadSend(i)
      PROVE  OpeningInv'
  BY <1>4, SendStepKeeps
<1>5. CASE \/ \E o \in Owners : OwnerActs(o)
           \/ Crash \/ Surroundings
  BY <1>5, OwnerKeeps, CrashKeeps, SurroundingsKeep
<1> QED
  BY <1>1, <1>2, <1>3, <1>4, <1>5 DEF ClientNext

LEMMA SpecOpening == ClientSpec => []OpeningInv
<1>1. ClientInit => OpeningInv
  BY InitOpening
<1>2. OpeningInv /\ [ClientNext]_allVars => OpeningInv'
  BY StepOpening
<1> QED
  BY <1>1, <1>2, PTL DEF ClientSpec

\* Wherever an opening dies, a key that holds an open session can be loaded: it
\* signs only after all of its records are written, and no session is opened
\* for a key that did not sign (keystore create, prepareSession, openSession).
THEOREM OpenedKeysStayLoadable == ClientSpec => []OpenedKeysLoadable
<1>1. OpeningInv => OpenedKeysLoadable
  BY DEF OpeningInv
<1> QED
  BY <1>1, SpecOpening, PTL

\* No key reads a balance without a session: the call that grants reading comes
\* last, one by one and in a batch, also when one follows the other (ownerCalls).
THEOREM ReadersHaveSessions == ClientSpec => []ReadersAreOpened
<1>1. OpeningInv => ReadersAreOpened
  BY DEF OpeningInv
<1> QED
  BY <1>1, SpecOpening, PTL

---------------------------------------------------------------------------
(* The cap on sends                                                         *)

SendFields == {"pc", "key", "to", "value", "budget", "had", "ran", "moved", "within", "outcome"}

IsSend(r) ==
  /\ r = [x \in SendFields |-> r[x]]
  /\ r.ran \in BOOLEAN
  /\ r.pc # "idle" => r.key \in Keys
  /\ r.pc = "idle" => ~r.ran

SendShape == op = [i \in Ops |-> op[i]] /\ \A i \in Ops : IsSend(op[i])

Ran(k) == {i \in Ops : op[i].key = k /\ op[i].ran}

\* The chain counted every send that ran, before its token was called.
CountInv ==
  /\ session \in [Keys -> Sessions] /\ SendShape
  /\ \A k \in Keys :
       /\ session[k].maxTxCount # 0 => session[k].txCount <= session[k].maxTxCount
       /\ Cardinality(Ran(k)) <= session[k].txCount
       /\ Ran(k) # {} => Exists(k)

LEMMA RanIsFinite ==
  ASSUME NEW k
  PROVE  IsFiniteSet(Ran(k)) /\ Cardinality(Ran(k)) \in Nat
<1>1. Ran(k) \subseteq Ops
  BY DEF Ran
<1> QED
  BY <1>1, ClientConstants, FS_Subset, FS_CardinalityType

\* A send that moves on: it ran before if it has, for the key it had.
LEMMA SendMoves ==
  ASSUME SendShape, NEW i \in Ops, NEW r, IsSend(r), op' = [op EXCEPT ![i] = r],
         r.ran = op[i].ran, op[i].ran => r.key = op[i].key
  PROVE  SendShape' /\ \A k : Ran(k)' = Ran(k)
<1>1. op' = [j \in Ops |-> op'[j]] /\ \A j \in Ops : op'[j] = IF j = i THEN r ELSE op[j]
  BY DEF SendShape
<1>2. SendShape'
  BY <1>1 DEF SendShape, IsSend
<1>3. ASSUME NEW k
      PROVE  Ran(k)' = Ran(k)
  BY <1>1 DEF Ran
<1> QED
  BY <1>2, <1>3

LEMMA SendsStay ==
  ASSUME CountInv, SendShape', \A k \in Keys : Ran(k)' = Ran(k),
         session' \in [Keys -> Sessions],
         \A k \in Keys : /\ session'[k].owner = session[k].owner
                         /\ session'[k].maxTxCount = session[k].maxTxCount
                         /\ session'[k].txCount = session[k].txCount
  PROVE  CountInv'
BY DEF CountInv, Exists

LEMMA SameSends ==
  ASSUME SendShape, UNCHANGED op
  PROVE  SendShape' /\ \A k : Ran(k)' = Ran(k)
BY DEF SendShape, IsSend, Ran

LEMMA ClosingKeepsCounts ==
  ASSUME CountInv, NEW caller, NEW key \in Keys, CloseSession(caller, key), UNCHANGED op
  PROVE  CountInv'
<1> DEFINE s == [session[key] EXCEPT !.expiry = 0]
<1>1. /\ s \in Sessions /\ s.owner = session[key].owner
      /\ s.maxTxCount = session[key].maxTxCount /\ s.txCount = session[key].txCount
  BY DEF CountInv, Sessions
<1>2. session' = [session EXCEPT ![key] = s]
  BY DEF CloseSession
<1> HIDE DEF s
<1> QED
  BY <1>1, <1>2, SameSends, SendsStay DEF CountInv

\* A session is opened with its count at zero, for a key that never sent.
LEMMA OpeningCountsNothing ==
  ASSUME CountInv, NEW q, NEW o \in Owners, NEW k \in Keys, Mined(q, o, k),
         q \in {"operator", "open", "delegate"}, UNCHANGED op
  PROVE  CountInv'
<1>1. CASE q = "open"
  <2> DEFINE opened == [owner |-> o, expiry |-> Expiry, maxTxCount |-> Cap, txCount |-> 0]
  <2>1. session' = [session EXCEPT ![k] = opened] /\ ~Exists(k)
    BY <1>1 DEF Mined, OpenSession
  <2>2. opened \in Sessions /\ opened.owner # NoOne /\ opened.txCount = 0 /\ opened.maxTxCount = Cap
    BY ClientConstants, SessionConstants DEF Sessions
  <2> HIDE DEF opened
  <2>3. session' \in [Keys -> Sessions] /\ session'[k] = opened
        /\ \A other \in Keys : other # k => session'[other] = session[other]
    BY <2>1, <2>2 DEF CountInv
  <2>4. Ran(k) = {}
    BY <2>1 DEF CountInv
  <2>5. SendShape' /\ \A other : Ran(other)' = Ran(other)
    BY SameSends DEF CountInv
  <2>6. Cardinality({}) = 0 /\ Cap \in Nat
    BY FS_EmptySet, ClientConstants
  <2>7. Cardinality(Ran(k)') = 0
    BY <2>4, <2>5, <2>6
  <2>8. ASSUME NEW other \in Keys
        PROVE  /\ session'[other].maxTxCount # 0
                    => session'[other].txCount <= session'[other].maxTxCount
               /\ Cardinality(Ran(other)') <= session'[other].txCount
               /\ Ran(other)' # {} => Exists(other)'
    <3>1. CASE other = k
      BY <2>2, <2>3, <2>6, <2>7, <3>1 DEF Exists
    <3>2. CASE other # k
      BY <2>3, <2>5, <3>2 DEF CountInv, Exists
    <3> QED
      BY <3>1, <3>2
  <2> QED
    BY <2>3, <2>5, <2>8 DEF CountInv
<1>2. CASE q # "open"
  <2>1. session' = session
    BY <1>2 DEF Mined, SetOperator, vars, sessionVars
  <2> QED
    BY <2>1, SameSends, SendsStay DEF CountInv
<1> QED
  BY <1>1, <1>2

\* The chain counts the send in the step that runs it.
LEMMA SubmitCounts ==
  ASSUME CountInv, NEW i \in Ops, SubmitSend(i)
  PROVE  CountInv'
<1> SUFFICES ASSUME NEW k, k = op[i].key
             PROVE  CountInv'
  OBVIOUS
<1> DEFINE s == [session[k] EXCEPT !.txCount = @ + 1]
           r == [op[i] EXCEPT !.pc = "onchain", !.ran = TRUE, !.budget = remaining[k][Token],
                              !.had = funds[Token][session[k].owner]]
<1>1. /\ op[i].pc = "checked" /\ k \in Keys /\ IsSend(op[i])
      /\ session' = [session EXCEPT ![k] = s] /\ op' = [op EXCEPT ![i] = r]
      /\ Exists(k) /\ CapLeft(k)
  BY DEF SubmitSend, SendCall, Live, CountInv, SendShape, IsSend
<1>2. s \in Sessions /\ s.txCount = session[k].txCount + 1 /\ s.owner = session[k].owner
      /\ s.maxTxCount = session[k].maxTxCount /\ session[k].txCount \in Nat
      /\ session[k].maxTxCount \in Nat
  BY <1>1 DEF CountInv, Sessions
<1>3. r.key = k /\ r.ran = TRUE /\ r.pc = "onchain" /\ r = [x \in SendFields |-> r[x]]
  BY <1>1 DEF IsSend, SendFields
<1> HIDE DEF s, r
<1>4. op' = [j \in Ops |-> op'[j]] /\ \A j \in Ops : op'[j] = IF j = i THEN r ELSE op[j]
  BY <1>1 DEF CountInv, SendShape
<1>5. SendShape'
  BY <1>1, <1>3, <1>4 DEF CountInv, SendShape, IsSend
<1>6. Ran(k)' = Ran(k) \cup {i} /\ \A other : other # k => Ran(other)' = Ran(other)
  BY <1>3, <1>4 DEF Ran
<1>7. Cardinality(Ran(k)') <= Cardinality(Ran(k)) + 1 /\ Cardinality(Ran(k)') \in Nat
  <2>1. Cardinality(Ran(k) \cup {i}) \in {Cardinality(Ran(k)), Cardinality(Ran(k)) + 1}
    BY RanIsFinite, FS_AddElement
  <2> QED
    BY <1>6, <2>1, RanIsFinite
<1>8. session' \in [Keys -> Sessions] /\ session'[k] = s
      /\ \A other \in Keys : other # k => session'[other] = session[other]
  BY <1>1, <1>2 DEF CountInv
<1>9. ASSUME NEW other \in Keys
      PROVE  /\ session'[other].maxTxCount # 0
                  => session'[other].txCount <= session'[other].maxTxCount
             /\ Cardinality(Ran(other)') <= session'[other].txCount
             /\ Ran(other)' # {} => Exists(other)'
  <2>1. CASE other = k
    <3>1. s.maxTxCount # 0 => s.txCount <= s.maxTxCount
      BY <1>1, <1>2 DEF CapLeft
    <3>2. Cardinality(Ran(k)) <= session[k].txCount /\ Cardinality(Ran(k)) \in Nat
      BY <1>1, RanIsFinite DEF CountInv
    <3>3. Cardinality(Ran(k)') <= s.txCount
      BY <1>2, <1>7, <3>2
    <3>4. Exists(k)'
      BY <1>1, <1>2, <1>8 DEF Exists
    <3> QED
      BY <1>8, <2>1, <3>1, <3>3, <3>4
  <2>2. CASE other # k
    BY <1>6, <1>8, <2>2 DEF CountInv, Exists
  <2> QED
    BY <2>1, <2>2
<1> QED
  BY <1>5, <1>8, <1>9 DEF CountInv

LEMMA SendEnds ==
  ASSUME SendShape, NEW i \in Ops, op[i].pc # "idle", NEW outcome, Ends(i, outcome)
  PROVE  SendShape' /\ \A k : Ran(k)' = Ran(k)
<1> DEFINE r == [op[i] EXCEPT !.pc = "done", !.outcome = outcome]
<1>1. IsSend(op[i]) /\ op' = [op EXCEPT ![i] = r]
  BY DEF Ends, SendShape
<1>2. /\ r = [x \in SendFields |-> r[x]] /\ r.ran = op[i].ran /\ r.key = op[i].key /\ r.pc = "done"
  BY <1>1 DEF IsSend, SendFields
<1> HIDE DEF r
<1>3. IsSend(r)
  BY <1>1, <1>2 DEF IsSend
<1> QED
  BY <1>1, <1>2, <1>3, SendMoves

\* Every other step of a send: it begins, is checked, comes back, or ends.
LEMMA SendStepCounts ==
  ASSUME CountInv, NEW i \in Ops,
         \/ \E k \in Keys, to \in SendTo, expr \in Amount : StartSend(i, k, to, expr)
         \/ AbortSend(i) \/ CheckSend(i) \/ SendReverts(i) \/ SendMined(i) \/ ReadSend(i)
  PROVE  CountInv'
<1>1. session' = session
  BY DEF StartSend, AbortSend, CheckSend, SendReverts, SendMined, ReadSend, SendReturn, vars, sessionVars
<1>2. SendShape' /\ \A k : Ran(k)' = Ran(k)
  <2>1. SendShape /\ IsSend(op[i])
    BY DEF CountInv, SendShape
  <2>2. ASSUME NEW k \in Keys, NEW to \in SendTo, NEW expr \in Amount, StartSend(i, k, to, expr)
        PROVE  SendShape' /\ \A other : Ran(other)' = Ran(other)
    <3> DEFINE value == Resolve(expr, remaining[k][Token])
               fits == value \in Amounts \ {0}
               r == [op[i] EXCEPT !.pc = IF fits THEN "proved" ELSE "done",
                                  !.key = k, !.to = to, !.value = value,
                                  !.outcome = IF fits THEN @ ELSE "no-amount"]
    <3>1. op' = [op EXCEPT ![i] = r] /\ op[i].pc = "idle"
      BY <2>2 DEF StartSend
    <3> HIDE DEF value, fits
    <3>2. ~op[i].ran
      BY <2>1, <3>1 DEF IsSend
    <3>3. r = [x \in SendFields |-> r[x]] /\ r.ran = op[i].ran /\ r.key = k /\ r.pc \in {"done", "proved"}
      BY <2>1 DEF IsSend, SendFields
    <3> HIDE DEF r
    <3>4. IsSend(r)
      BY <2>1, <3>3 DEF IsSend
    <3> QED
      BY <2>1, <3>1, <3>2, <3>3, <3>4, SendMoves
  <2>3. CASE AbortSend(i) \/ SendReverts(i) \/ ReadSend(i)
    <3>1. PICK outcome : op[i].pc # "idle" /\ Ends(i, outcome)
      BY <2>3 DEF AbortSend, SendReverts, ReadSend
    <3> QED
      BY <2>1, <3>1, SendEnds
  <2>4. CASE CheckSend(i)
    <3>1. CASE Ends(i, "refused")
      BY <2>1, <2>4, <3>1, SendEnds DEF CheckSend
    <3>2. CASE op' = [op EXCEPT ![i].pc = "checked"]
      <4> DEFINE r == [op[i] EXCEPT !.pc = "checked"]
      <4>1. r = [x \in SendFields |-> r[x]] /\ r.ran = op[i].ran /\ r.key = op[i].key /\ r.pc = "checked"
        BY <2>1 DEF IsSend, SendFields
      <4>2. op' = [op EXCEPT ![i] = r] /\ op[i].pc # "idle"
        BY <2>4, <3>2 DEF CheckSend
      <4> HIDE DEF r
      <4>3. IsSend(r)
        BY <2>1, <4>1, <4>2 DEF IsSend
      <4> QED
        BY <2>1, <4>1, <4>2, <4>3, SendMoves
    <3> QED
      BY <2>4, <3>1, <3>2 DEF CheckSend
  <2>5. CASE SendMined(i)
    <3> DEFINE r == [op[i] EXCEPT !.pc = "mined", !.moved = SentBy(frame), !.within = frame.within]
    <3>1. r = [x \in SendFields |-> r[x]] /\ r.ran = op[i].ran /\ r.key = op[i].key /\ r.pc = "mined"
      BY <2>1 DEF IsSend, SendFields
    <3>2. op' = [op EXCEPT ![i] = r] /\ op[i].pc # "idle"
      BY <2>5 DEF SendMined
    <3> HIDE DEF r
    <3>3. IsSend(r)
      BY <2>1, <3>1, <3>2 DEF IsSend
    <3> QED
      BY <2>1, <3>1, <3>2, <3>3, SendMoves
  <2> QED
    BY <2>2, <2>3, <2>4, <2>5
<1> QED
  BY <1>1, <1>2, SendsStay DEF CountInv

LEMMA CrashCounts ==
  ASSUME CountInv, Crash
  PROVE  CountInv'
<1>1. session' = session
  BY DEF Crash, vars, sessionVars
<1>2. op' = [i \in Ops |-> IF op[i].pc \in {"idle", "done"} THEN op[i]
                            ELSE [op[i] EXCEPT !.pc = "done", !.outcome = "lost"]]
  BY DEF Crash
<1>3. ASSUME NEW i \in Ops
      PROVE  IsSend(op'[i]) /\ op'[i].ran = op[i].ran /\ op'[i].key = op[i].key
  <2>1. IsSend(op[i])
    BY DEF CountInv, SendShape
  <2>2. CASE op[i].pc \in {"idle", "done"}
    BY <1>2, <2>1, <2>2
  <2>3. CASE op[i].pc \notin {"idle", "done"}
    <3> DEFINE r == [op[i] EXCEPT !.pc = "done", !.outcome = "lost"]
    <3>1. r = [x \in SendFields |-> r[x]] /\ r.ran = op[i].ran /\ r.key = op[i].key /\ r.pc = "done"
      BY <2>1 DEF IsSend, SendFields
    <3>2. op'[i] = r
      BY <1>2, <2>3
    <3> HIDE DEF r
    <3> QED
      BY <2>1, <2>3, <3>1, <3>2 DEF IsSend
  <2> QED
    BY <2>2, <2>3
<1>4. SendShape'
  BY <1>2, <1>3 DEF SendShape, IsSend
<1>5. \A k : Ran(k)' = Ran(k)
  BY <1>3 DEF Ran
<1> QED
  BY <1>1, <1>4, <1>5, SendsStay DEF CountInv

LEMMA NothingCounted ==
  ASSUME CountInv, UNCHANGED <<session, op>>
  PROVE  CountInv'
BY SameSends, SendsStay DEF CountInv

LEMMA InitCount == ClientInit => CountInv
<1> SUFFICES ASSUME ClientInit PROVE CountInv
  OBVIOUS
<1>1. session = [k \in Keys |-> Unused] /\ op = [i \in Ops |-> NoSend]
  BY DEF ClientInit, Init
<1>2. Unused \in Sessions /\ Unused.txCount = 0 /\ Unused.maxTxCount = 0
  BY DEF Unused, Sessions
<1>3. IsSend(NoSend) /\ ~NoSend.ran
  BY DEF IsSend, NoSend, SendFields
<1>4. SendShape
  BY <1>1, <1>3 DEF SendShape
<1>5. \A k : Ran(k) = {}
  BY <1>1, <1>3 DEF Ran
<1>6. Cardinality({}) = 0
  BY FS_EmptySet
<1> QED
  BY <1>1, <1>2, <1>4, <1>5, <1>6 DEF CountInv

LEMMA StepCount ==
  ASSUME OpeningInv, CountInv, [ClientNext]_allVars
  PROVE  CountInv'
<1>1. CASE UNCHANGED allVars
  BY <1>1, NothingCounted DEF allVars, clientVars, vars, sessionVars
<1>2. ASSUME NEW o \in Owners, NEW k \in Keys, CreateFile(o, k) \/ BatchCall(o, k)
      PROVE  CountInv'
  <2>1. CASE CreateFile(o, k)
    BY <2>1, NothingCounted DEF CreateFile, vars, sessionVars
  <2>2. CASE BatchCall(o, k)
    <3>1. batch[k] \in CallsLeft /\ batch[k] # <<>> /\ Mined(Head(batch[k]), o, k) /\ UNCHANGED op
      BY <2>2 DEF BatchCall, OpeningInv, FlowInv
    <3> QED
      BY <3>1, NextCall, OpeningCountsNothing
  <2> QED
    BY <1>2, <2>1, <2>2
<1>3. ASSUME NEW k \in Keys, SubmitCall(k)
      PROVE  CountInv'
  <2>1. /\ flow[k].calls \in CallsLeft /\ flow[k].calls # <<>> /\ flow[k].owner \in Owners
        /\ Mined(Head(flow[k].calls), flow[k].owner, k) /\ UNCHANGED op
    BY <1>3 DEF SubmitCall, OpeningInv, FlowInv, Flows
  <2>2. PICK o \in Owners : Mined(Head(flow[k].calls), o, k)
    BY <2>1
  <2> QED
    BY <2>1, <2>2, NextCall, OpeningCountsNothing
<1>4. ASSUME NEW k \in Keys, NEW caller \in {k} \cup Owners, Close(k, caller)
      PROVE  CountInv'
  BY <1>4, ClosingKeepsCounts DEF Close
<1>5. ASSUME NEW k \in Keys,
             \/ CreateMeta(k) \/ StoreSecret(k) \/ Prepare(k) \/ AskBatch(k) \/ NoBatch(k)
             \/ DropBatch(k) \/ Fund(k) \/ Adopt(k) \/ OpeningFails(k) \/ Resume(k)
             \/ Sweep(k) \/ RevokeBalanceAccess(k)
             \/ \E to \in Recipients : KeyRemoves(k, to)
      PROVE  CountInv'
  <2>1. UNCHANGED <<session, op>>
    BY <1>5 DEF CreateMeta, StoreSecret, Prepare, Consent, AskBatch, NoBatch, DropBatch, Fund, Adopt,
                OpeningFails, Resume, Sweep, RevokeBalanceAccess, KeyRemoves, RemoveRecipient,
                vars, sessionVars
  <2> QED
    BY <2>1, NothingCounted
<1>6. ASSUME NEW i \in Ops,
             \/ \E k \in Keys, to \in SendTo, expr \in Amount : StartSend(i, k, to, expr)
             \/ AbortSend(i) \/ CheckSend(i) \/ SubmitSend(i) \/ SendReverts(i) \/ SendMined(i)
             \/ ReadSend(i)
      PROVE  CountInv'
  BY <1>6, SubmitCounts, SendStepCounts
<1>7. ASSUME NEW o \in Owners, OwnerActs(o)
      PROVE  CountInv'
  <2>1. CASE \E k \in Keys : CloseSession(o, k)
    BY <1>7, <2>1, ClosingKeepsCounts DEF OwnerActs, Upset
  <2>2. CASE ~ \E k \in Keys : CloseSession(o, k)
    <3>1. UNCHANGED <<session, op>>
      BY <1>7, <2>2 DEF OwnerActs, Upset, IncreaseBudget, AddRecipient, RemoveRecipient, SetOperator,
                        OwnerMoves, sessionVars
    <3> QED
      BY <3>1, NothingCounted
  <2> QED
    BY <2>1, <2>2
<1>8. CASE Crash
  BY <1>8, CrashCounts
<1>9. CASE Surroundings
  BY <1>9, NothingCounted DEF Surroundings, PauseAcl, Tick, Upset, clientVars, sessionVars
<1> QED
  BY <1>1, <1>2, <1>3, <1>4, <1>5, <1>6, <1>7, <1>8, <1>9 DEF ClientNext

\* No session sends more often than its cap allows, however many sends were
\* prepared and checked side by side, and whatever crashed or was closed between
\* a check and its submission (send's transaction count).
THEOREM CapHolds == ClientSpec => []SendsWithinCap
<1>1. CountInv => SendsWithinCap
  <2> SUFFICES ASSUME CountInv, NEW k \in Keys, session[k].maxTxCount # 0
               PROVE  Cardinality(Ran(k)) <= session[k].maxTxCount
    BY DEF SendsWithinCap, Ran
  <2>1. session[k].txCount \in Nat /\ session[k].maxTxCount \in Nat /\ Cardinality(Ran(k)) \in Nat
    BY RanIsFinite DEF CountInv, Sessions
  <2> QED
    BY <2>1 DEF CountInv
<1>2. ClientInit => OpeningInv /\ CountInv
  BY InitOpening, InitCount
<1>3. OpeningInv /\ CountInv /\ [ClientNext]_allVars => (OpeningInv /\ CountInv)'
  BY StepOpening, StepCount
<1> QED
  BY <1>1, <1>2, <1>3, PTL DEF ClientSpec

---------------------------------------------------------------------------
(* What a send reports                                                      *)

\* What a finished send may say of itself (the body of ReportsMatchChain).
Says(r) ==
  CASE r.outcome = "sent" -> r.moved = r.value
    [] r.outcome = "over-budget" -> r.moved = 0 /\ r.value > r.budget
    [] r.outcome = "insufficient-balance" ->
         r.moved = 0 /\ r.value <= r.budget /\ r.value > r.had
    [] r.outcome \in {"no-amount", "aborted", "refused", "reverted"} -> r.moved = 0
    [] OTHER -> TRUE

\* What a send knows at each of its stages: an amount that encrypts from the proof
\* on, and from the answer of the token on exactly what it did.
Report(r) ==
  /\ r.pc \in {"idle", "proved", "checked", "onchain", "mined", "done"}
  /\ r.pc \in {"idle", "proved", "checked", "onchain"} => r.moved = 0
  /\ r.pc \in {"proved", "checked", "onchain", "mined"} =>
       r.key \in Keys /\ r.to \in Addresses /\ r.value \in Amounts \ {0}
  /\ r.pc \in {"onchain", "mined"} => r.budget \in Amounts /\ r.had \in Amounts
  /\ r.pc = "mined" =>
       /\ r.within <=> r.value <= r.budget
       /\ r.moved = IF r.value <= r.budget /\ r.value <= r.had THEN r.value ELSE 0
  /\ r.pc = "done" => Says(r)

\* The send whose token is being called is the one on chain: the frame carries its
\* clamp and the owner still has what it had.
OnChain(i) ==
  /\ frame # NoOne
  /\ frame.token = Token /\ (frame.within <=> op[i].value <= op[i].budget)
  /\ frame.amount = IF op[i].value <= op[i].budget THEN op[i].value ELSE 0
  /\ funds[Token][frame.owner] = op[i].had

ReportInv ==
  /\ SendShape
  /\ \A i \in Ops : Report(op[i]) /\ (op[i].pc = "onchain" => OnChain(i))
  /\ \A i, j \in Ops : op[i].pc = "onchain" /\ op[j].pc = "onchain" => i = j

LEMMA InitReport == ClientInit => ReportInv
<1> SUFFICES ASSUME ClientInit PROVE ReportInv
  OBVIOUS
<1>1. op = [i \in Ops |-> NoSend]
  BY DEF ClientInit
<1>2. NoSend.pc = "idle" /\ NoSend.moved = 0 /\ IsSend(NoSend)
  BY DEF NoSend, IsSend, SendFields
<1> QED
  BY <1>1, <1>2 DEF ReportInv, SendShape, Report

\* The client's steps are steps of the module: it asks only what an account may,
\* with an amount that fits and a recipient that is an address.
LEMMA MinedIsStep ==
  ASSUME NEW q \in CallsLeft, q # <<>>, NEW o \in Owners, NEW k \in Keys, Mined(Head(q), o, k)
  PROVE  [Next]_vars
<1>1. CASE Head(q) = "operator"
  <2>1. SetOperator(o, Token, Expiry)
    BY <1>1 DEF Mined
  <2>2. Expiry \in Int /\ Token \in Tokens
    BY ClientConstants
  <2> QED
    BY <2>1, <2>2 DEF Next, World
<1>2. CASE Head(q) = "open"
  <2> DEFINE budget == [t \in {Token} |-> Budget]
             list == Append(Listed, k)
  <2>1. OpenSession(o, k, Expiry, Cap, budget, list)
    BY <1>2 DEF Mined
  <2>2. {Token} \in SUBSET Tokens /\ budget \in [{Token} -> Amounts] /\ list \in Seq(Addresses)
        /\ Expiry \in Nat /\ Cap \in Nat /\ o \in Addresses
    BY ClientConstants DEF Addresses
  <2> HIDE DEF budget, list
  <2>3. Call(o)
    BY <2>1, <2>2 DEF Call
  <2> QED
    BY <2>2, <2>3 DEF Next
<1>3. CASE Head(q) = "delegate"
  BY <1>3 DEF Mined
<1> QED
  BY <1>1, <1>2, <1>3, NextCall

LEMMA ClientStepIsStep ==
  ASSUME OpeningInv, ReportInv, [ClientNext]_allVars
  PROVE  [Next]_vars
<1>1. CASE UNCHANGED allVars
  BY <1>1 DEF allVars
<1>2. ASSUME NEW o \in Owners, NEW k \in Keys, BatchCall(o, k)
      PROVE  [Next]_vars
  <2>1. batch[k] \in CallsLeft /\ batch[k] # <<>> /\ Mined(Head(batch[k]), o, k)
    BY <1>2 DEF BatchCall, OpeningInv, FlowInv
  <2> QED
    BY <2>1, MinedIsStep
<1>3. ASSUME NEW k \in Keys, SubmitCall(k)
      PROVE  [Next]_vars
  <2>1. /\ flow[k].calls \in CallsLeft /\ flow[k].calls # <<>> /\ flow[k].owner \in Owners
        /\ Mined(Head(flow[k].calls), flow[k].owner, k)
    BY <1>3 DEF SubmitCall, OpeningInv, FlowInv, Flows
  <2> QED
    BY <2>1, MinedIsStep
<1>4. ASSUME NEW k \in Keys, Prepare(k)
      PROVE  [Next]_vars
  <2>1. Consent(flow[k].owner, k, Expiry, Cap) /\ flow[k].owner \in Owners
    BY <1>4 DEF Prepare, OpeningInv, FlowInv
  <2>2. World
    BY <2>1, ClientConstants DEF World
  <2> QED
    BY <2>2 DEF Next
<1>5. ASSUME NEW k \in Keys, NEW caller \in {k} \cup Owners, Close(k, caller)
      PROVE  [Next]_vars
  BY <1>5 DEF Close, Next, Call, Addresses
<1>6. ASSUME NEW k \in Keys, NEW to \in Recipients, KeyRemoves(k, to)
      PROVE  [Next]_vars
  BY <1>6, ClientConstants DEF KeyRemoves, Next, Call, Addresses
<1>7. ASSUME NEW i \in Ops, SubmitSend(i)
      PROVE  [Next]_vars
  <2>1. /\ SendCall(op[i].key, Token, op[i].to, op[i].value)
        /\ op[i].key \in Keys /\ op[i].to \in Addresses /\ op[i].value \in Amounts
    BY <1>7 DEF SubmitSend, ReportInv, Report
  <2>2. Call(op[i].key) /\ op[i].key \in Addresses
    BY <2>1, ClientConstants DEF Call, Addresses
  <2> QED
    BY <2>2 DEF Next
<1>8. ASSUME NEW o \in Owners, OwnerActs(o)
      PROVE  [Next]_vars
  <2>1. o \in Addresses
    BY DEF Addresses
  <2>2. CASE \/ \E k \in Keys, delta \in Amounts \ {0} : IncreaseBudget(o, k, Token, delta)
             \/ \E k \in Keys, to \in Recipients : AddRecipient(o, k, to) \/ RemoveRecipient(o, k, to)
             \/ \E k \in Keys : CloseSession(o, k)
    <3>1. Call(o)
      BY <2>2, ClientConstants DEF Call
    <3> QED
      BY <2>1, <3>1 DEF Next
  <2>3. CASE SetOperator(o, Token, -1) \/ \E left \in OwnerFunds : OwnerMoves(Token, o, left)
    <3>1. World
      BY <2>3, ClientConstants DEF World
    <3> QED
      BY <3>1 DEF Next
  <2> QED
    BY <1>8, <2>2, <2>3 DEF OwnerActs
<1>9. CASE Surroundings
  BY <1>9 DEF Surroundings, Next, World
<1>10. ASSUME NEW i \in Ops, SendMined(i)
       PROVE  [Next]_vars
  BY <1>10 DEF SendMined, Next
<1>11. CASE Crash
  BY <1>11 DEF Crash
<1>12. ASSUME NEW k \in Keys,
              \/ \E o \in Owners : CreateFile(o, k)
              \/ CreateMeta(k) \/ StoreSecret(k) \/ AskBatch(k) \/ NoBatch(k) \/ DropBatch(k) \/ Fund(k)
              \/ Adopt(k) \/ OpeningFails(k) \/ Resume(k) \/ Sweep(k) \/ RevokeBalanceAccess(k)
       PROVE  [Next]_vars
  BY <1>12 DEF CreateFile, CreateMeta, StoreSecret, AskBatch, NoBatch, DropBatch, Fund, Adopt,
               OpeningFails, Resume, Sweep, RevokeBalanceAccess
<1>13. ASSUME NEW i \in Ops,
              \/ \E k \in Keys, to \in SendTo, expr \in Amount : StartSend(i, k, to, expr)
              \/ AbortSend(i) \/ CheckSend(i) \/ SendReverts(i) \/ ReadSend(i)
       PROVE  [Next]_vars
  BY <1>13 DEF StartSend, AbortSend, CheckSend, SendReverts, ReadSend
<1> QED
  BY <1>1, <1>2, <1>3, <1>4, <1>5, <1>6, <1>7, <1>8, <1>9, <1>10, <1>11, <1>12, <1>13 DEF ClientNext

\* Nothing but the send that is under way changes its frame, and the owner moves no
\* money while a token is called.
LEMMA SendsUntouched ==
  ASSUME ReportInv, UNCHANGED <<op, frame>>, frame # NoOne => UNCHANGED funds
  PROVE  ReportInv'
<1>1. ASSUME NEW i \in Ops, op[i].pc = "onchain"
      PROVE  OnChain(i)'
  BY <1>1 DEF ReportInv, OnChain
<1> QED
  BY <1>1 DEF ReportInv, SendShape, IsSend, Report, Says

LEMMA SendTurns ==
  ASSUME ReportInv, NEW i \in Ops, NEW r, IsSend(r), Report(r), r.pc # "onchain",
         op' = [op EXCEPT ![i] = r], UNCHANGED <<frame, funds>>
  PROVE  ReportInv'
<1>1. op' = [j \in Ops |-> op'[j]] /\ \A j \in Ops : op'[j] = IF j = i THEN r ELSE op[j]
  BY DEF ReportInv, SendShape
<1>2. ASSUME NEW j \in Ops
      PROVE  IsSend(op'[j]) /\ Report(op'[j]) /\ (op'[j].pc = "onchain" => OnChain(j)')
  <2>1. CASE j = i
    BY <1>1, <2>1
  <2>2. CASE j # i
    <3>1. IsSend(op[j]) /\ Report(op[j]) /\ (op[j].pc = "onchain" => OnChain(j))
      BY DEF ReportInv, SendShape
    <3>2. op'[j] = op[j]
      BY <1>1, <2>2
    <3>3. OnChain(j) => OnChain(j)'
      BY <3>2 DEF OnChain
    <3> QED
      BY <3>1, <3>2, <3>3
  <2> QED
    BY <2>1, <2>2
<1>3. \A j, l \in Ops : op'[j].pc = "onchain" /\ op'[l].pc = "onchain" => j = l
  BY <1>1 DEF ReportInv
<1> QED
  BY <1>1, <1>2, <1>3, ZenonT(40) DEF ReportInv, SendShape, IsSend, Report, Says

\* A send that ends says something that is true of it.
LEMMA SendEndsSaying ==
  ASSUME ReportInv, NEW i \in Ops, NEW outcome, Ends(i, outcome), UNCHANGED <<frame, funds>>,
         op[i].pc # "idle", Says([op[i] EXCEPT !.pc = "done", !.outcome = outcome])
  PROVE  ReportInv'
<1> DEFINE r == [op[i] EXCEPT !.pc = "done", !.outcome = outcome]
<1>1. IsSend(op[i]) /\ op' = [op EXCEPT ![i] = r] /\ Says(r)
  BY DEF ReportInv, SendShape, Ends
<1>2. r = [x \in SendFields |-> r[x]] /\ r.ran = op[i].ran /\ r.key = op[i].key /\ r.pc = "done"
  BY <1>1 DEF IsSend, SendFields
<1> HIDE DEF r
<1>3. IsSend(r) /\ Report(r)
  BY <1>1, <1>2 DEF IsSend, Report
<1> QED
  BY <1>1, <1>2, <1>3, SendTurns

LEMMA Ending ==
  ASSUME NEW r, IsSend(r), NEW outcome
  PROVE  LET s == [r EXCEPT !.pc = "done", !.outcome = outcome]
         IN  s.outcome = outcome /\ s.moved = r.moved /\ s.value = r.value /\ s.budget = r.budget
             /\ s.had = r.had
BY DEF IsSend, SendFields

LEMMA StartReports ==
  ASSUME ReportInv, NEW i \in Ops, NEW k \in Keys, NEW to \in SendTo, NEW expr,
         StartSend(i, k, to, expr)
  PROVE  ReportInv'
<1> DEFINE value == Resolve(expr, remaining[k][Token])
           fits == value \in Amounts \ {0}
           r == [op[i] EXCEPT !.pc = IF fits THEN "proved" ELSE "done",
                              !.key = k, !.to = to, !.value = value,
                              !.outcome = IF fits THEN @ ELSE "no-amount"]
<1>1. /\ op' = [op EXCEPT ![i] = r] /\ op[i].pc = "idle" /\ UNCHANGED <<frame, funds>>
      /\ IsSend(op[i]) /\ Report(op[i])
  BY DEF StartSend, vars, ReportInv, SendShape
<1>2. ~op[i].ran /\ op[i].moved = 0 /\ to \in Addresses
  BY <1>1, ClientConstants DEF IsSend, Report
<1> HIDE DEF value
<1>3. /\ r = [x \in SendFields |-> r[x]] /\ r.ran = op[i].ran /\ r.key = k /\ r.to = to
      /\ r.value = value /\ r.moved = op[i].moved
      /\ r.pc = IF fits THEN "proved" ELSE "done"
      /\ ~fits => r.outcome = "no-amount"
  BY <1>1 DEF IsSend, SendFields
<1> HIDE DEF r
<1>4. IsSend(r)
  BY <1>1, <1>2, <1>3 DEF IsSend
<1>5. Report(r)
  <2>1. CASE fits
    BY <1>2, <1>3, <2>1 DEF Report
  <2>2. CASE ~fits
    BY <1>2, <1>3, <2>2 DEF Report, Says
  <2> QED
    BY <2>1, <2>2
<1> QED
  BY <1>1, <1>3, <1>4, <1>5, SendTurns

LEMMA CheckReports ==
  ASSUME ReportInv, NEW i \in Ops, AbortSend(i) \/ CheckSend(i) \/ SendReverts(i)
  PROVE  ReportInv'
<1>1. /\ op[i].pc \in {"proved", "checked"} /\ UNCHANGED <<frame, funds>>
      /\ IsSend(op[i]) /\ Report(op[i]) /\ op[i].moved = 0
  BY DEF AbortSend, CheckSend, SendReverts, vars, ReportInv, SendShape, Report
<1>2. ASSUME NEW outcome \in {"aborted", "refused", "reverted"}, Ends(i, outcome)
      PROVE  ReportInv'
  <2>1. Says([op[i] EXCEPT !.pc = "done", !.outcome = outcome])
    BY <1>1, <1>2, Ending DEF Says
  <2> QED
    BY <1>1, <1>2, <2>1, SendEndsSaying
<1>3. CASE CheckSend(i) /\ op' = [op EXCEPT ![i].pc = "checked"]
  <2> DEFINE r == [op[i] EXCEPT !.pc = "checked"]
  <2>1. /\ r = [x \in SendFields |-> r[x]] /\ r.ran = op[i].ran /\ r.key = op[i].key /\ r.to = op[i].to
        /\ r.value = op[i].value /\ r.moved = 0 /\ r.pc = "checked"
    BY <1>1 DEF IsSend, SendFields
  <2>2. op' = [op EXCEPT ![i] = r]
    BY <1>3
  <2> HIDE DEF r
  <2>3. IsSend(r) /\ Report(r)
    BY <1>1, <2>1 DEF IsSend, Report
  <2> QED
    BY <1>1, <2>1, <2>2, <2>3, SendTurns
<1> QED
  BY <1>2, <1>3 DEF AbortSend, CheckSend, SendReverts

\* What the token did is what the truth table says of the two handles.
LEMMA ReadReports ==
  ASSUME ReportInv, NEW i \in Ops, ReadSend(i)
  PROVE  ReportInv'
<1>1. /\ op[i].pc = "mined" /\ UNCHANGED <<frame, funds>> /\ IsSend(op[i]) /\ Report(op[i])
  BY DEF ReadSend, vars, ReportInv, SendShape
<1>2. ASSUME NEW outcome, Ends(i, outcome), outcome \in {"unknown", Outcome(op[i].within, op[i].moved)}
      PROVE  ReportInv'
  <2> DEFINE s == [op[i] EXCEPT !.pc = "done", !.outcome = outcome]
  <2>1. /\ op[i].value \in Nat \ {0} /\ op[i].budget \in Nat /\ op[i].had \in Nat
        /\ op[i].within <=> op[i].value <= op[i].budget
        /\ op[i].moved = IF op[i].value <= op[i].budget /\ op[i].value <= op[i].had
                         THEN op[i].value ELSE 0
    BY <1>1, SessionConstants DEF Report, Amounts
  <2>2. /\ s.outcome = outcome /\ s.moved = op[i].moved /\ s.value = op[i].value
        /\ s.budget = op[i].budget /\ s.had = op[i].had
    BY <1>1, Ending
  <2> HIDE DEF s
  <2>3. Says(s)
    <3>1. CASE outcome = "unknown"
      BY <2>2, <3>1 DEF Says
    <3>2. CASE op[i].value > op[i].budget /\ outcome = Outcome(op[i].within, op[i].moved)
      <4>1. outcome = "over-budget" /\ op[i].moved = 0
        BY <2>1, <3>2 DEF Outcome
      <4> QED
        BY <2>2, <3>2, <4>1 DEF Says
    <3>3. CASE op[i].value <= op[i].budget /\ outcome = Outcome(op[i].within, op[i].moved)
      <4>1. CASE op[i].value <= op[i].had
        <5>1. outcome = "sent" /\ op[i].moved = op[i].value
          BY <2>1, <3>3, <4>1 DEF Outcome
        <5> QED
          BY <2>2, <5>1 DEF Says
      <4>2. CASE op[i].value > op[i].had
        <5>1. outcome = "insufficient-balance" /\ op[i].moved = 0
          BY <2>1, <3>3, <4>2 DEF Outcome
        <5> QED
          BY <2>2, <3>3, <4>2, <5>1 DEF Says
      <4> QED
        BY <2>1, <4>1, <4>2
    <3> QED
      BY <1>2, <2>1, <3>1, <3>2, <3>3
  <2> QED
    BY <1>1, <1>2, <2>3, SendEndsSaying DEF s
<1> QED
  BY <1>2 DEF ReadSend

\* The transaction begins: no other was under way, and the budget it reads and the
\* balance it meets are those of this moment.
LEMMA SubmitReports ==
  ASSUME MoneyInv, ReportInv, NEW i \in Ops, SubmitSend(i)
  PROVE  ReportInv'
<1> DEFINE k == op[i].key
           o == session[k].owner
           r == [op[i] EXCEPT !.pc = "onchain", !.ran = TRUE, !.budget = remaining[k][Token],
                              !.had = funds[Token][o]]
<1>1. /\ op[i].pc = "checked" /\ IsSend(op[i]) /\ Report(op[i]) /\ op' = [op EXCEPT ![i] = r]
      /\ frame = NoOne /\ UNCHANGED funds /\ k \in Keys /\ Live(k)
      /\ op[i].value \in Amounts \ {0} /\ op[i].to \in Addresses /\ op[i].moved = 0
  BY DEF SubmitSend, SendCall, ReportInv, SendShape, Report
<1>2. remaining[k][Token] \in Amounts /\ o \in Owners /\ funds[Token][o] \in Amounts
  <2>1. o \in Owners
    BY <1>1 DEF Live, Exists, MoneyInv, MoneyType, Sessions
  <2> QED
    BY <1>1, <2>1, ClientConstants DEF MoneyInv, MoneyType
<1>3. /\ r = [x \in SendFields |-> r[x]] /\ r.ran = TRUE /\ r.key = k /\ r.to = op[i].to
      /\ r.value = op[i].value /\ r.moved = 0 /\ r.pc = "onchain"
      /\ r.budget = remaining[k][Token] /\ r.had = funds[Token][o]
  BY <1>1 DEF IsSend, SendFields
<1>4. /\ frame' \in Frames /\ frame'.token = Token /\ frame'.owner = o
      /\ frame'.within <=> op[i].value <= remaining[k][Token]
      /\ frame'.amount = IF op[i].value <= remaining[k][Token] THEN op[i].value ELSE 0
  <2> DEFINE budget == remaining[k][Token]
             within == op[i].value <= budget
  <2>1. frame' = [key |-> k, token |-> Token, to |-> op[i].to, owner |-> o, within |-> within,
                  clamped |-> IF within THEN budget - op[i].value ELSE budget,
                  amount |-> IF within THEN op[i].value ELSE 0]
    BY DEF SubmitSend, SendCall
  <2>2. op[i].value \in Nat /\ op[i].value \in Amounts /\ budget \in Nat /\ budget \in Amounts
    BY <1>1, <1>2, SessionConstants DEF Amounts
  <2>3. /\ (IF within THEN budget - op[i].value ELSE budget) \in Amounts
        /\ (IF within THEN op[i].value ELSE 0) \in Amounts /\ within \in BOOLEAN
    BY <2>2, SessionConstants DEF Amounts
  <2>4. Token \in Tokens
    BY ClientConstants
  <2> HIDE DEF budget
  <2>5. frame' \in Frames
    BY <1>1, <1>2, <2>1, <2>3, <2>4 DEF Frames
  <2> QED
    BY <2>1, <2>5 DEF budget
<1> HIDE DEF r, k, o
<1>5. IsSend(r) /\ Report(r)
  BY <1>1, <1>2, <1>3 DEF IsSend, Report
<1>6. op' = [j \in Ops |-> op'[j]] /\ \A j \in Ops : op'[j] = IF j = i THEN r ELSE op[j]
  BY <1>1 DEF ReportInv, SendShape
<1>7. OnChain(i)'
  BY <1>1, <1>3, <1>4, <1>6, SessionConstants DEF OnChain
<1>8. \A j \in Ops : op[j].pc # "onchain"
  BY <1>1 DEF ReportInv, OnChain
<1>9. ASSUME NEW j \in Ops
      PROVE  IsSend(op'[j]) /\ Report(op'[j]) /\ (op'[j].pc = "onchain" => OnChain(j)' /\ j = i)
  <2>1. CASE j = i
    BY <1>5, <1>6, <1>7, <2>1
  <2>2. CASE j # i
    BY <1>6, <1>8, <2>2 DEF ReportInv, SendShape
  <2> QED
    BY <2>1, <2>2
<1> QED
  BY <1>6, <1>9 DEF ReportInv, SendShape, IsSend, Report, Says

\* The token's answer: what moved is the clamped amount if the owner still had it.
LEMMA MinedReports ==
  ASSUME ReportInv, NEW i \in Ops, SendMined(i)
  PROVE  ReportInv'
<1> DEFINE moved == SentBy(frame)
           r == [op[i] EXCEPT !.pc = "mined", !.moved = moved, !.within = frame.within]
<1>1. /\ op[i].pc = "onchain" /\ IsSend(op[i]) /\ Report(op[i]) /\ OnChain(i)
      /\ op' = [op EXCEPT ![i] = r] /\ frame' = NoOne
  BY DEF SendMined, SendReturn, ReportInv, SendShape
<1>2. moved = IF op[i].value <= op[i].budget /\ op[i].value <= op[i].had THEN op[i].value ELSE 0
  <2>1. /\ op[i].value \in Nat \ {0} /\ op[i].budget \in Nat /\ op[i].had \in Nat
    BY <1>1, SessionConstants DEF Report, Amounts
  <2>2. moved = IF frame.amount <= op[i].had THEN frame.amount ELSE 0
    BY <1>1 DEF SentBy, OnChain
  <2> HIDE DEF moved
  <2> QED
    BY <1>1, <2>1, <2>2 DEF OnChain
<1> HIDE DEF moved
<1>3. /\ r = [x \in SendFields |-> r[x]] /\ r.ran = op[i].ran /\ r.key = op[i].key /\ r.to = op[i].to
      /\ r.value = op[i].value /\ r.moved = moved /\ r.pc = "mined"
      /\ r.budget = op[i].budget /\ r.had = op[i].had /\ r.within = frame.within
  BY <1>1 DEF IsSend, SendFields
<1> HIDE DEF r
<1>4. IsSend(r) /\ Report(r)
  BY <1>1, <1>2, <1>3 DEF IsSend, Report, OnChain
<1>5. op' = [j \in Ops |-> op'[j]] /\ \A j \in Ops : op'[j] = IF j = i THEN r ELSE op[j]
  BY <1>1 DEF ReportInv, SendShape
<1>6. \A j \in Ops : j # i => op[j].pc # "onchain"
  BY <1>1 DEF ReportInv
<1>7. ASSUME NEW j \in Ops
      PROVE  IsSend(op'[j]) /\ Report(op'[j]) /\ op'[j].pc # "onchain"
  <2>1. CASE j = i
    BY <1>3, <1>4, <1>5, <2>1
  <2>2. CASE j # i
    BY <1>5, <1>6, <2>2 DEF ReportInv, SendShape
  <2> QED
    BY <2>1, <2>2
<1> QED
  BY <1>5, <1>7 DEF ReportInv, SendShape, IsSend, Report, Says

LEMMA CrashReports ==
  ASSUME ReportInv, Crash
  PROVE  ReportInv'
<1>1. op' = [i \in Ops |-> IF op[i].pc \in {"idle", "done"} THEN op[i]
                            ELSE [op[i] EXCEPT !.pc = "done", !.outcome = "lost"]]
  BY DEF Crash
<1>2. ASSUME NEW i \in Ops
      PROVE  IsSend(op'[i]) /\ Report(op'[i]) /\ op'[i].pc # "onchain"
  <2>1. IsSend(op[i]) /\ Report(op[i])
    BY DEF ReportInv, SendShape
  <2>2. CASE op[i].pc \in {"idle", "done"}
    BY <1>1, <2>1, <2>2
  <2>3. CASE op[i].pc \notin {"idle", "done"}
    <3> DEFINE r == [op[i] EXCEPT !.pc = "done", !.outcome = "lost"]
    <3>1. /\ r = [x \in SendFields |-> r[x]] /\ r.ran = op[i].ran /\ r.key = op[i].key
          /\ r.pc = "done" /\ r.outcome = "lost"
      BY <2>1 DEF IsSend, SendFields
    <3>2. op'[i] = r
      BY <1>1, <2>3
    <3> HIDE DEF r
    <3> QED
      BY <2>1, <2>3, <3>1, <3>2 DEF IsSend, Report, Says
  <2> QED
    BY <2>2, <2>3
<1>3. op' = [i \in Ops |-> op'[i]]
  BY <1>1
<1> QED
  BY <1>2, <1>3 DEF ReportInv, SendShape, IsSend, Report, Says

LEMMA StepReport ==
  ASSUME OpeningInv, MoneyInv, ReportInv, [ClientNext]_allVars
  PROVE  ReportInv'
<1>1. CASE UNCHANGED allVars
  BY <1>1, SendsUntouched DEF allVars, clientVars, vars
<1>2. ASSUME NEW o, NEW k, NEW q \in CallsLeft, q # <<>>, Mined(Head(q), o, k), UNCHANGED op
      PROVE  ReportInv'
  <2>1. Head(q) \in {"operator", "open", "delegate"}
    BY <1>2, NextCall
  <2>2. UNCHANGED <<frame, funds>>
    BY <1>2, <2>1 DEF Mined, SetOperator, OpenSession, vars
  <2> QED
    BY <1>2, <2>2, SendsUntouched
<1>3. ASSUME NEW o \in Owners, NEW k \in Keys, BatchCall(o, k)
      PROVE  ReportInv'
  <2>1. batch[k] \in CallsLeft /\ batch[k] # <<>> /\ Mined(Head(batch[k]), o, k) /\ UNCHANGED op
    BY <1>3 DEF BatchCall, OpeningInv, FlowInv
  <2> QED
    BY <1>2, <2>1
<1>4. ASSUME NEW k \in Keys, SubmitCall(k)
      PROVE  ReportInv'
  <2>1. /\ flow[k].calls \in CallsLeft /\ flow[k].calls # <<>>
        /\ Mined(Head(flow[k].calls), flow[k].owner, k) /\ UNCHANGED op
    BY <1>4 DEF SubmitCall, OpeningInv, FlowInv, Flows
  <2> QED
    BY <1>2, <2>1
<1>5. ASSUME NEW k \in Keys,
             \/ \E o \in Owners : CreateFile(o, k)
             \/ CreateMeta(k) \/ StoreSecret(k) \/ Prepare(k) \/ AskBatch(k) \/ NoBatch(k)
             \/ DropBatch(k) \/ Fund(k) \/ Adopt(k) \/ OpeningFails(k) \/ Resume(k)
             \/ Sweep(k) \/ RevokeBalanceAccess(k)
             \/ \E to \in Recipients : KeyRemoves(k, to)
             \/ \E caller \in {k} \cup Owners : Close(k, caller)
      PROVE  ReportInv'
  <2>1. UNCHANGED <<op, frame, funds>>
    BY <1>5 DEF CreateFile, CreateMeta, StoreSecret, Prepare, Consent, AskBatch, NoBatch, DropBatch,
                Fund, Adopt, OpeningFails, Resume, Sweep, RevokeBalanceAccess, KeyRemoves,
                RemoveRecipient, Close, CloseSession, vars
  <2> QED
    BY <2>1, SendsUntouched
<1>6. ASSUME NEW i \in Ops,
             \/ \E k \in Keys, to \in SendTo, expr \in Amount : StartSend(i, k, to, expr)
             \/ AbortSend(i) \/ CheckSend(i) \/ SubmitSend(i) \/ SendReverts(i) \/ SendMined(i)
             \/ ReadSend(i)
      PROVE  ReportInv'
  BY <1>6, StartReports, CheckReports, SubmitReports, MinedReports, ReadReports
<1>7. ASSUME NEW o \in Owners, OwnerActs(o)
      PROVE  ReportInv'
  <2>1. UNCHANGED <<op, frame>> /\ (frame # NoOne => UNCHANGED funds)
    BY <1>7 DEF OwnerActs, Upset, IncreaseBudget, AddRecipient, RemoveRecipient, CloseSession,
                SetOperator, OwnerMoves
  <2> QED
    BY <2>1, SendsUntouched
<1>8. CASE Crash
  BY <1>8, CrashReports
<1>9. CASE Surroundings
  <2>1. UNCHANGED <<op, frame, funds>>
    BY <1>9 DEF Surroundings, PauseAcl, Tick, Upset, clientVars
  <2> QED
    BY <2>1, SendsUntouched
<1> QED
  BY <1>1, <1>3, <1>4, <1>5, <1>6, <1>7, <1>8, <1>9 DEF ClientNext

---------------------------------------------------------------------------
(* The client uses the module as an account may, and learns what it did       *)

LEMMA SpecClient == ClientSpec => [](OpeningInv /\ MoneyInv /\ ReportInv)
<1>1. ClientInit => OpeningInv /\ MoneyInv /\ ReportInv
  BY InitOpening, InitMoney, InitReport DEF ClientInit
<1>2. OpeningInv /\ MoneyInv /\ ReportInv /\ [ClientNext]_allVars
        => (OpeningInv /\ MoneyInv /\ ReportInv)'
  BY StepOpening, StepMoney, StepReport, ClientStepIsStep
<1> QED
  BY <1>1, <1>2, PTL DEF ClientSpec

\* Whatever the client does, wherever it dies and whatever its wallet batches, it
\* asks of the contract only what the contract's own specification lets an account
\* ask: all that is proved of SessionModule holds of what the client sees.
THEOREM ClientImplementsModule == ClientSpec => Spec
<1>1. ClientInit => Init
  BY DEF ClientInit
<1>2. OpeningInv /\ ReportInv /\ [ClientNext]_allVars => [Next]_vars
  BY ClientStepIsStep
<1> QED
  BY <1>1, <1>2, SpecClient, PTL DEF ClientSpec, Spec

\* A send reports what the chain did with it, however the budget, the balance and
\* the other sends moved between the resolution of the amount and the block, and
\* whatever the owner does from inside the token's call (submit's truth table).
THEOREM SendsReportTheChain == ClientSpec => []ReportsMatchChain
<1>1. ReportInv => ReportsMatchChain
  BY DEF ReportInv, Report, Says, ReportsMatchChain
<1> QED
  BY <1>1, SpecClient, PTL

\* The allowance and the allowlist hold of every use the client makes of them.
THEOREM ClientKeepsTheAllowance == ClientSpec => ImplementsAllowance /\ []IndexMatchesList
BY ClientImplementsModule, SessionImplementsAllowance, AllowlistIsIndexed

=============================================================================
