----------------------------- MODULE Allowance -----------------------------
(***************************************************************************)
(* What a session promises the owner, with everything else left out: an    *)
(* allowance is granted to a key once, spends begin only while it is        *)
(* granted, one at a time, and never exceed what is left of it; an update   *)
(* that races a spend may lose some of the allowance but never make some;   *)
(* once ended, by a close or by time, it is neither raised nor granted      *)
(* again.                                                                  *)
(***************************************************************************)
EXTENDS Integers

CONSTANTS Keys, Tokens, Nothing

VARIABLES allowed,   \* what was granted and not lost, per key and token
          used,      \* what was spent of it
          phase,     \* of each key: "new", "granted", "ended"
          under      \* the <<key, token>> whose spend is under way, or Nothing

vars == <<allowed, used, phase, under>>

Init ==
  /\ allowed = [k \in Keys |-> [t \in Tokens |-> 0]]
  /\ used = [k \in Keys |-> [t \in Tokens |-> 0]]
  /\ phase = [k \in Keys |-> "new"]
  /\ under = Nothing

Grant(k) ==
  /\ phase[k] = "new" /\ phase' = [phase EXCEPT ![k] = "granted"]
  /\ allowed'[k] \in [Tokens -> Nat]
  /\ allowed' = [allowed EXCEPT ![k] = allowed'[k]]
  /\ UNCHANGED <<used, under>>

Raise(k, t) ==
  /\ phase[k] = "granted"
  /\ allowed'[k][t] \in Nat /\ allowed'[k][t] >= allowed[k][t]
  /\ allowed' = [allowed EXCEPT ![k][t] = allowed'[k][t]]
  /\ UNCHANGED <<used, phase, under>>

Begin(k, t) ==
  /\ phase[k] = "granted" /\ under = Nothing
  /\ under' = <<k, t>>
  /\ UNCHANGED <<allowed, used, phase>>

Spend(k, t) ==
  /\ under = <<k, t>> /\ under' = Nothing
  /\ used'[k][t] >= used[k][t] /\ used'[k][t] <= allowed'[k][t]
  /\ allowed'[k][t] <= allowed[k][t]
  /\ used' = [used EXCEPT ![k][t] = used'[k][t]]
  /\ allowed' = [allowed EXCEPT ![k][t] = allowed'[k][t]]
  /\ UNCHANGED phase

End(S) ==
  /\ \A k \in S : phase[k] = "granted"
  /\ phase' = [k \in Keys |-> IF k \in S THEN "ended" ELSE phase[k]]
  /\ UNCHANGED <<allowed, used, under>>

Next ==
  \/ \E k \in Keys : Grant(k) \/ \E t \in Tokens : Raise(k, t) \/ Begin(k, t) \/ Spend(k, t)
  \/ \E S \in SUBSET Keys : End(S)

Spec == Init /\ [][Next]_vars

=============================================================================
