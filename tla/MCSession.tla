----------------------------- MODULE MCSession -----------------------------
(***************************************************************************)
(* Instances of SessionClient for TLC: one owner, one token, one or two      *)
(* keys, two sends.                                                        *)
(***************************************************************************)
EXTENDS SessionClient, TLC

CONSTANTS k1, r1, r2

MCListed == <<r1>>

Exact(v) == [base |-> "exact", value |-> v, steps |-> <<>>]
OfBudget(steps) == [base |-> "budget", value |-> 0, steps |-> steps]

OpSymmetry == Permutations(Ops)

\* A figure, one too large to encrypt, and half of what is left but no more than one.
MCAmount == {Exact(2), Exact(MaxAmount + 1),
             OfBudget(<<[kind |-> "scale", bps |-> 5000], [kind |-> "cap", max |-> 1]>>)}

=============================================================================
