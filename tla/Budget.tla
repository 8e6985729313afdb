------------------------------- MODULE Budget -------------------------------
(***************************************************************************)
(* How a model spends a budget it may not read: the tools `remaining` and  *)
(* `can_afford`, and a send of a figure, of a reference or of a sealed     *)
(* amount (mcp-server's tools.ts, refs.ts, sanitize.ts; sdk/amounts.ts);   *)
(* and the page's bisection of can_afford (frontend liveAfford.ts).        *)
(* Calls overlap at their awaits.  Every step is taken in two worlds at    *)
(* once, which differ in the budget alone: what a model is told in one it  *)
(* compares with what it would be told in the other.                       *)
(***************************************************************************)
EXTENDS Integers, Sequences

CONSTANTS
  Budgets,        \* the two worlds' budgets, pairs
  CoarseBucket,   \* COARSE_BUCKET
  Figures,        \* figures a model names
  Slots,          \* calls at once
  Upper, MaxProbes,    \* where a bisection starts, and how many calls it makes
  MaxHeld, MaxSends    \* bounds of the instance

VARIABLES
  left,     \* the budget on chain, per world
  held,     \* the references minted, each with its reading per world
  asks,     \* per slot, what was asked
  sends     \* how many sends were mined

budgetVars == <<left, held, asks, sends>>

Worlds == {1, 2}

ASSUME BudgetAssumption ==
  /\ Budgets \subseteq [Worlds -> Nat]
  /\ CoarseBucket \in Nat \ {0} /\ Figures \subseteq Nat
  /\ Upper \in Nat /\ MaxProbes \in Nat
  /\ "nobody" \notin Slots

No == [w \in Worlds |-> FALSE]

NoAsk == [pc |-> "idle", n |-> 0, read |-> [w \in Worlds |-> 0], yes |-> No, moved |-> No,
          overtaken |-> FALSE]

NotRounded(remaining) == remaining    \* mutant: the exact predicate

\* coarsenBudget: down to the bucket.
Coarsened(remaining) == (remaining \div CoarseBucket) * CoarseBucket

\* session.remaining and remainingExact: the module's budget handle as it is now.
BudgetHandle == left

\* userDecrypt: what the handle stood for when it was read, whatever was sent since.
Decrypted(handle, w) == handle[w]

\* can_afford, of a budget and a figure.
Says(remaining, wanted) == Coarsened(remaining) >= wanted

-----------------------------------------------------------------------------
(* The language of amounts.                                                *)

\* What a caller writes: a figure, a reference it may not hold, or neither;
\* and an operation on it.
Specs == [id : {"figure"}, n : Figures, op : {"", "half"}]
  \union [id : {"ref"}, n : 1..MaxHeld, op : {"", "half", "percent", "third"}]
  \union {[id |-> "typo", n |-> 0, op |-> ""]}

\* amountSpec: structure only, and before any session is looked at.
WellFormed(spec) ==
  \/ spec.id = "figure"
  \/ spec.id = "ref" /\ spec.op \in {"", "half", "percent"}

\* exprFor: a reference this session issued, or a figure and nothing else.
Known(spec) ==
  \/ spec.id = "ref" /\ spec.n \in DOMAIN held
  \/ spec.id = "figure" /\ spec.op = ""

\* The reading behind a reference: revealAmount decrypts the handle that was
\* read, not the budget of now.
RefValue(n, w) == Decrypted(held[n], w)

\* "percent=25" reaches AmountExpr.percent as 25 basis points.
Scale(op, amount) ==
  CASE op = "half" -> (amount * 5000) \div 10000
    [] op = "percent" -> (amount * 25) \div 10000
    [] OTHER -> amount

\* Resolved only when it is encrypted.
ResolvedIn(w, spec) ==
  IF spec.id = "figure" THEN spec.n ELSE Scale(spec.op, RefValue(spec.n, w))

-----------------------------------------------------------------------------
(* The tools.                                                              *)

\* `remaining`: a reference; nobody looked at the number.
Remaining ==
  /\ Len(held) < MaxHeld
  /\ held' = Append(held, BudgetHandle)
  /\ UNCHANGED <<left, asks, sends>>

CanAfford(c, n) ==
  /\ asks[c].pc \in {"idle", "told"}
  /\ asks' = [asks EXCEPT ![c] = [NoAsk EXCEPT !.pc = "asked", !.n = n]]
  /\ UNCHANGED <<left, held, sends>>

\* remainingExact
ReadBudget(c) ==
  /\ asks[c].pc = "asked"
  /\ asks' = [asks EXCEPT ![c].pc = "read", ![c].read = [w \in Worlds |-> Decrypted(BudgetHandle, w)]]
  /\ UNCHANGED <<left, held, sends>>

Affordable(c) == [w \in Worlds |-> Says(asks[c].read[w], asks[c].n)]

TellAffordable(c) ==
  /\ asks[c].pc = "read"
  /\ asks' = [asks EXCEPT ![c].pc = "told", ![c].yes = Affordable(c)]
  /\ UNCHANGED <<left, held, sends>>

\* What moves in each world: all of an amount the budget covers, or nothing.
Moves(amount) == [w \in Worlds |-> amount[w] <= left[w]]

\* A mined send, by a slot that was told it could afford it or by another; an amount of
\* zero is refused before anything is sent.
Spends(amount, by) ==
  LET moved == Moves(amount)
  IN /\ \A w \in Worlds : amount[w] > 0
     /\ sends < MaxSends /\ sends' = sends + 1
     /\ left' = [w \in Worlds |-> IF moved[w] THEN left[w] - amount[w] ELSE left[w]]
     /\ asks' = [c \in Slots |->
                   IF c = by THEN [asks[c] EXCEPT !.pc = "sent", !.moved = moved]
                   ELSE [asks[c] EXCEPT !.overtaken = @ \/ asks[c].pc \in {"read", "told"}]]
     /\ UNCHANGED held

\* Send what can_afford was asked about.
SendAfforded(c) ==
  /\ asks[c].pc = "told"
  /\ Spends([w \in Worlds |-> asks[c].n], c)

\* Send a spec.
SendSpec(spec) ==
  /\ WellFormed(spec) /\ Known(spec)
  /\ Spends([w \in Worlds |-> ResolvedIn(w, spec)], "nobody")

\* Sealed: the owner types the amount at the console.
SendSealed(n) == Spends([w \in Worlds |-> n], "nobody")

\* liveSearch: halve the bracket with one call each, until the calls run out.
LiveSearch(remaining) ==
  LET narrowed[calls \in 0..MaxProbes] ==
        IF calls = 0 THEN [lo |-> 0, hi |-> Upper]
        ELSE LET b == narrowed[calls - 1]
                 mid == (b.lo + b.hi) \div 2
             IN IF b.hi - b.lo <= 1 THEN b
                ELSE IF Says(remaining, mid) THEN [b EXCEPT !.lo = mid]
                ELSE [b EXCEPT !.hi = mid]
  IN narrowed[MaxProbes]

-----------------------------------------------------------------------------
BudgetInit ==
  /\ left \in Budgets
  /\ held = <<>>
  /\ asks = [c \in Slots |-> NoAsk]
  /\ sends = 0

BudgetNext ==
  \/ Remaining
  \/ \E c \in Slots, n \in Figures : CanAfford(c, n)
  \/ \E c \in Slots : ReadBudget(c) \/ TellAffordable(c) \/ SendAfforded(c)
  \/ \E spec \in Specs : SendSpec(spec)
  \/ \E n \in Figures : SendSealed(n)

-----------------------------------------------------------------------------
(* Properties.                                                             *)

SameBucket(budget) == budget[1] \div CoarseBucket = budget[2] \div CoarseBucket

\* No question tells two budgets of one bucket apart, whatever was spent before
\* and whichever calls overlap ("every budget inside one bucket answers
\* identically to every probe"), nor does a bisection, whose bracket holds the
\* bucket's floor; a yes is a real yes: the send it was asked for goes through
\* unless another send was mined after the budget was read ("it can never
\* approve something that would then fail on chain").
AnswersHideAndHold ==
  /\ \A c \in Slots :
       LET ask == asks[c]
       IN /\ ask.pc = "told" /\ SameBucket(ask.read) => ask.yes[1] = ask.yes[2]
          /\ ask.pc = "sent" /\ ~ask.overtaken => \A w \in Worlds : ask.yes[w] => ask.moved[w]
  /\ LET found == [w \in Worlds |-> LiveSearch(left[w])]
     IN /\ SameBucket(left) => found[1] = found[2]
        /\ \A w \in Worlds : left[w] < Upper =>
             /\ found[w].lo <= Coarsened(left[w]) /\ Coarsened(left[w]) < found[w].hi

=============================================================================
