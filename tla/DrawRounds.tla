----------------------------- MODULE DrawRounds -----------------------------
(***************************************************************************)
(* What the draw life cycle of the prize pool promises, with everything    *)
(* else left out.  Time up to `settledTo` belongs to revealed draws; while  *)
(* a draw is open its window is [settledTo, openUpto).  A draw is either    *)
(* settled, and the next window begins where it ended, or abandoned, and   *)
(* the next window begins where it began: every moment since genesis is in *)
(* exactly one settled window once later draws have settled, so no weight  *)
(* is lost or counted twice.                                               *)
(***************************************************************************)
EXTENDS Integers

CONSTANTS Genesis, MinPeriod, CancelAfter

VARIABLES now, settledTo, openUpto   \* openUpto = 0 : no draw is open

vars == <<now, settledTo, openUpto>>

Init == now = Genesis /\ settledTo = Genesis /\ openUpto = 0

Tick == now' = now + 1 /\ UNCHANGED <<settledTo, openUpto>>

Open ==
  /\ openUpto = 0
  /\ now >= settledTo + MinPeriod
  /\ openUpto' = now
  /\ UNCHANGED <<now, settledTo>>

Settle ==
  /\ openUpto # 0
  /\ settledTo' = openUpto /\ openUpto' = 0
  /\ UNCHANGED now

Abandon ==
  /\ openUpto # 0
  /\ now >= openUpto + CancelAfter
  /\ openUpto' = 0
  /\ UNCHANGED <<now, settledTo>>

Next == Tick \/ Open \/ Settle \/ Abandon

Spec == Init /\ [][Next]_vars

=============================================================================
