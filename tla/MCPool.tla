------------------------------- MODULE MCPool -------------------------------
(***************************************************************************)
(* Two pools in one run: one with an owner, who configures it and changes  *)
(* its source, and a renounced one with more depositors and more draws.    *)
(***************************************************************************)
EXTENDS MCPrizePool

VARIABLE owned    \* which of the two a behaviour is of

\* One prize in the reserve and nothing for the keeper: windows and weights.
RoundsInit == Configured(0 :> 1 @@ 1 :> 0, 0, 1, 0)

PoolInit ==
  \/ owned = TRUE /\ Init
  \/ owned = FALSE /\ RoundsInit

\* With an owner: one depositor, one draw, a reserve filled from yield only; it goes
\* when a source and the tiers are set, and a draw was opened.
OneDraw ==
  /\ now' <= Genesis + MinPeriod /\ Len(draws') <= 1
  /\ userObs'[u2] = <<>> /\ \A d \in DOMAIN draws' : u2 \notin draws'[d].accrued
  /\ renounced' => yieldSource' # NoSource /\ tiers'.setAt # 0 /\ draws' # <<>>
  /\ tokens'[u2] = Supply /\ tokens'[Keeper] >= Supply

PoolRun == PoolInit /\ [][Next /\ (owned => OneDraw) /\ UNCHANGED owned]_<<vars, owned>>

=============================================================================
