----------------------------- MODULE VaultViews -----------------------------
(***************************************************************************)
(* Who looks at the replica's round trip through the vault and pushes it:  *)
(* the site's Vault screen, and the assistant's vault tools over           *)
(* sdk/vault.ts.  The source lists a batch at each joinVault and           *)
(* requestUnwind and takes none off again; what is listed is the only way  *)
(* to find the tokens that are on the trip.  The lists are kept without    *)
(* their repetitions, one for each call.  The screen has just read them;   *)
(* the tool reads the list, the current batch and its state one by one,    *)
(* and the batcher's keeper may dispatch between two readings.             *)
(***************************************************************************)
EXTENDS Replica

VARIABLES
  joined,     \* _openBatches
  redeems,    \* _openRedeems
  answer      \* the assistant's: last reading, what it read, its own last batch

views == <<joined, redeems, answer>>

Answer(at, open, batch, state, own) ==
  [at |-> at, open |-> open, batch |-> batch, state |-> state, own |-> own]

\* Mutant: the source lists the first batch it waits for and no later one.
FirstListed(list, id) == IF list = {} THEN {id} ELSE list

Listed(list, id) == list \union {id}

\* joinVault, from the screen's "Join the next batch" or by anybody.
Join ==
  /\ JoinVault
  /\ joined' = Listed(joined, Len(joins))
  /\ UNCHANGED redeems

PressJoin == Join /\ UNCHANGED answer

\* vault_join: the same call, signed by the session key; the answer invites
\* the caller to "ask for the vault status to see where it is".
VaultJoin == Join /\ answer' = Answer("idle", {}, 0, "unread", Len(joins))

Unwind ==
  /\ RequestUnwind
  /\ redeems' = Listed(redeems, Len(unwinds))
  /\ UNCHANGED <<joined, answer>>

\* VaultClient.claim: a batch it was told of; one that is still open reverts.
VaultClaim(id) ==
  /\ answer.at = "state" /\ id \in answer.open
  /\ ClaimShares(id)
  /\ UNCHANGED views

-----------------------------------------------------------------------------
(* VaultClient.status, one call after the other.                           *)

StatusOpen ==
  /\ answer.at \in {"idle", "state"}
  /\ answer' = Answer("open", joined, 0, "unread", answer.own)
  /\ UNCHANGED <<vars, joined, redeems>>

StatusCurrent ==
  /\ answer.at = "open"
  /\ answer' = [answer EXCEPT !.at = "current", !.batch = Len(joins)]
  /\ UNCHANGED <<vars, joined, redeems>>

\* batchState: a dispatched batch is settled in the same step here.
BatchState(id) == IF id = Len(joins) THEN "open" ELSE "settled"

StatusState ==
  /\ answer.at = "current"
  /\ answer' = [answer EXCEPT !.at = "state", !.state = BatchState(answer.batch)]
  /\ UNCHANGED <<vars, joined, redeems>>

\* vault_status as it is told: the batches "joined and not yet claimed".
VaultStatus == [where |-> <<answer.batch, answer.state>>, batches |-> answer.open]

-----------------------------------------------------------------------------
(* The Vault screen.                                                       *)

\* What the screen reads: the two lists, "Open batches" and "Redeem batches".
ScreenReads == [batches |-> joined, redeems |-> redeems]

\* "In Zama's vault, as shares", the batches named; "Here, as the withdrawal
\* buffer" is "the rest, plus the prize pot".
PrincipalPlace ==
  IF ScreenReads.batches = {} THEN "nothing joined yet" ELSE "about half, in batches"

-----------------------------------------------------------------------------
ViewInit == Init /\ joined = {} /\ redeems = {} /\ answer = Answer("idle", {}, 0, "unread", 0)

\* What moves on the source and is listed nowhere.
Unlisted ==
  /\ \/ \E amount \in Amounts : Supply(amount) \/ Redeem(amount) \/ Gift(amount)
     \/ Harvest \/ DispatchJoins \/ Tick
     \/ \E id \in DOMAIN joins : ClaimShares(id)
     \/ \E id \in DOMAIN unwinds : ClaimUnwound(id) \/ ClaimedByOthers(id)
     \/ \E price \in Prices : DispatchUnwinds(price)
  /\ UNCHANGED views

ViewNext ==
  \/ PressJoin \/ VaultJoin \/ Unwind \/ Unlisted
  \/ \E id \in joined : VaultClaim(id)
  \/ StatusOpen \/ StatusCurrent \/ StatusState

-----------------------------------------------------------------------------
(* Properties.                                                             *)

\* Told that nothing was joined, all the principal is here and nothing is on
\* the trip; whatever is on it waits in a batch that is listed, however many
\* times anybody joined, claimed and unwound (Vault.tsx "Where the pool's
\* principal is").  And an answer the assistant gives across a dispatch names
\* no batch later than the one it calls current, every earlier one has been
\* dispatched, and the batch the assistant itself joined is among them.
WhatIsOutIsListed ==
  /\ PrincipalPlace = "nothing joined yet" =>
       inVault = 0 /\ shares = 0 /\ \A id \in DOMAIN unwinds : unwinds[id] = 0
  /\ \A id \in DOMAIN joins : joins[id] > 0 => id \in ScreenReads.batches
  /\ \A id \in DOMAIN unwinds : unwinds[id] > 0 => id \in ScreenReads.redeems
  /\ answer.at = "state" =>
       \A id \in VaultStatus.batches :
         /\ id <= VaultStatus.where[1]
         /\ id < VaultStatus.where[1] \/ VaultStatus.where[2] = "settled" => id < Len(joins)
  /\ answer.at # "idle" /\ answer.own > 0 => answer.own \in answer.open

=============================================================================
