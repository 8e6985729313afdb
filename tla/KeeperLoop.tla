----------------------------- MODULE KeeperLoop -----------------------------
(***************************************************************************)
(* scripts/keeper.ts: the loop that reveals, accrues and opens draws, beside  *)
(* a pool that anybody else may reveal, accrue, cancel or open too.  The       *)
(* keeper keeps nothing between ticks.  Any call may fail, a receipt may be    *)
(* lost after the transaction took effect, and the process may die.            *)
(* Balances and prizes are PrizePool's; here a draw is a status and a time.    *)
(***************************************************************************)
EXTENDS Integers, Sequences, FiniteSets

CONSTANTS Users, Period, CancelAfter, Chunk,
          MaxDraws, MaxTime, MaxFailures    \* bounds of the model

ASSUME KeeperAssumption ==
  /\ Period \in Nat /\ CancelAfter \in Nat /\ Chunk \in Nat \ {0}
  /\ MaxDraws \in Nat /\ MaxTime \in Nat /\ MaxFailures \in Nat

VARIABLES draws,      \* the pool's draws: status and snapshot time
          accrued,    \* <<draw, user>> pairs that are settled
          deposited,  \* who ever deposited
          fresh,      \* whose first deposit is in the newest block
          now,
          settled,    \* when the yield source last accrued
          keeper,     \* [pc, count, id, owed]
          failures    \* calls that failed, receipts lost, crashes

poolVars == <<draws, accrued, deposited, fresh, now, settled>>
vars == <<poolVars, keeper, failures>>

Ids == 1..Len(draws)
Status(id) == IF id \in Ids THEN draws[id].status ELSE "none"
Asleep == [pc |-> "asleep", count |-> 0, id |-> 0, owed |-> {}]

Init ==
  /\ draws = <<>> /\ accrued = {}
  /\ deposited = {} /\ fresh = {}
  /\ now = 0 /\ settled = 0
  /\ keeper = Asleep /\ failures = 0

---------------------------------------------------------------------------
(* The pool's calls, whoever makes them                                     *)

RevealDraw(id) ==
  /\ draws[id].status = "open"
  /\ draws' = [draws EXCEPT ![id].status = "revealed"]

\* The window of a cancelled draw goes to the next one.
PreviousAt ==
  LET used == {id \in Ids : draws[id].status # "cancelled"}
  IN  IF used = {} THEN 0
      ELSE draws[CHOOSE id \in used : \A other \in used : other <= id].at

MayOpen ==
  /\ Len(draws) < MaxDraws
  /\ draws # <<>> => draws[Len(draws)].status # "open"
  /\ deposited # {} /\ now >= PreviousAt + Period

OpenDraw ==
  /\ MayOpen
  /\ draws' = Append(draws, [status |-> "open", at |-> now])

AccrueMany(users, id) ==
  /\ draws[id].status = "revealed"
  /\ accrued' = accrued \cup {<<id, u>> : u \in users}

CancelDraw(id) ==
  /\ draws[id].status = "open" /\ now >= draws[id].at + CancelAfter
  /\ draws' = [draws EXCEPT ![id].status = "cancelled"]
  /\ UNCHANGED <<accrued, deposited, fresh, now, settled, keeper, failures>>

Others ==
  \/ \E id \in Ids :
       \/ RevealDraw(id) /\ UNCHANGED <<accrued, settled>>
       \/ \E u \in Users : AccrueMany({u}, id) /\ UNCHANGED <<draws, settled>>
  \/ OpenDraw /\ UNCHANGED <<accrued, settled>>
  \/ settled' = now /\ UNCHANGED <<draws, accrued>>

\* Supplying the deposit settles the source.
Deposit(u) ==
  /\ u \notin deposited
  /\ deposited' = deposited \cup {u} /\ fresh' = fresh \cup {u}
  /\ settled' = now
  /\ UNCHANGED <<draws, accrued, now, keeper, failures>>

\* A block: the logs of the one before can be read.
Block ==
  /\ fresh' = {} /\ now' = IF now < MaxTime THEN now + 1 ELSE now
  /\ UNCHANGED <<draws, accrued, deposited, settled, keeper, failures>>

---------------------------------------------------------------------------
(* tick                                                                    *)

At(pc) == keeper.pc = pc
Goes(pc, id) == keeper' = [keeper EXCEPT !.pc = pc, !.id = id, !.owed = {}]
Sleeps == keeper' = Asleep
Fails == failures < MaxFailures /\ failures' = failures + 1

Wake ==
  /\ At("asleep")
  /\ keeper' = [pc |-> "repair", count |-> Len(draws), id |-> Len(draws), owed |-> {}]
  /\ UNCHANGED <<poolVars, failures>>

\* Mutated: the newest draw is taken for one that is still being opened.
RepairOlder ==
  /\ At("repair")
  /\ IF keeper.id >= 1 /\ keeper.id > keeper.count - 3
     THEN IF keeper.id < keeper.count /\ draws[keeper.id].status = "open"
          THEN Goes("revealing", keeper.id)
          ELSE Goes("repair", keeper.id - 1)
     ELSE Goes("settle", 1)
  /\ UNCHANGED <<poolVars, failures>>

\* Repair first: the newest open draw among the last three.
Repair ==
  /\ At("repair")
  /\ IF keeper.id >= 1 /\ keeper.id > keeper.count - 3
     THEN IF draws[keeper.id].status = "open" THEN Goes("revealing", keeper.id)
          ELSE Goes("repair", keeper.id - 1)
     ELSE Goes("settle", 1)
  /\ UNCHANGED <<poolVars, failures>>

\* The decryption arrived and the transaction is mined; without its receipt the tick
\* ends there.
Reveal ==
  /\ At("revealing") /\ RevealDraw(keeper.id)
  /\ \/ Goes("settle", 1) /\ UNCHANGED failures
     \/ Fails /\ Sleeps
  /\ UNCHANGED <<accrued, deposited, fresh, now, settled>>

\* Mutated: only the newest draw is settled.
ScanNewest(id) ==
  /\ At("settle") /\ keeper.id = id /\ id <= keeper.count
  /\ LET owed == {u \in deposited \ fresh : <<id, u>> \notin accrued}
     IN  IF draws[id].status = "revealed" /\ owed # {} /\ id = keeper.count
         THEN keeper' = [keeper EXCEPT !.pc = "accrue", !.owed = owed]
         ELSE Goes("settle", id + 1)
  /\ UNCHANGED <<poolVars, failures>>

\* Then every revealed draw, oldest first: who deposited, up to one block behind the
\* head, and is not settled.
Scan(id) ==
  /\ At("settle") /\ keeper.id = id /\ id <= keeper.count
  /\ LET owed == {u \in deposited \ fresh : <<id, u>> \notin accrued}
     IN  IF draws[id].status = "revealed" /\ owed # {}
         THEN keeper' = [keeper EXCEPT !.pc = "accrue", !.owed = owed]
         ELSE Goes("settle", id + 1)
  /\ UNCHANGED <<poolVars, failures>>

ScanDone ==
  /\ At("settle") /\ keeper.id > keeper.count
  /\ Goes("open", keeper.count)
  /\ UNCHANGED <<poolVars, failures>>

\* The rest of this draw's list, or the next draw.
NextChunk(chunk) ==
  keeper' = IF keeper.owed = chunk
            THEN [keeper EXCEPT !.pc = "settle", !.id = @ + 1, !.owed = {}]
            ELSE [keeper EXCEPT !.owed = @ \ chunk]

IsChunk(chunk) ==
  chunk \in SUBSET keeper.owed
  /\ Cardinality(chunk) = IF Cardinality(keeper.owed) < Chunk THEN Cardinality(keeper.owed)
                                                              ELSE Chunk

AccrueChunk(id) ==
  /\ At("accrue") /\ keeper.id = id
  /\ \E chunk \in SUBSET keeper.owed :
       IsChunk(chunk) /\ AccrueMany(chunk, id) /\ NextChunk(chunk)
  /\ UNCHANGED <<draws, deposited, fresh, now, settled, failures>>

\* One chunk that fails does not strand the rest.
ChunkFails ==
  /\ At("accrue") /\ Fails
  /\ \E chunk \in SUBSET keeper.owed : IsChunk(chunk) /\ NextChunk(chunk)
  /\ UNCHANGED poolVars

\* When the keeper opens a draw: the first one when the source has accrued for a
\* period, a later one when the last it counted is revealed and a period old.
Due == IF keeper.count = 0 THEN now - settled >= Period
       ELSE /\ draws[keeper.count].status = "revealed"
            /\ now >= draws[keeper.count].at + Period

\* When the source does not answer, a period is taken to have passed.
Unread ==
  /\ At("open") /\ keeper.count = 0 /\ Fails
  /\ Goes("opening", keeper.count) /\ settled' \in {settled, now}
  /\ UNCHANGED <<draws, accrued, deposited, fresh, now>>

NotDue == At("open") /\ ~Due /\ Sleeps /\ UNCHANGED <<poolVars, failures>>

\* Mutated: nothing is opened unless the harvest succeeded.
HarvestFirst ==
  /\ At("open") /\ Due
  /\ \/ Goes("opening", keeper.count) /\ settled' = now
     \/ Sleeps /\ UNCHANGED settled
  /\ UNCHANGED <<draws, accrued, deposited, fresh, now, failures>>

\* Fund it first; a failed harvest opens anyway.
Harvest ==
  /\ At("open") /\ Due
  /\ Goes("opening", keeper.count) /\ settled' \in {settled, now}
  /\ UNCHANGED <<draws, accrued, deposited, fresh, now, failures>>

Open ==
  /\ At("opening") /\ OpenDraw /\ Sleeps
  /\ UNCHANGED <<accrued, deposited, fresh, now, settled, failures>>

\* Somebody else was faster: what the pool refuses ends the tick.
Refused ==
  /\ \/ At("revealing") /\ draws[keeper.id].status # "open"
     \/ At("opening") /\ ~MayOpen
  /\ Sleeps
  /\ UNCHANGED <<poolVars, failures>>

\* So does a relayer or a provider that does not answer.
TickFails ==
  /\ ~At("asleep") /\ ~At("down") /\ ~At("accrue")
  /\ Fails /\ Sleeps
  /\ UNCHANGED poolVars

Crash ==
  /\ ~At("down") /\ Fails
  /\ keeper' = [Asleep EXCEPT !.pc = "down"]
  /\ UNCHANGED poolVars

Restart == At("down") /\ Sleeps /\ UNCHANGED <<poolVars, failures>>

---------------------------------------------------------------------------

Works ==
  \/ Wake \/ Repair \/ Reveal \/ ScanDone \/ NotDue \/ Harvest \/ Open \/ Refused \/ Restart
  \/ \E id \in 1..MaxDraws : Scan(id) \/ AccrueChunk(id)

World ==
  \/ Others /\ UNCHANGED <<deposited, fresh, now, keeper, failures>>
  \/ \E u \in Users : Deposit(u)
  \/ Block

Next ==
  \/ Works \/ Unread \/ ChunkFails \/ TickFails \/ Crash \/ World
  \/ \E id \in Ids : CancelDraw(id)

\* The loop goes round for ever and a dead process is restarted; the chain makes
\* blocks.  Every call is made again on the next tick, and fails finitely often.
Fairness == WF_vars(Works) /\ WF_vars(Block)

Spec == Init /\ [][Next]_vars /\ Fairness

---------------------------------------------------------------------------
(* Correctness                                                             *)

PeriodOver == draws # <<>> /\ now >= draws[Len(draws)].at + Period

\* A draw that is open does not stay open, whatever was lost or died while it was
\* revealed (tick, step 1).
EveryDrawResolved ==
  \A id \in 1..MaxDraws :
    Status(id) = "open" ~> Status(id) # "open"

\* Everybody who ever deposited is settled for every revealed draw, although chunks
\* fail, newer draws arrive and the process dies in the middle (tick, step 2).
EveryoneIsSettled ==
  \A id \in 1..MaxDraws, u \in Users :
    (Status(id) = "revealed" /\ u \in deposited) ~> <<id, u>> \in accrued

\* A revealed draw a period old is followed by another one (tick, step 3).
DrawsKeepComing ==
  \A n \in 1..(MaxDraws - 1) :
    (Len(draws) = n /\ Status(n) = "revealed" /\ PeriodOver) ~> Len(draws) > n

\* "An Open draw blocks every later one, so it is the only thing that can wedge the
\* machine": whatever else became of the last draw, a next one follows.
OnlyOpenWedges ==
  \A n \in 1..(MaxDraws - 1) :
    (Len(draws) = n /\ Status(n) # "open" /\ PeriodOver) ~> Len(draws) > n

=============================================================================
