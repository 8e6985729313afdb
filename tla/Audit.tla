------------------------------- MODULE Audit -------------------------------
(***************************************************************************)
(* Two audits of a draw from public data alone: the Verify screen's        *)
(* "Verify this draw in my browser" and scripts/verify-draw.ts.  Each      *)
(* finds the participants by scanning Deposited events in chunks up to the *)
(* head it read, recomputes every threshold and asks the contract for its  *)
(* own, one account after another, while the pool goes on and the visitor  *)
(* looks at other draws.                                                   *)
(*                                                                         *)
(* A block holds one Deposited event.  A threshold is kept as the inputs   *)
(* that are public: draw, account and the odds in force; thresholds of     *)
(* different inputs are taken to differ.                                   *)
(***************************************************************************)
EXTENDS Integers, Sequences, FiniteSets, Functions

CONSTANTS
  Depositors,
  ChunkSize,       \* blocks to a getLogs
  Unseen,          \* a draw the page has not read
  MaxDraws, MaxBlocks, MaxShapes    \* bounds of the instance

ASSUME AuditAssumption ==
  /\ ChunkSize \in Nat \ {0}
  /\ {MaxDraws, MaxBlocks, MaxShapes} \subseteq Nat
  /\ Unseen \notin {"Open", "Revealed", "Cancelled"}

VARIABLES
  auditor,     \* "page" or "script"
  rounds,      \* the pool's draws: status, and whose weight is in them
  blocks,      \* the depositor each block names
  shape,       \* which tiers are in force: how often setTiers was called
  latest,      \* the page's last drawCount
  drawId,      \* the draw picked, 0 while the page follows the latest
  record,      \* the page's last reading of each draw
  ks,          \* the tiers the page has read, 0 for none
  job,         \* the audit under way
  rows,        \* what the last one found
  strayed      \* history: the page turned to another draw behind an audit

poolVars  == <<auditor, rounds, blocks, shape>>
pageVars  == <<latest, drawId, record, ks>>
auditVars == <<poolVars, pageVars, job, rows, strayed>>

NoJob  == [at |-> "idle", draw |-> 0, k |-> 0, head |-> 0, next |-> 1, users |-> {},
           read |-> {}]
NoRows == [draw |-> 0, k |-> 0, users |-> {}, read |-> {}]

Ids == 1..MaxDraws

-----------------------------------------------------------------------------
(* The pool.                                                               *)

PoolDeposit(u) ==
  /\ Len(blocks) < MaxBlocks
  /\ blocks' = Append(blocks, u)
  /\ UNCHANGED <<auditor, rounds, shape, pageVars, job, rows, strayed>>

\* Whoever deposited before may have weight in the window.
PoolOpens ==
  /\ Len(rounds) < MaxDraws /\ blocks # <<>>
  /\ rounds # <<>> => rounds[Len(rounds)].status # "Open"
  /\ rounds' = Append(rounds, [status |-> "Open", in |-> Range(blocks)])
  /\ UNCHANGED <<auditor, blocks, shape, pageVars, job, rows, strayed>>

PoolCloses(status) ==
  /\ rounds # <<>> /\ rounds[Len(rounds)].status = "Open"
  /\ rounds' = [rounds EXCEPT ![Len(rounds)].status = status]
  /\ UNCHANGED <<auditor, blocks, shape, pageVars, job, rows, strayed>>

PoolSetsTiers ==
  /\ shape < MaxShapes
  /\ shape' = shape + 1
  /\ UNCHANGED <<auditor, rounds, blocks, pageVars, job, rows, strayed>>

\* thresholdFor: the contract's own, at the odds in force when it is asked.
ContractThreshold(d, u) == [draw |-> d, who |-> u, k |-> shape]

\* lib/draw.ts and the script: the same rule, from the odds that were read.
LocalThreshold(d, u, k) == [draw |-> d, who |-> u, k |-> k]

-----------------------------------------------------------------------------
(* The page.                                                               *)

Target == IF drawId = 0 THEN latest ELSE drawId

Draw == IF Target = 0 THEN Unseen ELSE record[Target]

Revealed == Draw = "Revealed"

Running == job.at # "idle"

\* A page that turns to another draw while it shows or computes rows of one.
Turned(to) == to # Target /\ (Running \/ rows # NoRows)

Poll ==
  /\ auditor = "page" /\ latest < Len(rounds)
  /\ latest' = Len(rounds)
  /\ strayed' = (strayed \/ (drawId = 0 /\ Turned(Len(rounds))))
  /\ UNCHANGED <<poolVars, drawId, record, ks, job, rows>>

\* A row of "Every draw so far" reads its draw; so does the draw under audit.
ReadDraw(d) ==
  /\ auditor = "page" /\ d <= latest
  /\ record' = [record EXCEPT ![d] = rounds[d].status]
  /\ UNCHANGED <<poolVars, latest, drawId, ks, job, rows, strayed>>

ReadTiers ==
  /\ auditor = "page"
  /\ ks' = shape
  /\ UNCHANGED <<poolVars, latest, drawId, record, job, rows, strayed>>

\* The list of draws: enabled also while an audit runs.
Pick(d) ==
  /\ auditor = "page" /\ d <= latest
  /\ drawId' = d
  /\ rows' = NoRows
  /\ strayed' = (strayed \/ (Running /\ d # Target))
  /\ UNCHANGED <<poolVars, latest, record, ks, job>>

\* "audit", on the row of a draw that was read as revealed.
PickRow(d) == record[d] = "Revealed" /\ Pick(d)

PressVerify ==
  /\ auditor = "page"
  /\ ~Running /\ Revealed /\ ks # 0
  /\ job' = [NoJob EXCEPT !.at = "head", !.draw = Target, !.k = ks]
  /\ rows' = NoRows
  /\ strayed' = FALSE
  /\ UNCHANGED <<poolVars, pageVars>>

-----------------------------------------------------------------------------
(* The script.                                                             *)

\* lastRevealed, downwards from the count it read.
LastRevealedOf(count) ==
  LET done == {d \in 1..count : rounds[d].status = "Revealed"}
  IN IF done = {} THEN 0 ELSE CHOOSE d \in done : \A e \in done : e <= d

\* DRAW of the environment, or the last revealed one; an unrevealed one throws.
ScriptStarts(asked) ==
  LET d == IF asked = 0 THEN LastRevealedOf(Len(rounds)) ELSE asked
  IN /\ auditor = "script" /\ ~Running
     /\ d \in DOMAIN rounds /\ rounds[d].status = "Revealed"
     /\ job' = [NoJob EXCEPT !.at = "head", !.draw = d]
     /\ rows' = NoRows
     /\ UNCHANGED <<poolVars, pageVars, strayed>>

\* The script reads the tiers after the events, the page long before.
ScriptReadsTiers ==
  /\ job.at = "tiers"
  /\ job' = [job EXCEPT !.at = "rows", !.k = shape]
  /\ UNCHANGED <<poolVars, pageVars, rows, strayed>>

-----------------------------------------------------------------------------
(* The audit itself.                                                       *)

ReadHead ==
  /\ job.at = "head"
  /\ job' = [job EXCEPT !.at = "scan", !.head = Len(blocks)]
  /\ UNCHANGED <<poolVars, pageVars, rows, strayed>>

LastOf(from, head) == IF from + ChunkSize - 1 > head THEN head ELSE from + ChunkSize - 1

NextSkipping(from) == from + ChunkSize + 1    \* mutant: a block between two chunks

NextChunk(from) == from + ChunkSize

ScanChunk ==
  /\ job.at = "scan" /\ job.next <= job.head
  /\ job' = [job EXCEPT !.users = @ \union {blocks[b] : b \in job.next..LastOf(job.next, job.head)},
                        !.next = NextChunk(job.next)]
  /\ UNCHANGED <<poolVars, pageVars, rows, strayed>>

Scanned ==
  /\ job.at = "scan" /\ job.next > job.head
  /\ job' = [job EXCEPT !.at = IF auditor = "script" THEN "tiers" ELSE "rows"]
  /\ UNCHANGED <<poolVars, pageVars, rows, strayed>>

\* One participant: the thresholds recomputed, and the contract's own.
AuditOne(u) ==
  /\ job.at = "rows" /\ u \in job.users
  /\ job' = [job EXCEPT !.users = @ \ {u},
                        !.read = @ \union {[mine  |-> LocalThreshold(job.draw, u, job.k),
                                            chain |-> ContractThreshold(job.draw, u)]}]
  /\ UNCHANGED <<poolVars, pageVars, rows, strayed>>

\* setRows: the page shows them under whatever draw it is at by then.
ShowRows ==
  /\ job.at = "rows" /\ job.users = {}
  /\ rows' = [draw |-> job.draw, k |-> job.k, read |-> job.read,
              users |-> {r.mine.who : r \in job.read}]
  /\ job' = NoJob
  /\ UNCHANGED <<poolVars, pageVars, strayed>>

\* An RPC fails: an error and no rows.
AuditFails ==
  /\ Running
  /\ job' = NoJob
  /\ UNCHANGED <<poolVars, pageVars, rows, strayed>>

-----------------------------------------------------------------------------
(* What the table says, and the number beside the pool's figures.          *)

Match(row) == row.mine = row.chain

\* "all match the contract", or "MISMATCH", which no participants also are.
AllMatch == rows.read # {} /\ \A r \in rows.read : Match(r)

\* A row's percentage divides by the draw and the tiers of the page as it is
\* now: where those were not read the page is lost, where they are of another
\* draw the figure is.
PercentagesAre ==
  IF auditor = "script" THEN "right"
  ELSE IF Draw = Unseen /\ \E r \in rows.read : Match(r) THEN "fatal"
  ELSE IF Target = rows.draw /\ Revealed /\ ks = rows.k THEN "right"
  ELSE "wrong"

\* useDepositorCount: read once, for a head, by the same walk over chunks; an
\* address that has left is still counted.
DepositorCount(head) ==
  LET chunks[from \in 1..MaxBlocks + ChunkSize] ==
        IF from > head THEN {}
        ELSE {blocks[b] : b \in from..LastOf(from, head)} \union chunks[from + ChunkSize]
  IN Cardinality(chunks[1])

-----------------------------------------------------------------------------
AuditInit ==
  /\ auditor \in {"page", "script"}
  /\ rounds = <<>> /\ blocks = <<>> /\ shape = 1
  /\ latest = 0 /\ drawId = 0 /\ record = [d \in Ids |-> Unseen] /\ ks = 0
  /\ job = NoJob /\ rows = NoRows /\ strayed = FALSE

PoolGoesOn ==
  \/ \E u \in Depositors : PoolDeposit(u)
  \/ PoolOpens
  \/ \E status \in {"Revealed", "Cancelled"} : PoolCloses(status)
  \/ PoolSetsTiers

AuditNext ==
  \/ PoolGoesOn
  \/ Poll \/ ReadTiers \/ PressVerify
  \/ \E d \in Ids : ReadDraw(d) \/ Pick(d) \/ PickRow(d)
  \/ \E asked \in {0} \union Ids : ScriptStarts(asked)
  \/ ReadHead \/ ScanChunk \/ Scanned \/ ScriptReadsTiers
  \/ \E u \in Depositors : AuditOne(u)
  \/ ShowRows \/ AuditFails

-----------------------------------------------------------------------------
(* Properties.                                                             *)

\* An audit lists as many accounts as the Pool screen counts, at one of the heads
\* since: nobody is in one scan and not in the other, nor counted twice.
CountsTheSame ==
  \E head \in 0..Len(blocks) : Cardinality(rows.users) = DepositorCount(head)

\* Whoever could have weight in the audited draw is in the audit, in whatever
\* blocks they deposited; a mismatch is announced only after setTiers changed
\* what the auditor had read; and the rows are of the draw the page shows, with
\* the right percentages, until the page turned to another draw behind the
\* audit or its tiers were read again (Verify.tsx "checked against the
\* contract"; two ways of turning are known: a new draw while the page follows
\* the latest, and a draw picked while the audit runs); and its participants are
\* as many as the Pool screen counts.
AuditIsOfOneDraw ==
  rows # NoRows =>
    /\ rounds[rows.draw].in \subseteq rows.users
    /\ \A r, s \in rows.read : r.mine.draw = s.mine.draw /\ r.mine.k = s.mine.k
    /\ AllMatch \/ shape > rows.k
    /\ ~strayed /\ ks = rows.k => PercentagesAre = "right"
    /\ CountsTheSame

=============================================================================
