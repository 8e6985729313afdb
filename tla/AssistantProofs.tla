-------------------------- MODULE AssistantProofs --------------------------
(***************************************************************************)
(* The assistant: what an owner and a model were told, what a server holds, *)
(* what becomes of the vault on the owner's machine, and what can_afford    *)
(* gives away; for every number of overlapping calls, sessions, instances   *)
(* and processes, over restarts, and for every budget and bucket.           *)
(***************************************************************************)
EXTENDS Deployments, SumProofs

\* A call that has not yet been given to an instance, or never was.
Unrouted == {"idle", "done", "failed", "preparing", "adopting", "checking", "serving", "building"}

\* A request that came with a token, or asks for one.
Requests == {"preparing", "adopting", "checking", "serving", "building", "routed"}

\* Before these are left the owner is not asked.
Unasked == Requests \cup {"idle", "reading", "revealing"}

\* What a call may be doing when an instance has just begun to serve it.
Beginnings == {"signing", "unlocking", "reading", "pushing", "closing", "sending", "sealing"}

PCs == Unrouted \cup Beginnings
         \cup {"routed", "signed", "revealing", "revealed?", "depositing", "showing", "pushed", "closed"}

CallRecords == [tool : Tools \cup {"none", "prepare", "adopt"}, pc : PCs, inst : Instances \cup {None},
                key : Keys \cup {None}, held : BOOLEAN, late : BOOLEAN]

TypeInv ==
  /\ chain \in [Keys -> {"unopened", "open", "closed"}]
  /\ live \in [Instances -> Keys \cup {None}]
  /\ attached \in [Keys -> Instances \cup {None}]
  /\ counts \in [Instances -> [Prefixes -> Nat]]
  /\ call \in [Calls -> CallRecords]
  /\ \A c \in Calls : /\ call[c].pc \in Unrouted \/ call[c].inst \in Instances
                      /\ call[c].pc \in Requests => call[c].key \in Keys

\* The page is idle or opens a session with a key.
PageType == page.pc \in {"preparing", "sent", "adopting"} => page.key \in Keys

---------------------------------------------------------------------------
(* What a step is                                                          *)

LEMMA LocalInstance == Local \in Instances
BY CalledAssumption DEF Local

\* Setup and budget leave the assistant alone.
LEMMA Steps ==
  ASSUME [DeploymentNext]_allVars
  PROVE  \/ UNCHANGED <<assistantVars, hostedVars>>
         \/ AssistantNext /\ UNCHANGED hostedVars
         \/ /\ \E c \in Calls, tool \in Called : Begin(c, Local, tool)
            /\ UNCHANGED hostedVars
         \/ HostedNext /\ UNCHANGED hosted
BY DEF DeploymentNext, allVars, SetupSteps, LocalSteps, HostedSteps, BudgetSteps

\* An instance begins with a call: the owner is asked exactly where it says so.
Begins(c, i, tool, pc) ==
  call' = [call EXCEPT ![c] = [@ EXCEPT !.tool = tool, !.pc = pc, !.inst = i,
                                        !.key = live[i], !.held = (pc = "signing")]]

Began(c, i, tool) ==
  \E pc \in Beginnings :
    /\ Begins(c, i, tool, pc) /\ (pc \in {"unlocking", "signing"} => ~hosted)
    /\ \/ pc \in {"unlocking", "sealing"} /\ Ask(c)
       \/ pc \notin {"unlocking", "sealing"} /\ UNCHANGED consoleVars

LEMMA StartsBegin ==
  ASSUME NEW c, NEW i, NEW tool, Starts(c, i, tool)
  PROVE  Began(c, i, tool) /\ tool \in Called
<1>1. /\ First(tool) \in Beginnings \ {"sealing"}
      /\ First(tool) \in {"unlocking", "signing"} => ~hosted
  BY DEF First, Beginnings, NeedsVault
<1>2. tool \in Called
  BY DEF Starts
<1>3. \/ /\ Begins(c, i, tool, First(tool))
         /\ IF First(tool) = "unlocking" THEN Ask(c) ELSE UNCHANGED consoleVars
      \/ Begins(c, i, tool, "sealing") /\ Ask(c)
  BY DEF Starts, Begins
<1>4. CASE Begins(c, i, tool, "sealing") /\ Ask(c)
  BY <1>2, <1>4 DEF Began, Beginnings
<1>5. CASE /\ Begins(c, i, tool, First(tool))
           /\ IF First(tool) = "unlocking" THEN Ask(c) ELSE UNCHANGED consoleVars
  <2>1. PICK pc \in Beginnings \ {"sealing"} :
          /\ Begins(c, i, tool, pc) /\ (pc \in {"unlocking", "signing"} => ~hosted)
          /\ IF pc = "unlocking" THEN Ask(c) ELSE UNCHANGED consoleVars
    BY <1>1, <1>5
  <2> QED
    BY <1>2, <2>1 DEF Began, Beginnings
<1> QED
  BY <1>3, <1>4, <1>5

---------------------------------------------------------------------------
(* How a call moves on                                                     *)

\* One call becomes another record; the others stay as they are.
Becomes(c, tool, pc, inst, key) ==
  /\ call' \in [Calls -> CallRecords]
  /\ call'[c].tool = tool /\ call'[c].pc = pc /\ call'[c].inst = inst /\ call'[c].key = key
  /\ \A d \in Calls \ {c} : call'[d] = call[d]

LEMMA Going ==
  ASSUME TypeInv, NEW c \in Calls, NEW pc \in PCs, To(c, pc)
  PROVE  /\ Becomes(c, call[c].tool, pc, call[c].inst, call[c].key)
         /\ (call'[c].held <=> call[c].held) /\ (call'[c].late <=> call[c].late)
<1> DEFINE r == [call[c] EXCEPT !.pc = pc]
<1>1. call[c] \in CallRecords
  BY DEF TypeInv
<1>2. /\ r \in CallRecords
      /\ r.tool = call[c].tool /\ r.pc = pc /\ r.inst = call[c].inst /\ r.key = call[c].key
  BY <1>1 DEF CallRecords
<1>3. (r.held <=> call[c].held) /\ (r.late <=> call[c].late)
  BY <1>1 DEF CallRecords
<1>4. call' = [call EXCEPT ![c] = r]
  BY DEF To
<1> HIDE DEF r
<1> QED
  BY <1>2, <1>3, <1>4 DEF TypeInv, Becomes

LEMMA Holding ==
  ASSUME TypeInv, NEW c \in Calls, call' = [call EXCEPT ![c].pc = "signing", ![c].held = TRUE]
  PROVE  /\ Becomes(c, call[c].tool, "signing", call[c].inst, call[c].key)
         /\ (call'[c].held <=> TRUE) /\ (call'[c].late <=> call[c].late)
<1> DEFINE r == [call[c] EXCEPT !.pc = "signing", !.held = TRUE]
<1>1. call[c] \in CallRecords
  BY DEF TypeInv
<1>2. /\ r \in CallRecords
      /\ r.tool = call[c].tool /\ r.pc = "signing" /\ r.inst = call[c].inst /\ r.key = call[c].key
  BY <1>1 DEF CallRecords, PCs, Beginnings
<1>3. (r.held <=> TRUE) /\ (r.late <=> call[c].late)
  BY <1>1 DEF CallRecords
<1>4. call' = [call EXCEPT ![c] = r]
  BY DEF TypeInv
<1> HIDE DEF r
<1> QED
  BY <1>2, <1>3, <1>4, ZenonT(40) DEF TypeInv, Becomes

LEMMA Opening ==
  ASSUME TypeInv, NEW c \in Calls, NEW k \in Keys,
         call' = [call EXCEPT ![c].pc = "signed", ![c].key = k]
  PROVE  /\ Becomes(c, call[c].tool, "signed", call[c].inst, k)
         /\ (call'[c].held <=> call[c].held) /\ (call'[c].late <=> call[c].late)
<1> DEFINE r == [call[c] EXCEPT !.pc = "signed", !.key = k]
<1>1. call[c] \in CallRecords
  BY DEF TypeInv
<1>2. /\ r \in CallRecords
      /\ r.tool = call[c].tool /\ r.pc = "signed" /\ r.inst = call[c].inst /\ r.key = k
  BY <1>1 DEF CallRecords, PCs
<1>3. (r.held <=> call[c].held) /\ (r.late <=> call[c].late)
  BY <1>1 DEF CallRecords
<1>4. call' = [call EXCEPT ![c] = r]
  BY DEF TypeInv
<1> HIDE DEF r
<1> QED
  BY <1>2, <1>3, <1>4, ZenonT(40) DEF TypeInv, Becomes

LEMMA Routing ==
  ASSUME TypeInv, NEW c \in Calls, NEW i \in Instances, Routes(c, i)
  PROVE  /\ Becomes(c, call[c].tool, "routed", i, call[c].key)
         /\ (call'[c].held <=> call[c].held) /\ (call'[c].late <=> call[c].late)
<1> DEFINE r == [call[c] EXCEPT !.pc = "routed", !.inst = i]
<1>1. call[c] \in CallRecords
  BY DEF TypeInv
<1>2. /\ r \in CallRecords
      /\ r.tool = call[c].tool /\ r.pc = "routed" /\ r.inst = i /\ r.key = call[c].key
  BY <1>1 DEF CallRecords, PCs
<1>3. (r.held <=> call[c].held) /\ (r.late <=> call[c].late)
  BY <1>1 DEF CallRecords
<1>4. call' = [call EXCEPT ![c] = r]
  BY DEF TypeInv, Routes
<1> HIDE DEF r
<1> QED
  BY <1>2, <1>3, <1>4 DEF TypeInv, Becomes

LEMMA Beginning ==
  ASSUME TypeInv, NEW c \in Calls, NEW i \in Instances, NEW tool \in Tools, NEW pc \in Beginnings,
         Begins(c, i, tool, pc)
  PROVE  /\ Becomes(c, tool, pc, i, live[i])
         /\ (call'[c].held <=> pc = "signing") /\ (call'[c].late <=> call[c].late)
<1> DEFINE r == [call[c] EXCEPT !.tool = tool, !.pc = pc, !.inst = i, !.key = live[i],
                                  !.held = (pc = "signing")]
<1>1. call[c] \in CallRecords
  BY DEF TypeInv
<1>2. /\ r \in CallRecords
      /\ r.tool = tool /\ r.pc = pc /\ r.inst = i /\ r.key = live[i]
  BY <1>1 DEF CallRecords, PCs, TypeInv
<1>3. (r.held <=> pc = "signing") /\ (r.late <=> call[c].late)
  BY <1>1 DEF CallRecords
<1>4. call' = [call EXCEPT ![c] = r]
  BY DEF Begins
<1> HIDE DEF r
<1> QED
  BY <1>2, <1>3, <1>4 DEF TypeInv, Becomes

LEMMA Requesting ==
  ASSUME TypeInv, NEW c \in Calls, NEW tool \in Tools \cup {"prepare", "adopt"}, NEW k \in Keys,
         NEW pc \in Unrouted, Requested(c, tool, k, pc)
  PROVE  /\ Becomes(c, tool, pc, call[c].inst, k)
         /\ (call'[c].held <=> call[c].held) /\ (call'[c].late <=> chain[k] = "closed")
<1> DEFINE r == [call[c] EXCEPT !.tool = tool, !.key = k, !.pc = pc, !.late = (chain[k] = "closed")]
<1>1. call[c] \in CallRecords
  BY DEF TypeInv
<1>2. /\ r \in CallRecords
      /\ r.tool = tool /\ r.pc = pc /\ r.inst = call[c].inst /\ r.key = k
  BY <1>1, ZenonT(40) DEF CallRecords, PCs
<1>3. (r.held <=> call[c].held) /\ (r.late <=> chain[k] = "closed")
  BY <1>1 DEF CallRecords
<1>4. call' = [call EXCEPT ![c] = r]
  BY DEF Requested
<1> HIDE DEF r
<1> QED
  BY <1>2, <1>3, <1>4 DEF TypeInv, Becomes

---------------------------------------------------------------------------
(* Types                                                                   *)

LEMMA TypeInit ==
  ASSUME DeploymentInit
  PROVE  TypeInv
<1>1. /\ chain \in [Keys -> {"unopened", "open", "closed"}]
      /\ attached \in [Keys -> Instances \cup {None}]
  BY DEF DeploymentInit, AssistantInit, HostedInit
<1>2. live \in [Instances -> Keys \cup {None}]
  BY DEF DeploymentInit, Opened
<1>3. call \in [Calls -> CallRecords] /\ \A c \in Calls : call[c].pc \in Unrouted \ Requests
  BY DEF DeploymentInit, AssistantInit, NoCall, CallRecords, Unrouted, Requests, PCs
<1>4. IsFiniteSet(refs)
  <2>1. PICK r : EarlierRefs({Earlier}) = {r}
    BY DEF EarlierRefs
  <2>2. IsFiniteSet({r}) /\ IsFiniteSet({})
    BY FS_EmptySet, FS_Singleton
  <2>3. refs = {} \/ refs = EarlierRefs({Earlier})
    BY DEF DeploymentInit
  <2> QED
    BY <2>1, <2>2, <2>3
<1>5. \A i \in Instances, p \in Prefixes : Cardinality({r \in refs : r.inst = i /\ r.id.prefix = p}) \in Nat
  BY <1>4, FS_Subset, FS_CardinalityType
<1> QED
  BY <1>1, <1>2, <1>3, <1>5 DEF TypeInv, DeploymentInit

\* A call that has become something keeps its instance, unless it is with none.
LEMMA BecomingKeepsTypes ==
  ASSUME TypeInv, NEW c \in Calls, NEW tool, NEW pc, NEW inst, NEW key,
         Becomes(c, tool, pc, inst, key), pc \in Unrouted \/ inst \in Instances,
         pc \in Requests => key \in Keys,
         chain' \in [Keys -> {"unopened", "open", "closed"}],
         live' \in [Instances -> Keys \cup {None}],
         attached' \in [Keys -> Instances \cup {None}],
         counts' \in [Instances -> [Prefixes -> Nat]]
  PROVE  TypeInv'
BY DEF TypeInv, Becomes

\* An instance that begins with a call, whichever server it runs in.
LEMMA BeganKeepsTypes ==
  ASSUME TypeInv, NEW c \in Calls, NEW i \in Instances, NEW tool \in Called, Began(c, i, tool),
         UNCHANGED <<chain, toolVars, attached>>
  PROVE  TypeInv'
<1>1. tool \in Tools
  BY CalledAssumption
<1>2. PICK pc \in Beginnings : Begins(c, i, tool, pc)
  BY DEF Began
<1>3. Becomes(c, tool, pc, i, live[i])
  BY <1>1, <1>2, Beginning
<1> QED
  BY <1>2, <1>3, BecomingKeepsTypes DEF TypeInv, toolVars, Beginnings, Requests

\* What a reading, a deposit or a send hands out.
LEMMA MintsKeepTypes ==
  ASSUME TypeInv, NEW c \in Calls, NEW prefixes, call[c].inst \in Instances, Mints(c, prefixes)
  PROVE  counts' \in [Instances -> [Prefixes -> Nat]]
BY DEF Mints, TypeInv

LEMMA GoesKeepsTypes ==
  ASSUME TypeInv, NEW c \in Calls, Goes(c), UNCHANGED attached
  PROVE  TypeInv'
<1>1. ASSUME NEW pc \in PCs \ Requests, To(c, pc), call[c].inst \in Instances,
             chain' \in [Keys -> {"unopened", "open", "closed"}],
             live' \in [Instances -> Keys \cup {None}],
             counts' \in [Instances -> [Prefixes -> Nat]]
      PROVE  TypeInv'
  BY <1>1, Going, BecomingKeepsTypes DEF TypeInv
<1>2. call[c].inst \in Instances
  BY DEF Goes, Unlocked, Sign, SignFails, Lock, Read, Reveal, Answered, KeySends, Deposit, Push,
         Show, Return, CallFails, Close, Revoked, TypeInv, Unrouted
<1>3. CASE Unlocked(c)
  <2>1. call' = [call EXCEPT ![c].pc = "signing", ![c].held = TRUE] \/ To(c, "failed")
    BY <1>3 DEF Unlocked
  <2> QED
    BY <1>1, <1>2, <1>3, <2>1, Holding, BecomingKeepsTypes DEF Unlocked, TypeInv, PCs, Unrouted, Requests
<1>4. CASE Sign(c)
  <2>1. chain' \in [Keys -> {"unopened", "open", "closed"}] /\ UNCHANGED <<live, counts>>
    BY <1>4 DEF Sign, TypeInv, toolVars
  <2>2. \/ \E k \in Keys : call' = [call EXCEPT ![c].pc = "signed", ![c].key = k]
        \/ To(c, "signed")
    BY <1>4 DEF Sign
  <2>3. CASE To(c, "signed")
    BY <1>1, <1>2, <2>1, <2>3 DEF TypeInv, PCs, Requests
  <2>4. ASSUME NEW k \in Keys, call' = [call EXCEPT ![c].pc = "signed", ![c].key = k]
        PROVE  TypeInv'
    BY <1>2, <2>1, <2>4, Opening, BecomingKeepsTypes DEF TypeInv, Requests
  <2> QED
    BY <2>2, <2>3, <2>4
<1>5. CASE Lock(c)
  <2>1. live' \in [Instances -> Keys \cup {None}] /\ UNCHANGED <<chain, counts>>
    BY <1>5 DEF Lock, TypeInv, CallRecords
  <2>2. To(c, "pushing") \/ To(c, "done")
    BY <1>5 DEF Lock
  <2> QED
    BY <1>1, <1>2, <2>1, <2>2 DEF TypeInv, PCs, Unrouted, Requests, Beginnings
<1>6. CASE Read(c) \/ Deposit(c) \/ Return(c)
  <2>1. counts' \in [Instances -> [Prefixes -> Nat]] /\ UNCHANGED <<chain, live>>
    BY <1>2, <1>6, MintsKeepTypes DEF Read, Deposit, Return, TypeInv
  <2>2. \E pc \in PCs \ Requests : To(c, pc)
    BY <1>6 DEF Read, Deposit, Return, PCs, Unrouted, Requests
  <2> QED
    BY <1>1, <1>2, <2>1, <2>2 DEF TypeInv
<1>7. CASE Close(c) \/ Revoked(c)
  <2>1. /\ chain' \in [Keys -> {"unopened", "open", "closed"}]
        /\ live' \in [Instances -> Keys \cup {None}] /\ UNCHANGED counts
    BY <1>7 DEF Close, Revoked, TypeInv, toolVars
  <2>2. \E pc \in PCs \ Requests : To(c, pc)
    BY <1>7 DEF Close, Revoked, PCs, Unrouted, Requests
  <2> QED
    BY <1>1, <1>2, <2>1, <2>2 DEF TypeInv
<1>8. CASE SignFails(c) \/ Reveal(c) \/ Answered(c) \/ KeySends(c) \/ Push(c) \/ Show(c) \/ CallFails(c)
  <2>1. UNCHANGED <<chain, live, counts>>
    BY <1>8 DEF SignFails, Reveal, Answered, KeySends, Push, Show, CallFails, toolVars
  <2>2. \E pc \in PCs \ Requests : To(c, pc)
    BY <1>8 DEF SignFails, Reveal, Answered, KeySends, Push, Show, CallFails, PCs, Unrouted, Requests, Beginnings
  <2> QED
    BY <1>1, <1>2, <2>1, <2>2 DEF TypeInv
<1> QED
  BY <1>3, <1>4, <1>5, <1>6, <1>7, <1>8 DEF Goes

LEMMA LocalNextKeepsTypes ==
  ASSUME TypeInv, AssistantNext, UNCHANGED hostedVars
  PROVE  TypeInv'
<1>1. UNCHANGED attached
  BY DEF hostedVars, serverVars
<1>2. CASE OwnerAnswers
  BY <1>1, <1>2 DEF OwnerAnswers, TypeInv, toolVars
<1>3. CASE \E k \in Keys : OwnerCloses(k)
  BY <1>1, <1>3 DEF OwnerCloses, TypeInv, toolVars
<1> QED
  BY <1>1, <1>2, <1>3, GoesKeepsTypes DEF AssistantNext

LEMMA RequestKeepsTypes ==
  ASSUME TypeInv, NEW c \in Calls, NEW tool \in Tools \cup {"prepare", "adopt"}, NEW k \in Keys,
         NEW pc \in Unrouted, Requested(c, tool, k, pc), UNCHANGED <<chain, live, attached, counts>>
  PROVE  TypeInv'
<1>1. Becomes(c, tool, pc, call[c].inst, k)
  BY Requesting
<1> QED
  BY <1>1, BecomingKeepsTypes DEF TypeInv

LEMMA ServerKeepsTypes ==
  ASSUME TypeInv, NEW c \in Calls, ServerSteps(c), ToolsRest, UNCHANGED chain
  PROVE  TypeInv'
<1>1. counts' \in [Instances -> [Prefixes -> Nat]] /\ chain' \in [Keys -> {"unopened", "open", "closed"}]
  BY DEF ToolsRest, TypeInv
<1>2. ASSUME NEW k \in Keys, Prepare(c, k) \/ Adopt(c, k) \/ \E tool \in Called : Mcp(c, k, tool),
             UNCHANGED live
      PROVE  TypeInv'
  <2>1. UNCHANGED <<attached, counts>>
    BY <1>2 DEF Prepare, Adopt, Mcp, serverVars, ToolsRest
  <2>2. \E tool \in Tools \cup {"prepare", "adopt"}, pc \in Unrouted : Requested(c, tool, k, pc)
    BY <1>2, CalledAssumption DEF Prepare, Adopt, Mcp, Unrouted
  <2> QED
    BY <1>2, <2>1, <2>2, RequestKeepsTypes
<1>3. CASE (Seal(c) \/ PrepareFails(c) \/ Adopted(c) \/ Check(c) \/ Build(c)) /\ UNCHANGED live
  <2>1. attached' \in [Keys -> Instances \cup {None}]
    BY <1>3 DEF Seal, PrepareFails, Adopted, Check, Build, TypeInv, serverVars
  <2>2. PICK pc \in Unrouted : To(c, pc)
    BY <1>3 DEF Seal, PrepareFails, Adopted, Check, Build, Unrouted
  <2>3. Becomes(c, call[c].tool, pc, call[c].inst, call[c].key)
    BY <2>2, Going DEF PCs
  <2>4. pc \in Requests => call[c].key \in Keys
    BY <1>3, <2>2 DEF Seal, PrepareFails, Adopted, Check, Build, TypeInv, Requests
  <2> QED
    BY <1>1, <1>3, <2>1, <2>2, <2>3, <2>4, BecomingKeepsTypes DEF TypeInv
<1>4. CASE Serve(c) /\ UNCHANGED live
  <2>1. attached[call[c].key] \in Instances /\ UNCHANGED attached /\ call[c].key \in Keys
    BY <1>4 DEF Serve, TypeInv, Requests, serverVars
  <2>2. Becomes(c, call[c].tool, "routed", attached[call[c].key], call[c].key)
    BY <1>4, <2>1, Routing DEF Serve
  <2> QED
    BY <1>1, <1>4, <2>1, <2>2, BecomingKeepsTypes DEF TypeInv
<1>5. ASSUME NEW i \in Instances, Built(c, i)
      PROVE  TypeInv'
  <2>1. call[c].key \in Keys
    BY <1>5 DEF Built, TypeInv, Requests
  <2>2. live' \in [Instances -> Keys \cup {None}] /\ attached' \in [Keys -> Instances \cup {None}]
    <3>1. live \in [Instances -> Keys \cup {None}] /\ attached \in [Keys -> Instances \cup {None}]
      BY DEF TypeInv
    <3>2. \/ /\ live' = [live EXCEPT ![i] = call[c].key]
             /\ attached' = [attached EXCEPT ![call[c].key] = i]
          \/ UNCHANGED live /\ UNCHANGED attached
      BY <1>5 DEF Built
    <3> QED
      BY <2>1, <3>1, <3>2
  <2>3. CASE Routes(c, i)
    BY <1>1, <2>1, <2>2, <2>3, Routing, BecomingKeepsTypes
  <2>4. CASE To(c, "failed")
    BY <1>1, <2>2, <2>4, Going, BecomingKeepsTypes DEF PCs, Unrouted, Requests
  <2> QED
    BY <1>5, <2>3, <2>4 DEF Built
<1> QED
  BY <1>2, <1>3, <1>4, <1>5 DEF ServerSteps

LEMMA RunKeepsTypes ==
  ASSUME TypeInv, NEW c \in Calls, Run(c), UNCHANGED <<chain, toolVars>>
  PROVE  TypeInv'
<1>1. call[c].inst \in Instances /\ UNCHANGED attached
  BY DEF Run, TypeInv, Unrouted, serverVars
<1>2. CASE To(c, "failed")
  BY <1>1, <1>2, Going, BecomingKeepsTypes DEF TypeInv, toolVars, PCs, Unrouted, Requests
<1>3. CASE Starts(c, call[c].inst, call[c].tool)
  BY <1>1, <1>3, StartsBegin, BeganKeepsTypes
<1> QED
  BY <1>2, <1>3 DEF Run

\* Nothing is at work after a restart.
LEMMA Restarting ==
  ASSUME TypeInv, Restart
  PROVE  /\ call' \in [Calls -> CallRecords]
         /\ \A c \in Calls :
              /\ call[c].pc \in {"idle", "done"} => call'[c] = call[c]
              /\ call[c].pc \notin {"idle", "done"} => call'[c].pc = "failed"
              /\ call'[c].tool = call[c].tool /\ call'[c].key = call[c].key
              /\ call'[c].inst = call[c].inst
              /\ (call'[c].held <=> call[c].held) /\ (call'[c].late <=> call[c].late)
<1> DEFINE r(c) == [call[c] EXCEPT !.pc = "failed"]
<1>1. ASSUME NEW c \in Calls
      PROVE  /\ r(c) \in CallRecords /\ r(c).pc = "failed" /\ r(c).tool = call[c].tool
             /\ r(c).key = call[c].key /\ r(c).inst = call[c].inst
             /\ (r(c).held <=> call[c].held) /\ (r(c).late <=> call[c].late)
  <2>1. call[c] \in CallRecords
    BY DEF TypeInv
  <2> QED
    BY <2>1 DEF CallRecords, PCs, Unrouted
<1>2. call' = [c \in Calls |-> IF call[c].pc \in {"idle", "done"} THEN call[c] ELSE r(c)]
  BY DEF Restart
<1> HIDE DEF r
<1> QED
  BY <1>1, <1>2 DEF TypeInv

LEMMA RestartKeepsTypes ==
  ASSUME TypeInv, Restart, ToolsRest, UNCHANGED chain
  PROVE  TypeInv'
<1>1. live' \in [Instances -> Keys \cup {None}] /\ attached' \in [Keys -> Instances \cup {None}]
  BY DEF Restart
<1>2. \A c \in Calls : call'[c].pc \in Unrouted \ Requests
  BY Restarting DEF Unrouted, Requests
<1> QED
  BY <1>1, <1>2, Restarting DEF TypeInv, ToolsRest

\* What the page does by itself.
PageAlone ==
  \/ PageSends \/ PageKeeps \/ PageFails \/ PageReloads \/ PageRevokes \/ PageDrops
  \/ \E f \in fetches : StatusAnswers(f) \/ PageRefreshes(f) \/ PageLoses(f)

LEMMA PageAloneKeeps ==
  ASSUME PageAlone
  PROVE  UNCHANGED <<call, serverVars>>
BY DEF PageAlone, PageSends, PageKeeps, Kept, PageFails, PageReloads, PageRevokes, PageDrops, StatusAnswers,
       PageRefreshes, PageLoses

\* What the page does to the server is a prepare or an adopt.
PageSteps ==
  \/ \E c \in Calls : PageAdopts(c) \/ \E k \in Keys : PageOpens(c, k)
  \/ PageAlone

LEMMA PageKeepsTypes ==
  ASSUME TypeInv, PageType, PageSteps, ToolsRest, UNCHANGED <<chain, live>>
  PROVE  TypeInv'
<1>1. CASE UNCHANGED <<call, serverVars>>
  BY <1>1 DEF TypeInv, ToolsRest, serverVars
<1>2. ASSUME NEW c \in Calls, NEW k \in Keys, Adopt(c, k) \/ Prepare(c, k)
      PROVE  TypeInv'
  <2>1. UNCHANGED <<attached, counts>>
    BY <1>2 DEF Prepare, Adopt, ToolsRest
  <2>2. \E tool \in {"prepare", "adopt"}, pc \in Unrouted : Requested(c, tool, k, pc)
    BY <1>2 DEF Prepare, Adopt, Unrouted
  <2> QED
    BY <2>1, <2>2, RequestKeepsTypes
<1>3. ASSUME NEW c \in Calls, PageAdopts(c)
      PROVE  TypeInv'
  <2>1. page.key \in Keys
    BY <1>3 DEF PageAdopts, PageType
  <2> QED
    BY <1>2, <1>3, <2>1 DEF PageAdopts
<1>4. ASSUME NEW c \in Calls, NEW k \in Keys, PageOpens(c, k)
      PROVE  TypeInv'
  BY <1>2, <1>4 DEF PageOpens
<1>5. CASE PageAlone
  BY <1>1, <1>5, PageAloneKeeps
<1> QED
  BY <1>3, <1>4, <1>5 DEF PageSteps

LEMMA MinesKeepsTypes ==
  ASSUME TypeInv, NEW tx \in wallet, Mines(tx), ToolsRest, UNCHANGED <<live, serverVars, call>>
  PROVE  TypeInv'
<1>1. chain' \in [Keys -> {"unopened", "open", "closed"}]
  BY DEF Mines, TypeInv
<1> QED
  BY <1>1 DEF TypeInv, ToolsRest, serverVars

LEMMA HostedNextKeepsTypes ==
  ASSUME TypeInv, PageType, HostedNext
  PROVE  TypeInv'
<1>1. CASE \E c \in Calls : ServerSteps(c) /\ ToolsRest /\ UNCHANGED <<chain, pageVars, restarts>>
  BY <1>1, ServerKeepsTypes
<1>2. CASE \E c \in Calls : Run(c) /\ UNCHANGED <<chain, toolVars, pageVars, restarts>>
  BY <1>2, RunKeepsTypes
<1>3. CASE Restart /\ ToolsRest /\ UNCHANGED <<chain, pageVars>>
  BY <1>3, RestartKeepsTypes
<1>4. CASE PageSteps /\ ToolsRest /\ UNCHANGED <<chain, live, restarts>>
  BY <1>4, PageKeepsTypes
<1>5. CASE (\E tx \in wallet : Mines(tx)) /\ ToolsRest /\ UNCHANGED <<live, serverVars, call, restarts>>
  BY <1>5, MinesKeepsTypes
<1> QED
  BY <1>1, <1>2, <1>3, <1>4, <1>5 DEF HostedNext, PageSteps, PageAlone

LEMMA PageTypeStep ==
  ASSUME PageType, HostedNext \/ UNCHANGED page
  PROVE  PageType'
<1>1. CASE UNCHANGED page
  BY <1>1 DEF PageType
<1>2. CASE PageSteps
  BY <1>2 DEF PageSteps, PageAlone, PageAdopts, PageOpens, PageSends, PageKeeps, Kept, PageFails,
             PageRefreshes, PageLoses, StatusAnswers, Ended, PageReloads, PageRevokes, PageDrops, PageType,
             PageAt, Leaves, IdlePage
<1>3. HostedNext => PageSteps \/ UNCHANGED page
  BY DEF HostedNext, PageSteps, PageAlone, pageVars, Mines
<1> QED
  BY <1>1, <1>2, <1>3

LEMMA TypeStep ==
  ASSUME TypeInv, PageType, [DeploymentNext]_allVars
  PROVE  TypeInv' /\ PageType'
<1>1. CASE UNCHANGED <<assistantVars, hostedVars>>
  BY <1>1, PageTypeStep DEF TypeInv, assistantVars, toolVars, hostedVars, serverVars, pageVars
<1>2. CASE AssistantNext /\ UNCHANGED hostedVars
  BY <1>2, LocalNextKeepsTypes, PageTypeStep DEF hostedVars, pageVars
<1>3. ASSUME NEW c \in Calls, NEW tool \in Called, Begin(c, Local, tool), UNCHANGED hostedVars
      PROVE  TypeInv' /\ PageType'
  <2>1. Began(c, Local, tool)
    BY <1>3, StartsBegin DEF Begin
  <2> QED
    BY <1>3, <2>1, LocalInstance, BeganKeepsTypes, PageTypeStep
      DEF Begin, hostedVars, serverVars, pageVars
<1>4. CASE HostedNext
  BY <1>4, HostedNextKeepsTypes, PageTypeStep
<1> QED
  BY <1>1, <1>2, <1>3, <1>4, Steps

LEMMA AlwaysTyped == DeploymentSpec => [](TypeInv /\ PageType)
<1>1. DeploymentInit => TypeInv /\ PageType
  BY TypeInit DEF DeploymentInit, HostedInit, IdlePage, PageType
<1> QED
  BY <1>1, TypeStep, PTL DEF DeploymentSpec

---------------------------------------------------------------------------
(* What any step may do to any call                                         *)

\* A call under way stays the call it was, and one that ended has ended.
KeepsIdentity(c) ==
  /\ call[c].pc # "idle" => call'[c].tool = call[c].tool /\ (call'[c].late <=> call[c].late)
  /\ call[c].pc \notin {"idle", "signing", "routed"} => call'[c].key = call[c].key
  /\ call[c].pc \in {"done", "failed"} => call'[c].pc = call[c].pc
  /\ call[c].pc \in {"signing", "signed", "failed"} => (call'[c].held <=> call[c].held)

\* What one call may come to, by the chain it is checked against.
KeepsOrder(c) ==
  /\ call'[c].pc \in Unasked => call[c].pc \in Unasked
  /\ call[c].pc \in {"signing", "signed"} =>
       call'[c].pc \in {"signing", "signed", "failed"} \/ ~cached'
  /\ call[c].pc = "adopting" =>
       \/ call'[c].pc \in {"adopting", "failed"}
       \/ call'[c].pc = "done" /\ chain[call[c].key] = "open"
  /\ call[c].pc = "checking" => call'[c].pc \in {"checking", "failed"} \/ chain[call[c].key] = "open"

\* A call begins as a request with its key, or in the one process that is there.
BeginsWell(c) ==
  call[c].pc = "idle" =>
    \/ call'[c] = call[c]
    \/ /\ (call'[c].tool = "adopt" /\ call'[c].pc = "adopting") \/ (call'[c].tool = "prepare" /\ call'[c].pc = "preparing" /\ ~call'[c].late)
           \/ (call'[c].tool \in Tools /\ call'[c].pc = "checking")
       /\ call'[c].key \in Keys /\ (call'[c].late <=> chain[call'[c].key] = "closed")
    \/ /\ call'[c].tool \in Tools /\ call'[c].pc \in Beginnings
       /\ (call'[c].late <=> call[c].late)

GoesWell(c) ==
  /\ KeepsIdentity(c) /\ KeepsOrder(c) /\ BeginsWell(c)
  /\ call[c].pc # "idle" => call'[c].pc \notin {"idle", "preparing", "checking"}
                              \/ call'[c].pc = call[c].pc

LEMMA Staying ==
  ASSUME NEW c, call'[c] = call[c]
  PROVE  GoesWell(c)
BY DEF GoesWell, KeepsIdentity, KeepsOrder, BeginsWell

\* The one call a step moves decides for all.
LEMMA OneGoes ==
  ASSUME NEW c \in Calls, NEW tool, NEW pc, NEW inst, NEW key, Becomes(c, tool, pc, inst, key),
         GoesWell(c)
  PROVE  \A d \in Calls : GoesWell(d)
BY Staying DEF Becomes

LEMMA GoingWell ==
  ASSUME TypeInv, NEW c \in Calls, NEW pc \in PCs \ {"idle", "preparing", "checking"}, To(c, pc),
         call[c].pc \notin {"idle", "done", "failed"},
         pc \in Unasked => call[c].pc \in Unasked,
         call[c].pc \in {"signing", "signed"} => pc \in {"signing", "signed", "failed"} \/ ~cached',
         call[c].pc = "adopting" => \/ pc \in {"adopting", "failed"}
                                    \/ pc = "done" /\ chain[call[c].key] = "open",
         call[c].pc = "checking" => pc = "failed" \/ chain[call[c].key] = "open"
  PROVE  \A d \in Calls : GoesWell(d)
<1>1. /\ Becomes(c, call[c].tool, pc, call[c].inst, call[c].key)
      /\ (call'[c].held <=> call[c].held) /\ (call'[c].late <=> call[c].late)
  BY Going
<1>2. KeepsIdentity(c)
  BY <1>1 DEF KeepsIdentity, Becomes
<1>3. KeepsOrder(c)
  BY <1>1 DEF KeepsOrder, Becomes
<1>4. BeginsWell(c)
  BY DEF BeginsWell
<1>5. call'[c].pc \notin {"idle", "preparing", "checking"}
  BY <1>1 DEF Becomes
<1> QED
  BY <1>1, <1>2, <1>3, <1>4, <1>5, OneGoes DEF GoesWell

LEMMA ToolsGoWell ==
  ASSUME TypeInv, NEW c \in Calls, Goes(c)
  PROVE  \A d \in Calls : GoesWell(d)
<1> USE DEF PCs, Unrouted, Requests, Beginnings, Unasked
<1>1. CASE Unlocked(c)
  <2>1. CASE To(c, "failed")
    BY <1>1, <2>1, GoingWell DEF Unlocked
  <2>2. CASE call' = [call EXCEPT ![c].pc = "signing", ![c].held = TRUE]
    <3>1. /\ Becomes(c, call[c].tool, "signing", call[c].inst, call[c].key)
          /\ (call'[c].late <=> call[c].late)
      BY <2>2, Holding
    <3>2. call[c].pc = "unlocking"
      BY <1>1 DEF Unlocked
    <3>3. KeepsIdentity(c) /\ KeepsOrder(c) /\ BeginsWell(c)
      BY <3>1, <3>2 DEF KeepsIdentity, KeepsOrder, BeginsWell, Becomes
    <3>4. GoesWell(c)
      BY <3>1, <3>3 DEF GoesWell, Becomes
    <3> QED
      BY <3>1, <3>4, OneGoes
  <2> QED
    BY <1>1, <2>1, <2>2 DEF Unlocked
<1>2. CASE Sign(c)
  <2>1. call[c].pc = "signing"
    BY <1>2 DEF Sign
  <2>2. CASE To(c, "signed")
    BY <2>1, <2>2, GoingWell
  <2>3. ASSUME NEW k \in Keys, call' = [call EXCEPT ![c].pc = "signed", ![c].key = k]
        PROVE  \A d \in Calls : GoesWell(d)
    <3>1. /\ Becomes(c, call[c].tool, "signed", call[c].inst, k)
          /\ (call'[c].held <=> call[c].held) /\ (call'[c].late <=> call[c].late)
      BY <2>3, Opening
    <3>2. KeepsIdentity(c) /\ KeepsOrder(c) /\ BeginsWell(c)
      BY <2>1, <3>1 DEF KeepsIdentity, KeepsOrder, BeginsWell, Becomes
    <3>3. GoesWell(c)
      BY <3>1, <3>2 DEF GoesWell, Becomes
    <3> QED
      BY <3>1, <3>3, OneGoes
  <2> QED
    BY <1>2, <2>2, <2>3 DEF Sign
<1>3. CASE Lock(c)
  <2>1. (To(c, "pushing") \/ To(c, "done")) /\ call[c].pc = "signed" /\ ~cached'
    BY <1>3 DEF Lock
  <2> QED
    BY <2>1, GoingWell
<1>4. CASE SignFails(c)
  BY <1>4, GoingWell DEF SignFails
<1>5. CASE Read(c) \/ Reveal(c) \/ Answered(c) \/ KeySends(c) \/ Deposit(c) \/ Push(c) \/ Show(c)
           \/ Return(c) \/ CallFails(c) \/ Close(c) \/ Revoked(c)
  <2>1. call[c].pc \in {"reading", "revealing", "revealed?", "sealing", "sending", "depositing",
                       "pushing", "showing", "pushed", "closing", "closed"}
    BY <1>5 DEF Read, Reveal, Answered, KeySends, Deposit, Push, Show, Return, CallFails, Close, Revoked
  <2>2. PICK pc \in {"done", "revealing", "revealed?", "sending", "pushing", "depositing", "pushed",
                     "showing", "failed", "closed"} :
          To(c, pc) /\ (pc = "revealing" => call[c].pc = "reading")
    BY <1>5 DEF Read, Reveal, Answered, KeySends, Deposit, Push, Show, Return, CallFails, Close, Revoked
  <2> QED
    BY <2>1, <2>2, GoingWell
<1> QED
  BY <1>1, <1>2, <1>3, <1>4, <1>5 DEF Goes

LEMMA BeganGoesWell ==
  ASSUME TypeInv, NEW c \in Calls, NEW i \in Instances, NEW tool \in Called, Began(c, i, tool),
         call[c].pc = "idle" \/ (call[c].pc = "routed" /\ tool = call[c].tool)
  PROVE  \A d \in Calls : GoesWell(d)
<1>1. PICK pc \in Beginnings : Begins(c, i, tool, pc)
  BY DEF Began
<1>2. tool \in Tools
  BY CalledAssumption
<1>3. Becomes(c, tool, pc, i, live[i]) /\ (call'[c].late <=> call[c].late)
  BY <1>1, <1>2, Beginning
<1>4. KeepsIdentity(c)
  BY <1>3 DEF KeepsIdentity, Becomes
<1>5. KeepsOrder(c)
  BY <1>3 DEF KeepsOrder, Becomes, Unasked, Requests, Beginnings
<1>6. BeginsWell(c)
  BY <1>2, <1>3 DEF BeginsWell, Becomes
<1>7. call'[c].pc \notin {"idle", "preparing", "checking"}
  BY <1>3 DEF Becomes, Beginnings
<1> QED
  BY <1>3, <1>4, <1>5, <1>6, <1>7, OneGoes DEF GoesWell

\* A request begins with its key, as late as the chain says.
LEMMA RequestGoesWell ==
  ASSUME TypeInv, NEW c \in Calls, NEW tool \in Tools \cup {"prepare", "adopt"}, NEW k \in Keys, NEW pc,
         Requested(c, tool, k, pc),
         \/ tool = "adopt" /\ pc = "adopting"
         \/ tool = "prepare" /\ pc = "preparing" /\ chain[k] = "unopened"
         \/ tool \in Tools /\ pc = "checking"
  PROVE  \A d \in Calls : GoesWell(d)
<1>1. pc \in Unrouted /\ call[c].pc = "idle"
  BY DEF Unrouted, Requested
<1>2. Becomes(c, tool, pc, call[c].inst, k) /\ (call'[c].late <=> chain[k] = "closed")
  BY <1>1, Requesting
<1>3. KeepsIdentity(c) /\ KeepsOrder(c)
  BY <1>1 DEF KeepsIdentity, KeepsOrder, Unasked
<1>4. BeginsWell(c)
  BY <1>2 DEF BeginsWell, Becomes
<1> QED
  BY <1>1, <1>2, <1>3, <1>4, OneGoes DEF GoesWell

LEMMA ServerGoesWell ==
  ASSUME TypeInv, NEW c \in Calls, ServerSteps(c)
  PROVE  \A d \in Calls : GoesWell(d)
<1> USE DEF PCs, Unrouted, Requests, Unasked
<1>1. ASSUME NEW k \in Keys, Prepare(c, k) \/ Adopt(c, k) \/ \E tool \in Called : Mcp(c, k, tool)
      PROVE  \A d \in Calls : GoesWell(d)
  BY <1>1, CalledAssumption, RequestGoesWell DEF Prepare, Adopt, Mcp
<1>2. CASE Seal(c) \/ PrepareFails(c)
  BY <1>2, GoingWell DEF Seal, PrepareFails
<1>3. CASE Adopted(c)
  BY <1>3, GoingWell DEF Adopted
<1>4. CASE Check(c)
  BY <1>4, GoingWell DEF Check
<1>5. CASE Build(c)
  BY <1>5, GoingWell DEF Build
<1>6. ASSUME NEW i \in Instances, Routes(c, i), call[c].pc \in {"serving", "building"}
      PROVE  \A d \in Calls : GoesWell(d)
  <2>1. /\ Becomes(c, call[c].tool, "routed", i, call[c].key)
        /\ (call'[c].held <=> call[c].held) /\ (call'[c].late <=> call[c].late)
    BY <1>6, Routing
  <2>2. KeepsIdentity(c) /\ KeepsOrder(c) /\ BeginsWell(c)
    BY <1>6, <2>1 DEF KeepsIdentity, KeepsOrder, BeginsWell, Becomes
  <2>3. GoesWell(c)
    BY <2>1, <2>2 DEF GoesWell, Becomes
  <2> QED
    BY <2>1, <2>3, OneGoes
<1>7. CASE Serve(c)
  <2>1. attached[call[c].key] \in Instances
    BY <1>7 DEF Serve, TypeInv
  <2> QED
    BY <1>6, <1>7, <2>1 DEF Serve
<1>8. ASSUME NEW i \in Instances, Built(c, i)
      PROVE  \A d \in Calls : GoesWell(d)
  <2>1. CASE To(c, "failed")
    BY <1>8, <2>1, GoingWell DEF Built
  <2> QED
    BY <1>6, <1>8, <2>1 DEF Built
<1> QED
  BY <1>1, <1>2, <1>3, <1>4, <1>5, <1>7, <1>8 DEF ServerSteps

LEMMA RunGoesWell ==
  ASSUME TypeInv, NEW c \in Calls, Run(c)
  PROVE  \A d \in Calls : GoesWell(d)
<1>1. call[c].pc = "routed" /\ call[c].inst \in Instances
  BY DEF Run, TypeInv, Unrouted
<1>2. CASE To(c, "failed")
  BY <1>1, <1>2, GoingWell DEF PCs, Unrouted, Unasked, Requests
<1>3. CASE Starts(c, call[c].inst, call[c].tool)
  BY <1>1, <1>3, StartsBegin, BeganGoesWell
<1> QED
  BY <1>2, <1>3 DEF Run

LEMMA RestartGoesWell ==
  ASSUME TypeInv, Restart
  PROVE  \A d \in Calls : GoesWell(d)
<1> SUFFICES ASSUME NEW d \in Calls
             PROVE  GoesWell(d)
  OBVIOUS
<1>1. CASE call[d].pc \in {"idle", "done"}
  BY <1>1, Restarting, Staying
<1>2. CASE call[d].pc \notin {"idle", "done"}
  <2>1. /\ call'[d].pc = "failed" /\ call'[d].tool = call[d].tool /\ call'[d].key = call[d].key
        /\ (call'[d].held <=> call[d].held) /\ (call'[d].late <=> call[d].late)
    BY <1>2, Restarting
  <2>2. KeepsIdentity(d) /\ KeepsOrder(d) /\ BeginsWell(d)
    BY <1>2, <2>1 DEF KeepsIdentity, KeepsOrder, BeginsWell, Unasked, Requests
  <2> QED
    BY <2>1, <2>2 DEF GoesWell
<1> QED
  BY <1>1, <1>2

LEMMA PageGoesWell ==
  ASSUME TypeInv, PageType, PageSteps
  PROVE  \A d \in Calls : GoesWell(d)
<1>1. CASE UNCHANGED call
  BY <1>1, Staying
<1>2. ASSUME NEW c \in Calls, NEW k \in Keys, Adopt(c, k) \/ Prepare(c, k)
      PROVE  \A d \in Calls : GoesWell(d)
  BY <1>2, RequestGoesWell DEF Adopt, Prepare
<1>3. ASSUME NEW c \in Calls, PageAdopts(c)
      PROVE  \A d \in Calls : GoesWell(d)
  BY <1>2, <1>3 DEF PageAdopts, PageType
<1>4. ASSUME NEW c \in Calls, NEW k \in Keys, PageOpens(c, k)
      PROVE  \A d \in Calls : GoesWell(d)
  BY <1>2, <1>4 DEF PageOpens
<1>5. CASE PageAlone
  BY <1>1, <1>5, PageAloneKeeps
<1> QED
  BY <1>3, <1>4, <1>5 DEF PageSteps

\* So it is with every step and every call.
LEMMA AllGoWell ==
  ASSUME TypeInv, PageType, [DeploymentNext]_allVars
  PROVE  \A d \in Calls : GoesWell(d)
<1>1. CASE UNCHANGED call
  BY <1>1, Staying
<1>2. CASE AssistantNext
  BY <1>1, <1>2, ToolsGoWell DEF AssistantNext, OwnerAnswers, OwnerCloses
<1>3. ASSUME NEW c \in Calls, NEW tool \in Called, Begin(c, Local, tool)
      PROVE  \A d \in Calls : GoesWell(d)
  <2>1. Began(c, Local, tool) /\ call[c].pc = "idle"
    BY <1>3, StartsBegin DEF Begin
  <2> QED
    BY <2>1, LocalInstance, BeganGoesWell
<1>4. CASE HostedNext
  <2>1. \/ \E c \in Calls : ServerSteps(c) \/ Run(c)
        \/ Restart \/ PageSteps \/ UNCHANGED call
    BY <1>4 DEF HostedNext, PageSteps, PageAlone
  <2> QED
    BY <1>1, <2>1, ServerGoesWell, RunGoesWell, RestartGoesWell, PageGoesWell
<1>5. UNCHANGED <<assistantVars, hostedVars>> => UNCHANGED call
  BY DEF assistantVars
<1> QED
  BY <1>1, <1>2, <1>3, <1>4, <1>5, Steps

---------------------------------------------------------------------------
(* The owner's answers                                                     *)

\* Who is listed waits, and a call that has not asked has no prompt: so no prompt is
\* raised twice, and an old answer is never taken for a new one.
AskInv ==
  /\ prompt \in [Calls -> {"none", "waiting", "approved", "denied"}]
  /\ waiters \subseteq Calls /\ accepted \subseteq Calls
  /\ \A c \in Calls :
       /\ c \in accepted <=> prompt[c] = "approved"
       /\ c \in waiters <=> prompt[c] = "waiting"
       /\ call[c].pc \in Unasked => prompt[c] = "none"

LEMMA QuietKeepsAnswers ==
  ASSUME AskInv, UNCHANGED consoleVars, \A c \in Calls : GoesWell(c)
  PROVE  AskInv'
BY DEF AskInv, consoleVars, GoesWell, KeepsOrder

LEMMA AskKeepsAnswers ==
  ASSUME AskInv, NEW c \in Calls, Ask(c), call[c].pc \in Unasked, call'[c].pc \notin Unasked,
         \A d \in Calls : GoesWell(d)
  PROVE  AskInv'
<1>1. c \notin waiters /\ c \notin accepted
  BY DEF AskInv
<1> QED
  BY <1>1 DEF AskInv, Ask, GoesWell, KeepsOrder

\* Clicks, timers and the shutdown.
LEMMA AnswersKeepAnswers ==
  ASSUME AskInv, OwnerAnswers
  PROVE  AskInv'
<1>0. UNCHANGED call
  BY DEF OwnerAnswers
<1>1. ASSUME NEW c \in Calls, TimeOut(c)
      PROVE  AskInv'
  BY <1>0, <1>1 DEF AskInv, TimeOut, Settled
<1>2. ASSUME NEW c \in Calls, NEW approved \in BOOLEAN, Resolve(c, approved)
      PROVE  AskInv'
  BY <1>0, <1>2 DEF AskInv, Resolve, Settled
<1>3. CASE Stop
  BY <1>0, <1>3 DEF AskInv, Stop, Settled
<1> QED
  BY <1>1, <1>2, <1>3 DEF OwnerAnswers

LEMMA BeganKeepsAnswers ==
  ASSUME TypeInv, AskInv, NEW c \in Calls, NEW i \in Instances, NEW tool \in Called, Began(c, i, tool),
         call[c].pc \in {"idle", "routed"}, \A d \in Calls : GoesWell(d)
  PROVE  AskInv'
<1>1. PICK pc \in Beginnings :
        /\ Begins(c, i, tool, pc)
        /\ \/ pc \in {"unlocking", "sealing"} /\ Ask(c)
           \/ pc \notin {"unlocking", "sealing"} /\ UNCHANGED consoleVars
  BY DEF Began
<1>2. Becomes(c, tool, pc, i, live[i])
  BY <1>1, CalledAssumption, Beginning
<1> QED
  BY <1>1, <1>2, AskKeepsAnswers, QuietKeepsAnswers DEF Becomes, Unasked, Requests

LEMMA AnswersStep ==
  ASSUME TypeInv, PageType, AskInv, [DeploymentNext]_allVars
  PROVE  AskInv'
<1>0. \A d \in Calls : GoesWell(d)
  BY AllGoWell
<1>1. CASE UNCHANGED consoleVars
  BY <1>0, <1>1, QuietKeepsAnswers
<1>2. CASE AssistantNext
  <2>1. ASSUME NEW c \in Calls, Goes(c)
        PROVE  AskInv'
    <3>1. UNCHANGED consoleVars \/ Reveal(c)
      BY <2>1 DEF Goes, Unlocked, Sign, SignFails, Lock, Read, Answered, KeySends, Deposit, Push,
                  Show, Return, CallFails, Close, Revoked
    <3>2. CASE To(c, "revealed?") /\ Ask(c) /\ call[c].pc = "revealing"
      <4>1. call'[c].pc = "revealed?"
        BY <3>2, Going DEF Becomes, PCs
      <4> QED
        BY <1>0, <3>2, <4>1, AskKeepsAnswers DEF Unasked, Requests
    <3> QED
      BY <1>1, <3>1, <3>2 DEF Reveal
  <2> QED
    BY <1>1, <1>2, <2>1, AnswersKeepAnswers DEF AssistantNext, OwnerCloses
<1>3. ASSUME NEW c \in Calls, NEW tool \in Called, Begin(c, Local, tool)
      PROVE  AskInv'
  <2>1. Began(c, Local, tool) /\ call[c].pc = "idle"
    BY <1>3, StartsBegin DEF Begin
  <2> QED
    BY <1>0, <2>1, LocalInstance, BeganKeepsAnswers
<1>4. CASE HostedNext
  <2>1. ASSUME NEW c \in Calls, Run(c)
        PROVE  AskInv'
    <3>1. call[c].pc = "routed" /\ call[c].inst \in Instances
      BY <2>1 DEF Run, TypeInv, Unrouted
    <3>2. CASE Starts(c, call[c].inst, call[c].tool)
      BY <1>0, <3>1, <3>2, StartsBegin, BeganKeepsAnswers
    <3> QED
      BY <1>1, <2>1, <3>2 DEF Run
  <2>2. UNCHANGED consoleVars \/ \E c \in Calls : Run(c)
    BY <1>4 DEF HostedNext, ToolsRest
  <2> QED
    BY <1>1, <2>1, <2>2
<1> QED
  BY <1>1, <1>2, <1>3, <1>4, Steps DEF assistantVars

\* Whatever the clicks, timers, shutdowns and restarts, an approval counts exactly when
\* the page took it: for every number of calls and on every deployment (ask, resolve).
THEOREM ConsoleIsHonest == DeploymentSpec => []AnswersAreHonest
<1>1. DeploymentInit => AskInv
  BY DEF DeploymentInit, AssistantInit, ConsoleInit, AskInv
<1>2. AskInv => AnswersAreHonest
  BY DEF AskInv, AnswersAreHonest
<1> QED
  BY <1>1, <1>2, AnswersStep, AlwaysTyped, PTL DEF DeploymentSpec

---------------------------------------------------------------------------
(* The owner's key                                                         *)

\* A key is kept by a call that obtained it.
LEMMA VaultStep ==
  ASSUME TypeInv, PageType, KeyKeptOnlyByFailure, [DeploymentNext]_allVars
  PROVE  KeyKeptOnlyByFailure'
<1>1. \A d \in Calls : KeepsIdentity(d) /\ KeepsOrder(d)
  BY AllGoWell DEF GoesWell
<1>2. CASE cached' => cached
  BY <1>1, <1>2 DEF KeyKeptOnlyByFailure, KeepsIdentity, KeepsOrder
<1>3. ASSUME NEW c \in Calls, Unlocked(c)
      PROVE  KeyKeptOnlyByFailure'
  <2>1. call' = [call EXCEPT ![c].pc = "signing", ![c].held = TRUE] \/ UNCHANGED cached
    BY <1>3 DEF Unlocked
  <2> QED
    BY <1>2, <2>1, Holding DEF KeyKeptOnlyByFailure, Becomes
<1>4. (cached' => cached) \/ \E c \in Calls : Unlocked(c)
  <2>1. AssistantNext => (cached' => cached) \/ \E c \in Calls : Unlocked(c)
    BY DEF AssistantNext, Goes, Sign, SignFails, Lock, Read, Reveal, Answered, KeySends, Deposit, Push,
           Show, Return, CallFails, Close, Revoked, OwnerAnswers, OwnerCloses, toolVars
  <2>2. HostedNext => UNCHANGED cached
    BY DEF HostedNext, ToolsRest, toolVars
  <2> QED
    BY <2>1, <2>2, Steps DEF Begin, toolVars, assistantVars
<1> QED
  BY <1>2, <1>3, <1>4

\* The decrypted owner's key stays only with a call at work that obtained it, or because
\* one failed with it, for every number of calls (unlock, lock).
THEOREM VaultIsLocked == DeploymentSpec => []KeyKeptOnlyByFailure
<1>1. DeploymentInit => KeyKeptOnlyByFailure
  BY DEF DeploymentInit, AssistantInit, KeyKeptOnlyByFailure
<1> QED
  BY <1>1, VaultStep, AlwaysTyped, PTL DEF DeploymentSpec

---------------------------------------------------------------------------
(* References                                                              *)

\* Every number handed out has been counted.
RefInv ==
  /\ \A r \in refs : /\ r.inst \in Instances /\ r.id \in [prefix : Prefixes, n : Nat]
                      /\ r.id.n <= counts[r.inst][r.id.prefix]
  /\ ReferencesNameOneValue

LEMMA RefInit ==
  ASSUME DeploymentInit
  PROVE  RefInv
<1> DEFINE e == [inst |-> Local, key |-> Earlier, id |-> [prefix |-> "bal", n |-> 1], value |-> None]
<1>1. EarlierRefs({Earlier}) = {e}
  BY DEF EarlierRefs
<1>2. refs = {} \/ refs = {e}
  BY <1>1 DEF DeploymentInit
<1>3. e.inst = Local /\ e.id = [prefix |-> "bal", n |-> 1] /\ e.id.prefix = "bal" /\ e.id.n = 1
  OBVIOUS
<1> HIDE DEF e
<1>4. CASE refs = {e}
  <2>1. {r \in refs : r.inst = Local /\ r.id.prefix = "bal"} = {e}
    BY <1>3, <1>4
  <2>2. Cardinality({e}) = 1
    BY FS_Singleton
  <2>3. counts[Local]["bal"] = 1
    <3>1. "bal" \in Prefixes
      BY DEF Prefixes
    <3> QED
      BY <2>1, <2>2, <3>1, LocalInstance DEF DeploymentInit
  <2> QED
    BY <1>3, <1>4, <2>3, LocalInstance DEF RefInv, ReferencesNameOneValue, Prefixes
<1> QED
  BY <1>2, <1>4 DEF RefInv, ReferencesNameOneValue

LEMMA MintsKeepReferences ==
  ASSUME TypeInv, RefInv, NEW c \in Calls, NEW prefixes \in SUBSET Prefixes, Mints(c, prefixes),
         call[c].inst \in Instances
  PROVE  RefInv'
<1> DEFINE i == call[c].inst
           new(p) == [inst |-> i, key |-> call[c].key, id |-> NewId(i, call[c].key, p), value |-> c]
<1>1. refs' = refs \cup {new(p) : p \in prefixes}
  BY DEF Mints
<1>2. \A p \in prefixes : /\ new(p).inst = i /\ new(p).id = [prefix |-> p, n |-> counts[i][p] + 1]
                           /\ new(p).value = c
  BY DEF NewId
<1>3. counts' = [counts EXCEPT ![i] = [p \in Prefixes |->
                                         IF p \in prefixes THEN counts[i][p] + 1 ELSE counts[i][p]]]
  BY DEF Mints
<1>4. i \in Instances /\ counts \in [Instances -> [Prefixes -> Nat]]
  BY DEF TypeInv
<1> HIDE DEF new, i
<1>5. \A j \in Instances, p \in Prefixes : counts[j][p] \in Nat /\ counts'[j][p] \in Nat /\ counts[j][p] <= counts'[j][p]
  BY <1>3, <1>4
<1>6. \A p \in prefixes : counts'[i][p] = counts[i][p] + 1
  BY <1>3, <1>4
<1>7. ASSUME NEW p \in prefixes
      PROVE  /\ new(p).inst = i /\ new(p).id.prefix = p /\ new(p).id.n = counts[i][p] + 1
             /\ new(p).id \in [prefix : Prefixes, n : Nat] /\ new(p).value = c
             /\ new(p).id.n <= counts'[i][p]
  <2>1. new(p).id = [prefix |-> p, n |-> counts[i][p] + 1] /\ counts[i][p] \in Nat
    BY <1>2, <1>4, <1>5
  <2> QED
    BY <1>2, <1>6, <2>1
<1>8. ASSUME NEW r \in refs
      PROVE  /\ r.inst \in Instances /\ r.id \in [prefix : Prefixes, n : Nat]
             /\ r.id.n <= counts'[r.inst][r.id.prefix]
             /\ \A p \in prefixes : r.inst = i => r.id # new(p).id
  <2>1. /\ r.inst \in Instances /\ r.id.prefix \in Prefixes /\ r.id.n \in Nat
        /\ r.id.n <= counts[r.inst][r.id.prefix]
    BY DEF RefInv
  <2>2. r.id.n <= counts'[r.inst][r.id.prefix]
    BY <1>5, <2>1
  <2>3. ASSUME NEW p \in prefixes, r.inst = i, r.id = new(p).id
        PROVE  FALSE
    BY <1>4, <1>5, <1>7, <2>1, <2>3
  <2> QED
    BY <2>2, <2>3 DEF RefInv
<1>9. \A r, s \in refs' : r.inst = s.inst /\ r.id = s.id => r.value = s.value
  BY <1>1, <1>7, <1>8 DEF RefInv, ReferencesNameOneValue
<1>10. \A r \in refs' : /\ r.inst \in Instances /\ r.id \in [prefix : Prefixes, n : Nat]
                        /\ r.id.n <= counts'[r.inst][r.id.prefix]
  BY <1>1, <1>4, <1>7, <1>8
<1> QED
  BY <1>9, <1>10 DEF RefInv, ReferencesNameOneValue

LEMMA RefStep ==
  ASSUME TypeInv, RefInv, [DeploymentNext]_allVars
  PROVE  RefInv'
<1>1. CASE UNCHANGED <<refs, counts>>
  BY <1>1 DEF RefInv, ReferencesNameOneValue
<1>2. ASSUME NEW c \in Calls, Read(c) \/ Deposit(c) \/ Return(c)
      PROVE  RefInv'
  <2>1. call[c].inst \in Instances
    BY <1>2 DEF Read, Deposit, Return, TypeInv, Unrouted
  <2>2. UNCHANGED <<refs, counts>> \/ \E prefixes \in SUBSET Prefixes : Mints(c, prefixes)
    BY <1>2 DEF Read, Deposit, Return, Reading, Prefixes
  <2> QED
    BY <1>1, <2>1, <2>2, MintsKeepReferences
<1>3. AssistantNext => \/ UNCHANGED <<refs, counts>>
                       \/ \E c \in Calls : Read(c) \/ Deposit(c) \/ Return(c)
  BY DEF AssistantNext, Goes, Unlocked, Sign, SignFails, Lock, Reveal, Answered, KeySends, Push, Show,
         CallFails, Close, Revoked, OwnerAnswers, OwnerCloses, toolVars
<1>4. HostedNext => UNCHANGED <<refs, counts>>
  BY DEF HostedNext, ToolsRest, toolVars
<1> QED
  BY <1>1, <1>2, <1>3, <1>4, Steps DEF Begin, toolVars, assistantVars

\* An id a model was told names one reading for ever, over every number of sessions,
\* overlapping calls and restarts of the hosted server (newRefId).
THEOREM ReferencesAreNames == DeploymentSpec => []ReferencesNameOneValue
<1>1. RefInv => ReferencesNameOneValue
  BY DEF RefInv
<1> QED
  BY <1>1, RefInit, RefStep, AlwaysTyped, PTL DEF DeploymentSpec

---------------------------------------------------------------------------
(* The hosted server                                                       *)

\* What uses a key in the server's memory.
Using == {"preparing", "adopting", "building"}

\* A request leaves the memory's use behind only with its key forgotten, or as a
\* prepare that failed; and a key comes in with a request.
MemoryGoesWell ==
  /\ \A d \in Calls : call[d].pc \in Using =>
       \/ call'[d].pc = call[d].pc
       \/ call[d].pc = "preparing" /\ call'[d].pc = "failed"
       \/ call[d].key \notin memory'
  /\ \A k \in memory' : k \in memory \/ \E c \in Calls : call'[c].key = k /\ call'[c].pc \in Using

\* A step of a call that uses no key.
LEMMA OtherMemory ==
  ASSUME NEW c \in Calls, NEW tool, NEW pc, NEW inst, NEW key, Becomes(c, tool, pc, inst, key),
         call[c].pc \notin Using, UNCHANGED memory
  PROVE  MemoryGoesWell
BY DEF MemoryGoesWell, Becomes

LEMMA ToolsMemory ==
  ASSUME TypeInv, NEW c \in Calls, Goes(c), UNCHANGED memory
  PROVE  MemoryGoesWell
<1>1. call[c].pc \notin Using
  BY DEF Goes, Unlocked, Sign, SignFails, Lock, Read, Reveal, Answered, KeySends, Deposit, Push, Show,
         Return, CallFails, Close, Revoked, Using
<1>2. \A d \in Calls \ {c} : call'[d] = call[d]
  BY DEF Goes, Unlocked, Sign, SignFails, Lock, Read, Reveal, Answered, KeySends, Deposit, Push, Show,
         Return, CallFails, Close, Revoked, To, TypeInv
<1> QED
  BY <1>1, <1>2 DEF MemoryGoesWell

LEMMA BeganMemory ==
  ASSUME TypeInv, NEW c \in Calls, NEW i \in Instances, NEW tool \in Called, Began(c, i, tool),
         call[c].pc \in {"idle", "routed"}, UNCHANGED memory
  PROVE  MemoryGoesWell
<1>1. PICK pc \in Beginnings : Begins(c, i, tool, pc)
  BY DEF Began
<1> QED
  BY <1>1, CalledAssumption, Beginning, OtherMemory DEF Using

LEMMA RequestMemory ==
  ASSUME TypeInv, NEW c \in Calls, NEW tool \in Tools \cup {"prepare", "adopt"}, NEW k \in Keys,
         NEW pc \in Unrouted, Requested(c, tool, k, pc),
         UNCHANGED memory \/ (memory' = memory \cup {k} /\ pc \in Using)
  PROVE  MemoryGoesWell
<1>1. Becomes(c, tool, pc, call[c].inst, k) /\ call[c].pc = "idle"
  BY Requesting DEF Requested
<1> QED
  BY <1>1 DEF MemoryGoesWell, Becomes, Using

LEMMA ServerMemory ==
  ASSUME TypeInv, NEW c \in Calls, ServerSteps(c)
  PROVE  MemoryGoesWell
<1> USE DEF Using
<1>1. ASSUME NEW k \in Keys, Prepare(c, k) \/ Adopt(c, k) \/ \E tool \in Called : Mcp(c, k, tool)
      PROVE  MemoryGoesWell
  BY <1>1, CalledAssumption, RequestMemory DEF Prepare, Adopt, Mcp, Unrouted, serverVars
<1>2. ASSUME NEW pc \in PCs, To(c, pc), call[c].pc \in Using,
             memory' = memory \ {call[c].key} \/ (UNCHANGED memory /\ call[c].pc = "preparing" /\ pc = "failed")
      PROVE  MemoryGoesWell
  BY <1>2, Going DEF Becomes, MemoryGoesWell
<1>3. CASE Seal(c) \/ PrepareFails(c) \/ Adopted(c)
  BY <1>2, <1>3 DEF Seal, PrepareFails, Adopted, serverVars, PCs, Unrouted
<1>4. CASE Check(c)
  <2>1. (To(c, "serving") \/ To(c, "failed")) /\ call[c].pc = "checking" /\ UNCHANGED memory
    BY <1>4 DEF Check
  <2> QED
    BY <2>1, Going, OtherMemory DEF PCs, Unrouted
<1>5. CASE Build(c)
  <2>1. To(c, "building") /\ call[c].pc = "serving" /\ memory' = memory \cup {call[c].key}
    BY <1>5 DEF Build
  <2> QED
    BY <2>1, Going DEF Becomes, MemoryGoesWell, PCs, Unrouted
<1>6. CASE Serve(c)
  <2>1. attached[call[c].key] \in Instances /\ UNCHANGED memory /\ call[c].pc = "serving"
    BY <1>6 DEF Serve, TypeInv, Requests, serverVars
  <2> QED
    BY <1>6, <2>1, Routing, OtherMemory DEF Serve
<1>7. ASSUME NEW i \in Instances, Built(c, i)
      PROVE  MemoryGoesWell
  <2>1. call[c].pc = "building" /\ memory' = memory \ {call[c].key}
    BY <1>7 DEF Built
  <2>2. CASE Routes(c, i)
    BY <2>1, <2>2, Routing DEF Becomes, MemoryGoesWell
  <2>3. CASE To(c, "failed")
    BY <1>2, <2>1, <2>3 DEF PCs, Unrouted
  <2> QED
    BY <1>7, <2>2, <2>3 DEF Built
<1> QED
  BY <1>1, <1>3, <1>4, <1>5, <1>6, <1>7 DEF ServerSteps

LEMMA PageMemory ==
  ASSUME TypeInv, PageType, PageSteps
  PROVE  MemoryGoesWell
<1>1. CASE UNCHANGED <<call, memory>>
  BY <1>1 DEF MemoryGoesWell
<1>2. ASSUME NEW c \in Calls, NEW k \in Keys, Adopt(c, k) \/ Prepare(c, k)
      PROVE  MemoryGoesWell
  BY <1>2, RequestMemory DEF Adopt, Prepare, Using, Unrouted
<1>3. ASSUME NEW c \in Calls, PageAdopts(c)
      PROVE  MemoryGoesWell
  BY <1>2, <1>3 DEF PageAdopts, PageType
<1>4. ASSUME NEW c \in Calls, NEW k \in Keys, PageOpens(c, k)
      PROVE  MemoryGoesWell
  BY <1>2, <1>4 DEF PageOpens
<1>5. CASE PageAlone
  BY <1>1, <1>5, PageAloneKeeps DEF serverVars
<1> QED
  BY <1>3, <1>4, <1>5 DEF PageSteps

LEMMA MemorySteps ==
  ASSUME TypeInv, PageType, [DeploymentNext]_allVars
  PROVE  MemoryGoesWell
<1>1. CASE UNCHANGED <<call, memory>>
  BY <1>1 DEF MemoryGoesWell
<1>2. CASE AssistantNext /\ UNCHANGED hostedVars
  BY <1>1, <1>2, ToolsMemory DEF AssistantNext, OwnerAnswers, OwnerCloses, hostedVars, serverVars
<1>3. ASSUME NEW c \in Calls, NEW tool \in Called, Begin(c, Local, tool), UNCHANGED hostedVars
      PROVE  MemoryGoesWell
  <2>1. Began(c, Local, tool) /\ call[c].pc = "idle" /\ UNCHANGED memory
    BY <1>3, StartsBegin DEF Begin, hostedVars, serverVars
  <2> QED
    BY <2>1, LocalInstance, BeganMemory
<1>4. CASE HostedNext
  <2>1. CASE Restart
    BY <2>1 DEF Restart, MemoryGoesWell
  <2>2. ASSUME NEW c \in Calls, Run(c)
        PROVE  MemoryGoesWell
    <3>1. call[c].pc = "routed" /\ call[c].inst \in Instances /\ UNCHANGED memory
      BY <2>2 DEF Run, TypeInv, Unrouted, serverVars
    <3>2. CASE To(c, "failed")
      BY <3>1, <3>2, Going, OtherMemory DEF PCs, Unrouted, Using
    <3>3. CASE Starts(c, call[c].inst, call[c].tool)
      BY <3>1, <3>3, StartsBegin, BeganMemory
    <3> QED
      BY <2>2, <3>2, <3>3 DEF Run
  <2>3. \/ \E c \in Calls : ServerSteps(c) \/ Run(c)
        \/ Restart \/ PageSteps \/ UNCHANGED <<call, memory>>
    BY <1>4 DEF HostedNext, PageSteps, PageAlone, serverVars
  <2> QED
    BY <1>1, <2>1, <2>2, <2>3, ServerMemory, PageMemory
<1> QED
  BY <1>1, <1>2, <1>3, <1>4, Steps DEF assistantVars, hostedVars, serverVars

\* A key in the keystore has a request that uses it, or a prepare that failed; and only
\* what asks for a token prepares one.
HeldInv ==
  /\ \A k \in memory : \E c \in Calls :
       call[c].key = k /\ (call[c].pc \in Using \/ (call[c].tool = "prepare" /\ call[c].pc = "failed"))
  /\ \A c \in Calls : call[c].pc = "preparing" => call[c].tool = "prepare"

LEMMA HeldStep ==
  ASSUME TypeInv, PageType, HeldInv, [DeploymentNext]_allVars
  PROVE  HeldInv'
<1>1. \A d \in Calls : GoesWell(d)
  BY AllGoWell
<1>2. \A d \in Calls : call'[d].pc = "preparing" => call'[d].tool = "prepare"
  BY <1>1 DEF GoesWell, BeginsWell, KeepsIdentity, HeldInv, Beginnings
<1>3. MemoryGoesWell
  BY MemorySteps
<1>4. ASSUME NEW k \in memory', NEW c \in Calls, call[c].key = k,
             call[c].pc \in Using \/ (call[c].tool = "prepare" /\ call[c].pc = "failed")
      PROVE  /\ call'[c].key = k
             /\ call'[c].pc \in Using \/ (call'[c].tool = "prepare" /\ call'[c].pc = "failed")
  <2>1. call'[c].key = call[c].key /\ call'[c].tool = call[c].tool
    BY <1>1, <1>4 DEF GoesWell, KeepsIdentity, Using
  <2> QED
    BY <1>1, <1>3, <1>4, <2>1 DEF MemoryGoesWell, GoesWell, KeepsIdentity, HeldInv
<1>5. \A k \in memory' : \E c \in Calls :
        call'[c].key = k /\ (call'[c].pc \in Using \/ (call'[c].tool = "prepare" /\ call'[c].pc = "failed"))
  BY <1>3, <1>4 DEF HeldInv, MemoryGoesWell, Using
<1> QED
  BY <1>2, <1>5 DEF HeldInv, Using

\* How a call comes to sign for the owner, and to be served.
OwnersWork == {"unlocking", "signing", "signed"}
Served == {"serving", "building"}

ArrivesWell(d) ==
  /\ hosted /\ call'[d].pc \in OwnersWork => call[d].pc \in OwnersWork
  /\ call'[d].pc \in Served =>
       /\ call'[d].key = call[d].key
       /\ call[d].pc \in Served \/ (call[d].pc = "checking" /\ chain[call[d].key] = "open")

LEMMA OneArrives ==
  ASSUME NEW c \in Calls, NEW tool, NEW pc, NEW inst, NEW key, Becomes(c, tool, pc, inst, key),
         hosted /\ pc \in OwnersWork => call[c].pc \in OwnersWork,
         pc \in Served => /\ key = call[c].key
                          /\ \/ call[c].pc \in Served
                             \/ call[c].pc = "checking" /\ chain[call[c].key] = "open"
  PROVE  \A d \in Calls : ArrivesWell(d)
BY DEF Becomes, ArrivesWell

LEMMA ToolsArrive ==
  ASSUME TypeInv, NEW c \in Calls, Goes(c)
  PROVE  \A d \in Calls : ArrivesWell(d)
<1> USE DEF PCs, Unrouted, Beginnings, OwnersWork, Served
<1>1. CASE call' = [call EXCEPT ![c].pc = "signing", ![c].held = TRUE] /\ call[c].pc = "unlocking"
  BY <1>1, Holding, OneArrives
<1>2. ASSUME NEW k \in Keys, call' = [call EXCEPT ![c].pc = "signed", ![c].key = k], call[c].pc = "signing"
      PROVE  \A d \in Calls : ArrivesWell(d)
  BY <1>2, Opening, OneArrives
<1>3. CASE To(c, "signed") /\ call[c].pc = "signing"
  BY <1>3, Going, OneArrives
<1>4. ASSUME NEW pc \in {"done", "revealing", "revealed?", "sending", "pushing", "depositing", "pushed",
                         "showing", "failed", "closed"}, To(c, pc)
      PROVE  \A d \in Calls : ArrivesWell(d)
  BY <1>4, Going, OneArrives
<1>5. CASE Unlocked(c)
  BY <1>1, <1>4, <1>5 DEF Unlocked
<1>6. CASE Sign(c)
  BY <1>2, <1>3, <1>6 DEF Sign
<1>7. CASE Lock(c) \/ SignFails(c)
  BY <1>4, <1>7 DEF Lock, SignFails
<1>8. CASE Read(c) \/ Reveal(c) \/ Answered(c) \/ KeySends(c) \/ Deposit(c) \/ Push(c) \/ Show(c)
           \/ Return(c) \/ CallFails(c) \/ Close(c) \/ Revoked(c)
  BY <1>4, <1>8 DEF Read, Reveal, Answered, KeySends, Deposit, Push, Show, Return, CallFails, Close, Revoked
<1> QED
  BY <1>5, <1>6, <1>7, <1>8 DEF Goes

LEMMA BeganArrives ==
  ASSUME TypeInv, NEW c \in Calls, NEW i \in Instances, NEW tool \in Called, Began(c, i, tool)
  PROVE  \A d \in Calls : ArrivesWell(d)
<1>1. PICK pc \in Beginnings : Begins(c, i, tool, pc) /\ (pc \in {"unlocking", "signing"} => ~hosted)
  BY DEF Began
<1> QED
  BY <1>1, CalledAssumption, Beginning, OneArrives DEF Beginnings, OwnersWork, Served

LEMMA RequestArrives ==
  ASSUME TypeInv, NEW c \in Calls, NEW tool \in Tools \cup {"prepare", "adopt"}, NEW k \in Keys,
         NEW pc \in {"preparing", "adopting", "checking"}, Requested(c, tool, k, pc)
  PROVE  \A d \in Calls : ArrivesWell(d)
BY Requesting, OneArrives DEF Unrouted, OwnersWork, Served

LEMMA ServerArrives ==
  ASSUME TypeInv, NEW c \in Calls, ServerSteps(c)
  PROVE  \A d \in Calls : ArrivesWell(d)
<1> USE DEF PCs, Unrouted, OwnersWork, Served
<1>1. ASSUME NEW k \in Keys, Prepare(c, k) \/ Adopt(c, k) \/ \E tool \in Called : Mcp(c, k, tool)
      PROVE  \A d \in Calls : ArrivesWell(d)
  BY <1>1, CalledAssumption, RequestArrives DEF Prepare, Adopt, Mcp
<1>2. ASSUME NEW pc \in {"done", "failed"}, To(c, pc)
      PROVE  \A d \in Calls : ArrivesWell(d)
  BY <1>2, Going, OneArrives
<1>3. CASE Seal(c) \/ PrepareFails(c) \/ Adopted(c)
  BY <1>2, <1>3 DEF Seal, PrepareFails, Adopted
<1>4. CASE Check(c)
  <2>1. CASE To(c, "serving") /\ call[c].pc = "checking" /\ chain[call[c].key] = "open"
    BY <2>1, Going, OneArrives
  <2> QED
    BY <1>2, <1>4, <2>1 DEF Check
<1>5. CASE Build(c)
  <2>1. To(c, "building") /\ call[c].pc = "serving"
    BY <1>5 DEF Build
  <2> QED
    BY <2>1, Going, OneArrives
<1>6. ASSUME NEW i \in Instances, Routes(c, i)
      PROVE  \A d \in Calls : ArrivesWell(d)
  BY <1>6, Routing, OneArrives
<1>7. CASE Serve(c)
  <2>1. attached[call[c].key] \in Instances
    BY <1>7 DEF Serve, TypeInv, Requests
  <2> QED
    BY <1>6, <1>7, <2>1 DEF Serve
<1>8. ASSUME NEW i \in Instances, Built(c, i)
      PROVE  \A d \in Calls : ArrivesWell(d)
  BY <1>2, <1>6, <1>8 DEF Built
<1> QED
  BY <1>1, <1>3, <1>4, <1>5, <1>7, <1>8 DEF ServerSteps

LEMMA AllArrive ==
  ASSUME TypeInv, PageType, [DeploymentNext]_allVars
  PROVE  \A d \in Calls : ArrivesWell(d)
<1>1. CASE UNCHANGED call
  BY <1>1 DEF ArrivesWell
<1>2. CASE AssistantNext
  BY <1>1, <1>2, ToolsArrive DEF AssistantNext, OwnerAnswers, OwnerCloses
<1>3. ASSUME NEW c \in Calls, NEW tool \in Called, Begin(c, Local, tool)
      PROVE  \A d \in Calls : ArrivesWell(d)
  BY <1>3, StartsBegin, LocalInstance, BeganArrives DEF Begin
<1>4. ASSUME NEW c \in Calls, Run(c)
      PROVE  \A d \in Calls : ArrivesWell(d)
  <2>1. call[c].inst \in Instances
    BY <1>4 DEF Run, TypeInv, Unrouted
  <2>2. CASE To(c, "failed")
    BY <2>2, Going, OneArrives DEF PCs, Unrouted, OwnersWork, Served
  <2>3. CASE Starts(c, call[c].inst, call[c].tool)
    BY <2>1, <2>3, StartsBegin, BeganArrives
  <2> QED
    BY <1>4, <2>2, <2>3 DEF Run
<1>5. CASE Restart
  BY <1>5, Restarting DEF ArrivesWell, OwnersWork, Served
<1>6. CASE PageSteps
  <2>1. ASSUME NEW c \in Calls, NEW k \in Keys, Adopt(c, k) \/ Prepare(c, k)
        PROVE  \A d \in Calls : ArrivesWell(d)
    BY <2>1, RequestArrives DEF Adopt, Prepare
  <2>2. CASE PageAlone
    BY <1>1, <2>2, PageAloneKeeps
  <2> QED
    BY <1>6, <2>1, <2>2 DEF PageSteps, PageAdopts, PageOpens, PageType
<1>7. CASE HostedNext
  <2>1. \/ \E c \in Calls : ServerSteps(c) \/ Run(c)
        \/ Restart \/ PageSteps \/ UNCHANGED call
    BY <1>7 DEF HostedNext, PageSteps, PageAlone
  <2> QED
    BY <1>1, <1>4, <1>5, <1>6, <2>1, ServerArrives
<1>8. UNCHANGED <<assistantVars, hostedVars>> => UNCHANGED call
  BY DEF assistantVars
<1> QED
  BY <1>1, <1>2, <1>3, <1>7, <1>8, Steps

\* A session is opened once and closed for good.
ChainGoesOn ==
  \A k \in Keys : /\ chain[k] = "closed" => chain'[k] = "closed"
                  /\ chain[k] # "unopened" => chain'[k] # "unopened"

LEMMA ChainStep ==
  ASSUME TypeInv, [DeploymentNext]_allVars
  PROVE  ChainGoesOn
<1>1. CASE UNCHANGED chain
  BY <1>1 DEF ChainGoesOn
<1>2. ASSUME NEW c \in Calls, Sign(c)
      PROVE  ChainGoesOn
  BY <1>2 DEF Sign, ChainGoesOn, TypeInv
<1>3. ASSUME NEW c \in Calls, Close(c)
      PROVE  ChainGoesOn
  BY <1>3 DEF Close, ChainGoesOn, TypeInv
<1>4. ASSUME NEW k \in Keys, OwnerCloses(k)
      PROVE  ChainGoesOn
  BY <1>4 DEF OwnerCloses, ChainGoesOn, TypeInv
<1>5. ASSUME NEW tx, Mines(tx)
      PROVE  ChainGoesOn
  BY <1>5 DEF Mines, ChainGoesOn, TypeInv
<1>6. AssistantNext => \/ UNCHANGED chain
                       \/ \E c \in Calls : Sign(c) \/ Close(c)
                       \/ \E k \in Keys : OwnerCloses(k)
  BY DEF AssistantNext, Goes, Unlocked, SignFails, Lock, Read, Reveal, Answered, KeySends, Deposit, Push,
         Show, Return, CallFails, Revoked, OwnerAnswers
<1>7. HostedNext => UNCHANGED chain \/ \E tx \in wallet : Mines(tx)
  BY DEF HostedNext
<1> QED
  BY <1>1, <1>2, <1>3, <1>4, <1>5, <1>6, <1>7, Steps DEF Begin, assistantVars

\* What the attached tools hold is the key of their own token, whose session was opened;
\* what is served has found its session open; and only a local process signs.
AttachedInv ==
  /\ hosted \/ \A k \in Keys : attached[k] = None
  /\ hosted => \A c \in Calls : call[c].pc \notin OwnersWork
  /\ \A c \in Calls : call[c].pc \in Served => chain[call[c].key] # "unopened"
  /\ \A k \in Keys : attached[k] # None => live[attached[k]] \in {None, k} /\ chain[k] # "unopened"

\* What becomes of the tools: they lose a session, are dropped, or are built unused.
ToolsGoOn ==
  \/ UNCHANGED attached /\ \A i \in Instances : live'[i] \in {live[i], None}
  \/ UNCHANGED live /\ \A k \in Keys : attached'[k] \in {attached[k], None}
  \/ \A k \in Keys : attached'[k] = None
  \/ \E c \in Calls, i \in Instances :
       /\ Unused(i) /\ call[c].pc \in Served /\ call[c].key \in Keys
       /\ live' = [live EXCEPT ![i] = call[c].key] /\ attached' = [attached EXCEPT ![call[c].key] = i]

LEMMA ToolsStep ==
  ASSUME TypeInv, PageType, AttachedInv, [DeploymentNext]_allVars
  PROVE  ToolsGoOn /\ UNCHANGED hosted
<1>0. UNCHANGED hosted
  BY DEF DeploymentNext, SetupSteps, LocalSteps, HostedSteps, BudgetSteps, allVars, assistantVars, AssistantNext,
         OwnerAnswers, OwnerCloses, Begin, Goes, Unlocked, Sign, SignFails, Lock, Read, Reveal, Answered,
         KeySends, Deposit, Push, Show, Return, CallFails, Close, Revoked
<1>1. ASSUME live' = live, attached' = attached
      PROVE  ToolsGoOn
  <2>1. \A i \in Instances : live'[i] \in {live[i], None}
    BY <1>1
  <2> QED
    BY <1>1, <2>1 DEF ToolsGoOn
<1>2. CASE AssistantNext /\ UNCHANGED hostedVars
  <2>1. UNCHANGED attached
    BY <1>2 DEF hostedVars, serverVars
  <2>2. ASSUME NEW c \in Calls, Lock(c)
        PROVE  ToolsGoOn
    <3>1. ~hosted
      BY <2>2 DEF Lock, AttachedInv, OwnersWork
    <3> QED
      BY <2>1, <3>1 DEF ToolsGoOn, AttachedInv
  <2>3. ASSUME NEW c \in Calls, Revoked(c)
        PROVE  ToolsGoOn
    <3>1. live' = [live EXCEPT ![call[c].inst] = None]
      BY <2>3 DEF Revoked
    <3> QED
      BY <2>1, <3>1 DEF ToolsGoOn, TypeInv
  <2>4. \/ \E c \in Calls : Lock(c) \/ Revoked(c)
        \/ UNCHANGED live
    BY <1>2 DEF AssistantNext, OwnerAnswers, OwnerCloses, Goes, Unlocked, Sign, SignFails, Read, Reveal, Answered,
                KeySends, Deposit, Push, Show, Return, CallFails, Close, toolVars
  <2> QED
    BY <1>0, <1>1, <2>1, <2>2, <2>3, <2>4
<1>3. CASE HostedNext
  <2>1. ASSUME NEW c \in Calls, ServerSteps(c)
        PROVE  ToolsGoOn
    <3>1. ASSUME NEW i \in Instances, Built(c, i)
          PROVE  ToolsGoOn
      <4>1. call[c].pc \in Served /\ call[c].key \in Keys
        BY <3>1 DEF Built, Served, TypeInv, Requests
      <4> QED
        BY <1>1, <3>1, <4>1 DEF Built, ToolsGoOn
    <3>2. CASE Check(c) /\ UNCHANGED live
      BY <3>2 DEF Check, ToolsGoOn, TypeInv
    <3>3. (UNCHANGED <<live, attached>>) \/ (Check(c) /\ UNCHANGED live) \/ \E i \in Instances : Built(c, i)
      BY <2>1 DEF ServerSteps, Prepare, Adopt, Mcp, Seal, PrepareFails, Adopted, Serve, Build, serverVars
    <3> QED
      BY <1>1, <3>1, <3>2, <3>3
  <2>2. CASE Restart
    <3>1. \A k \in Keys : attached'[k] = None
      BY <2>2 DEF Restart
    <3> QED
      BY <1>0, <3>1 DEF ToolsGoOn
  <2>3. CASE PageSteps /\ UNCHANGED live
    BY <1>0, <1>1, <2>3, PageAloneKeeps DEF PageSteps, PageAdopts, PageOpens, Adopt, Prepare, serverVars
  <2>4. \/ \E c \in Calls : ServerSteps(c)
        \/ Restart \/ (PageSteps /\ UNCHANGED live) \/ UNCHANGED <<live, attached>>
    BY <1>3 DEF HostedNext, PageSteps, PageAlone, Run, serverVars, toolVars
  <2> QED
    BY <1>0, <1>1, <2>1, <2>2, <2>3, <2>4
<1>4. UNCHANGED <<assistantVars, hostedVars>> => UNCHANGED <<live, attached>>
  BY DEF assistantVars, hostedVars, toolVars, serverVars
<1>5. (\E c \in Calls, tool \in Called : Begin(c, Local, tool)) /\ UNCHANGED hostedVars => UNCHANGED <<live, attached>>
  BY DEF Begin, hostedVars, toolVars, serverVars
<1> QED
  BY <1>0, <1>1, <1>2, <1>3, <1>4, <1>5, Steps

LEMMA AttachedStep ==
  ASSUME TypeInv, PageType, AttachedInv, [DeploymentNext]_allVars
  PROVE  AttachedInv'
<1>1. ChainGoesOn /\ ToolsGoOn /\ (hosted' <=> hosted) /\ \A d \in Calls : ArrivesWell(d)
  BY ChainStep, ToolsStep, AllArrive
<1>2. hosted' => \A c \in Calls : call'[c].pc \notin OwnersWork
  BY <1>1 DEF ArrivesWell, AttachedInv
<1>3. ASSUME NEW c \in Calls, call'[c].pc \in Served
      PROVE  chain'[call'[c].key] # "unopened"
  <2>1. call'[c].key = call[c].key /\ call[c].pc \in Served \cup {"checking"} /\ chain[call[c].key] # "unopened"
    BY <1>1, <1>3 DEF ArrivesWell, AttachedInv
  <2>2. call[c].key \in Keys
    BY <2>1 DEF TypeInv, Served, Requests
  <2> QED
    BY <1>1, <2>1, <2>2 DEF ChainGoesOn
<1>4. hosted' \/ \A k \in Keys : attached'[k] = None
  <2>1. CASE hosted
    BY <1>1, <2>1
  <2>2. CASE ~hosted
    <3>2. (\A k \in Keys : attached[k] = None) /\ \A c \in Calls : TRUE
      BY <2>2 DEF AttachedInv
    <3>3. UNCHANGED attached
      BY <2>2 DEF DeploymentNext, SetupSteps, LocalSteps, HostedSteps, BudgetSteps, allVars, hostedVars, serverVars
    <3> QED
      BY <3>2, <3>3
  <2> QED
    BY <2>1, <2>2
<1>5. ASSUME NEW k \in Keys, attached'[k] # None
      PROVE  live'[attached'[k]] \in {None, k} /\ chain'[k] # "unopened"
  <2>1. CASE UNCHANGED attached /\ \A i \in Instances : live'[i] \in {live[i], None}
    <3>1. attached[k] \in Instances /\ live[attached[k]] \in {None, k} /\ chain[k] # "unopened"
      BY <1>5, <2>1 DEF AttachedInv, TypeInv
    <3> QED
      BY <1>1, <2>1, <3>1 DEF ChainGoesOn
  <2>2. CASE UNCHANGED live /\ \A l \in Keys : attached'[l] \in {attached[l], None}
    BY <1>1, <1>5, <2>2 DEF AttachedInv, ChainGoesOn
  <2>3. ASSUME NEW c \in Calls, NEW i \in Instances, Unused(i), call[c].pc \in Served, call[c].key \in Keys,
               live' = [live EXCEPT ![i] = call[c].key], attached' = [attached EXCEPT ![call[c].key] = i]
        PROVE  live'[attached'[k]] \in {None, k} /\ chain'[k] # "unopened"
    <3>1. live \in [Instances -> Keys \cup {None}] /\ attached \in [Keys -> Instances \cup {None}]
      BY DEF TypeInv
    <3>2. CASE k = call[c].key
      <4>1. chain[k] # "unopened"
        BY <2>3, <3>2 DEF AttachedInv
      <4> QED
        BY <1>1, <2>3, <3>1, <3>2, <4>1 DEF ChainGoesOn
    <3>3. CASE k # call[c].key
      <4>1. attached'[k] = attached[k] /\ attached[k] # i
        BY <2>3, <3>1, <3>3 DEF Unused
      <4>2. live[attached[k]] \in {None, k} /\ chain[k] # "unopened" /\ attached[k] \in Instances
        BY <1>5, <3>1, <4>1 DEF AttachedInv
      <4> QED
        BY <1>1, <2>3, <3>1, <4>1, <4>2 DEF ChainGoesOn
    <3> QED
      BY <3>2, <3>3
  <2> QED
    BY <1>1, <1>5, <2>1, <2>2, <2>3 DEF ToolsGoOn
<1> QED
  BY <1>2, <1>3, <1>4, <1>5 DEF AttachedInv

\* Whatever requests overlap, fail and forget each other's key, over restarts: every key
\* in the clear, in the keystore and in the tools that outlive a request (Attached), is
\* there for a request that uses it, for a prepare that failed, or for the tools of its
\* own token, and then its session was opened.
THEOREM ClearKeysAreKnown == DeploymentSpec => []ClearKeysHaveReasons
<1>1. DeploymentInit => HeldInv /\ AttachedInv
  BY DEF DeploymentInit, AssistantInit, HostedInit, NoCall, HeldInv, AttachedInv, OwnersWork, Served
<1>2. TypeInv /\ HeldInv /\ AttachedInv => ClearKeysHaveReasons
  <2> SUFFICES ASSUME TypeInv, HeldInv, AttachedInv, NEW k \in ClearKeys
               PROVE  \/ \E c \in Calls : /\ call[c].key = k
                                          /\ \/ call[c].pc \in Using
                                             \/ call[c].tool = "prepare" /\ call[c].pc = "failed"
                      \/ attached[k] # None /\ live[attached[k]] = k /\ chain[k] # "unopened"
    BY DEF ClearKeysHaveReasons, Using
  <2>1. CASE k \in memory
    BY <2>1 DEF HeldInv
  <2>2. CASE k \notin memory
    <3>1. PICK t \in Keys : attached[t] # None /\ k = live[attached[t]] /\ k # None
      BY <2>2 DEF ClearKeys
    <3>2. k = t /\ chain[t] # "unopened"
      BY <3>1 DEF AttachedInv
    <3> QED
      BY <3>1, <3>2
  <2> QED
    BY <2>1, <2>2
<1> QED
  BY <1>1, <1>2, HeldStep, AttachedStep, AlwaysTyped, PTL DEF DeploymentSpec

\* What came late names a session that stays closed.
LateInv ==
  \A c \in Calls : call[c].late =>
    call[c].pc \in {"checking", "adopting", "failed"} /\ call[c].key \in Keys /\ chain[call[c].key] = "closed"

LEMMA LateStep ==
  ASSUME TypeInv, PageType, LateInv, [DeploymentNext]_allVars
  PROVE  LateInv'
<1> SUFFICES ASSUME NEW c \in Calls, call'[c].late
             PROVE  /\ call'[c].pc \in {"checking", "adopting", "failed"} /\ call'[c].key \in Keys
                    /\ chain'[call'[c].key] = "closed"
  BY DEF LateInv
<1>1. GoesWell(c) /\ ChainGoesOn
  BY AllGoWell, ChainStep
<1>2. CASE call[c].pc # "idle"
  <2>1. call[c].late
    BY <1>1, <1>2 DEF GoesWell, KeepsIdentity
  <2>2. call[c].pc \in {"checking", "adopting", "failed"} /\ call[c].key \in Keys /\ chain[call[c].key] = "closed"
    BY <2>1 DEF LateInv
  <2>3. call'[c].key = call[c].key /\ call'[c].pc \in {"checking", "adopting", "failed"}
    BY <1>1, <2>2 DEF GoesWell, KeepsIdentity, KeepsOrder
  <2> QED
    BY <1>1, <2>2, <2>3 DEF ChainGoesOn
<1>3. CASE call[c].pc = "idle"
  <2>1. ~call[c].late
    BY <1>3 DEF LateInv
  <2>2. /\ call'[c].pc \in {"adopting", "checking"} /\ call'[c].key \in Keys
        /\ chain[call'[c].key] = "closed"
    BY <1>1, <1>3, <2>1 DEF GoesWell, BeginsWell
  <2> QED
    BY <1>1, <2>2 DEF ChainGoesOn
<1> QED
  BY <1>2, <1>3

\* Closing on chain is enough: whatever is attached, restarted or mined in between, a
\* request that arrives afterwards reaches no tool, for every number of requests (check).
THEOREM ClosedStaysClosed == DeploymentSpec => []ClosedIsRefused
<1>1. DeploymentInit => LateInv
  BY DEF DeploymentInit, AssistantInit, NoCall, LateInv
<1>2. LateInv => ClosedIsRefused
  BY DEF LateInv, ClosedIsRefused
<1> QED
  BY <1>1, <1>2, LateStep, AlwaysTyped, PTL DEF DeploymentSpec

---------------------------------------------------------------------------
(* The page                                                                *)

\* The page keeps no token while it opens a session, and what it waits for is the
\* adoption it asked for; one that was done found its session on chain.  A status
\* request is for the page's token or for one it dropped, and says that a session lives
\* only when it was opened.
PageInv ==
  /\ pageToken \in {None} \cup Keys /\ revoked \subseteq {None} \cup Keys
  /\ page.pc \in {"preparing", "sent", "adopting"} => pageToken = None
  /\ page.pc = "adopting" => /\ page.call \in Calls /\ call[page.call].tool = "adopt"
                             /\ call[page.call].key = page.key
  /\ \A c \in Calls : call[c].tool = "adopt" =>
       /\ call[c].pc \in {"adopting", "done", "failed"} /\ call[c].key \in Keys
       /\ call[c].pc = "done" => chain[call[c].key] # "unopened"
  /\ \A f \in fetches :
       /\ f \in [n : {1, 2}, key : Keys, said : {"nothing", "live", "dead"}]
       /\ f.key \in {pageToken} \cup revoked
       /\ f.said = "live" => chain[f.key] # "unopened"
  /\ PageTokenIsOpened

LEMMA AdoptionsStep ==
  ASSUME TypeInv, PageType, PageInv, [DeploymentNext]_allVars
  PROVE  /\ ChainGoesOn
         /\ \A c \in Calls : call'[c].tool = "adopt" =>
              /\ call'[c].pc \in {"adopting", "done", "failed"} /\ call'[c].key \in Keys
              /\ call'[c].pc = "done" => chain'[call'[c].key] # "unopened"
         /\ \A c \in Calls : call[c].tool = "adopt" => call'[c].tool = "adopt" /\ call'[c].key = call[c].key
<1>1. ChainGoesOn
  BY ChainStep
<1>2. ASSUME NEW c \in Calls
      PROVE  /\ call'[c].tool = "adopt" =>
                  /\ call'[c].pc \in {"adopting", "done", "failed"} /\ call'[c].key \in Keys
                  /\ call'[c].pc = "done" => chain'[call'[c].key] # "unopened"
             /\ call[c].tool = "adopt" => call'[c].tool = "adopt" /\ call'[c].key = call[c].key
  <2>1. GoesWell(c)
    BY AllGoWell
  <2>2. CASE call[c].pc = "idle"
    BY <2>1, <2>2 DEF GoesWell, BeginsWell, PageInv, Tools, OwnerTools, KeyTools, ReadTools
  <2>3. CASE call[c].pc # "idle"
    <3>1. call'[c].tool = call[c].tool
      BY <2>1, <2>3 DEF GoesWell, KeepsIdentity
    <3>2. CASE call[c].tool = "adopt"
      <4>1. call[c].pc \in {"adopting", "done", "failed"} /\ call[c].key \in Keys
        BY <3>2 DEF PageInv
      <4>2. call'[c].key = call[c].key /\ call'[c].pc \in {"adopting", "done", "failed"}
        BY <2>1, <4>1 DEF GoesWell, KeepsIdentity, KeepsOrder
      <4>3. call'[c].pc = "done" => chain[call[c].key] # "unopened"
        BY <2>1, <3>2, <4>1 DEF GoesWell, KeepsIdentity, KeepsOrder, PageInv
      <4> QED
        BY <1>1, <3>1, <4>1, <4>2, <4>3 DEF ChainGoesOn
    <3> QED
      BY <3>1, <3>2
  <2> QED
    BY <2>2, <2>3
<1> QED
  BY <1>1, <1>2

LEMMA PageStays ==
  ASSUME TypeInv, PageType, PageInv, [DeploymentNext]_allVars,
         UNCHANGED <<page, pageToken, status, fetches, revoked>>
  PROVE  PageInv'
<1>1. ChainGoesOn
  BY AdoptionsStep
<1>2. \A f \in fetches' : f.said = "live" => chain'[f.key] # "unopened"
  BY <1>1 DEF PageInv, ChainGoesOn
<1>3. PageTokenIsOpened'
  <2>1. pageToken' # None => chain'[pageToken'] # "unopened"
    BY <1>1 DEF PageInv, PageTokenIsOpened, ChainGoesOn
  <2>2. status.key \in Keys \/ ~RevokeShown
    BY DEF PageInv, PageTokenIsOpened, RevokeShown
  <2> QED
    BY <1>1, <2>1, <2>2 DEF PageInv, PageTokenIsOpened, RevokeShown, ChainGoesOn
<1> QED
  BY <1>2, <1>3, AdoptionsStep DEF PageInv

\* The steps that concern a status request.
LEMMA FetchStep ==
  ASSUME TypeInv, PageType, PageInv, [DeploymentNext]_allVars, UNCHANGED chain, NEW f \in fetches,
         StatusAnswers(f) \/ PageRefreshes(f) \/ PageLoses(f)
  PROVE  PageInv'
<1>1. /\ f \in [n : {1, 2}, key : Keys, said : {"nothing", "live", "dead"}]
      /\ f.key \in {pageToken} \cup revoked
      /\ f.said = "live" => chain[f.key] # "unopened"
  BY DEF PageInv
<1>2. CASE StatusAnswers(f)
  <2>1. PICK said \in Lives(f.key) : fetches' = (fetches \ {f}) \cup {[f EXCEPT !.said = said]}
    BY <1>2 DEF StatusAnswers
  <2>2. said \in {"live", "dead"} /\ (said = "live" => chain[f.key] # "unopened")
    BY <2>1 DEF Lives
  <2> DEFINE g == [f EXCEPT !.said = said]
  <2>3. /\ g \in [n : {1, 2}, key : Keys, said : {"nothing", "live", "dead"}]
        /\ g.key = f.key /\ g.said = said
    BY <1>1, <2>2
  <2>4. fetches' = (fetches \ {f}) \cup {g}
    BY <2>1
  <2> HIDE DEF g
  <2>5. /\ UNCHANGED <<page, pageToken, status, revoked>>
        /\ PageTokenIsOpened'
    BY <1>2 DEF StatusAnswers, PageInv, PageTokenIsOpened, RevokeShown
  <2> QED
    BY <1>1, <2>2, <2>3, <2>4, <2>5, AdoptionsStep DEF PageInv
<1>3. CASE PageRefreshes(f) \/ PageLoses(f)
  <2>1. fetches' \subseteq fetches /\ UNCHANGED <<pageToken, revoked>>
    BY <1>3 DEF PageRefreshes, PageLoses, Ended
  <2>2. page' = page \/ page'.pc = "idle"
    BY <1>3 DEF PageRefreshes, PageLoses, Ended, Leaves, IdlePage
  <2>3. PageTokenIsOpened'
    <3>1. CASE PageRefreshes(f)
      <4>1. status'.key = f.key /\ (status'.live <=> f.said = "live")
        BY <3>1 DEF PageRefreshes
      <4> QED
        BY <1>1, <2>1, <4>1 DEF PageInv, PageTokenIsOpened, RevokeShown
    <3>2. CASE PageLoses(f)
      BY <2>1, <3>2 DEF PageLoses, PageInv, PageTokenIsOpened, RevokeShown
    <3> QED
      BY <1>3, <3>1, <3>2
  <2> QED
    BY <2>1, <2>2, <2>3, AdoptionsStep DEF PageInv
<1> QED
  BY <1>2, <1>3

LEMMA PageStep ==
  ASSUME TypeInv, PageType, PageInv, [DeploymentNext]_allVars
  PROVE  PageInv'
<1>1. CASE UNCHANGED <<page, pageToken, status, fetches, revoked>>
  BY <1>1, PageStays
<1>2. CASE PageSteps /\ UNCHANGED chain
  <2>1. CASE PageSends \/ PageFails
    BY <2>1, <1>2, AdoptionsStep DEF PageSends, PageFails, PageAt, Leaves, IdlePage, PageInv, PageTokenIsOpened,
                              RevokeShown, ChainGoesOn
  <2>2. CASE PageKeeps
    <3>1. page.key \in Keys /\ chain[page.key] # "unopened" /\ pageToken = None
      BY <2>2 DEF PageKeeps, PageInv, PageType
    <3>2. /\ pageToken' = page.key /\ UNCHANGED <<status, revoked>> /\ page'.pc = "refreshing"
          /\ fetches' = fetches \cup {Fetch(1, page.key), Fetch(2, page.key)}
      BY <2>2 DEF PageKeeps, Kept, PageAt
    <3>3. \A n \in {1, 2} :
            /\ Fetch(n, page.key) \in [n : {1, 2}, key : Keys, said : {"nothing", "live", "dead"}]
            /\ Fetch(n, page.key).key = page.key /\ Fetch(n, page.key).said # "live"
      BY <3>1 DEF Fetch
    <3>4. \A f \in fetches : f.key \in revoked
      BY <3>1, CalledAssumption DEF PageInv
    <3>5. \A f \in fetches' :
             /\ f \in [n : {1, 2}, key : Keys, said : {"nothing", "live", "dead"}]
             /\ f.key \in {pageToken'} \cup revoked'
             /\ f.said = "live" => chain'[f.key] # "unopened"
      BY <1>2, <3>2, <3>3, <3>4 DEF PageInv
    <3>6. PageTokenIsOpened'
      BY <1>2, <3>1, <3>2 DEF PageInv, PageTokenIsOpened, RevokeShown
    <3> QED
      BY <3>1, <3>2, <3>5, <3>6, AdoptionsStep DEF PageInv
  <2>3. CASE PageReloads
    <3>1. /\ fetches' = Loaded(pageToken) /\ status' = NoStatus /\ UNCHANGED <<pageToken, revoked>>
          /\ page'.pc = "idle"
      BY <2>3 DEF PageReloads, Leaves, IdlePage
    <3>2. \A f \in fetches' :
             /\ f \in [n : {1, 2}, key : Keys, said : {"nothing", "live", "dead"}]
             /\ f.key = pageToken /\ f.said # "live"
      BY <3>1 DEF Loaded, Fetch, PageInv
    <3>3. PageTokenIsOpened'
      BY <1>2, <3>1 DEF PageInv, PageTokenIsOpened, RevokeShown, NoStatus
    <3> QED
      BY <3>1, <3>2, <3>3, AdoptionsStep DEF PageInv
  <2>4. CASE PageRevokes
    <3>1. UNCHANGED <<pageToken, status, fetches, revoked>> /\ page'.pc = "revoking"
      BY <2>4 DEF PageRevokes, PageAt
    <3> QED
      BY <1>2, <3>1, AdoptionsStep DEF PageInv, PageTokenIsOpened, RevokeShown
  <2>5. CASE PageDrops
    <3>1. /\ pageToken' = None /\ status' = NoStatus /\ revoked' = revoked \cup {pageToken}
          /\ UNCHANGED fetches /\ page'.pc = "idle"
      BY <2>5 DEF PageDrops, Leaves, IdlePage
    <3> QED
      BY <1>2, <3>1, AdoptionsStep DEF PageInv, PageTokenIsOpened, RevokeShown, NoStatus
  <2>6. ASSUME NEW c \in Calls, PageAdopts(c)
        PROVE  PageInv'
    <3>1. page.key \in Keys /\ Requested(c, "adopt", page.key, "adopting")
      BY <2>6 DEF PageAdopts, PageType, Adopt
    <3>2. call'[c].tool = "adopt" /\ call'[c].key = page.key
      BY <3>1, Requesting DEF Becomes, Unrouted
    <3> QED
      BY <1>2, <2>6, <3>2, AdoptionsStep DEF PageAdopts, PageAt, PageInv, PageTokenIsOpened, RevokeShown
  <2>7. ASSUME NEW c \in Calls, NEW k \in Keys, PageOpens(c, k)
        PROVE  PageInv'
    BY <1>2, <2>7, AdoptionsStep DEF PageOpens, PageAt, PageInv, PageTokenIsOpened, RevokeShown
  <2> QED
    BY <1>2, <2>1, <2>2, <2>3, <2>4, <2>5, <2>6, <2>7, FetchStep DEF PageSteps, PageAlone
<1>3. HostedNext => UNCHANGED <<page, pageToken, status, fetches, revoked>> \/ (PageSteps /\ UNCHANGED chain)
  BY DEF HostedNext, PageSteps, PageAlone, pageVars, Mines
<1> QED
  BY <1>1, <1>2, <1>3, Steps DEF hostedVars, pageVars

\* Whatever requests overlap, however late the wallet's calls are mined and a status
\* comes in: the page keeps a token only of a session that was opened on chain, its panel
\* is of the token it keeps or of one it dropped (refresh), and offers the way out of
\* nothing that was never opened.
THEOREM PageIsCertain == DeploymentSpec => []PageTokenIsOpened
<1>1. DeploymentInit => PageInv
  <2>1. ASSUME DeploymentInit
        PROVE  PageInv
    <3>1. pageToken \in {None} \cup tokens /\ tokens \subseteq Opened
      BY <2>1 DEF DeploymentInit, HostedInit
    <3>2. status.key = None /\ page.pc = "idle" /\ ~status.live /\ revoked = {}
      BY <2>1 DEF DeploymentInit, HostedInit, NoStatus, IdlePage
    <3>3. \A c \in Calls : call[c].tool = "none"
      BY <2>1 DEF DeploymentInit, AssistantInit, NoCall
    <3>4. \A f \in fetches :
             /\ f \in [n : {1, 2}, key : Keys, said : {"nothing", "live", "dead"}]
             /\ f.key = pageToken /\ f.said # "live"
      BY <2>1, <3>1 DEF DeploymentInit, HostedInit, Loaded, Fetch, Opened
    <3> QED
      BY <3>1, <3>2, <3>3, <3>4 DEF PageInv, PageTokenIsOpened, RevokeShown, Opened
  <2> QED
    BY <2>1
<1>2. PageInv => PageTokenIsOpened
  BY DEF PageInv
<1> QED
  BY <1>1, <1>2, PageStep, AlwaysTyped, PTL DEF DeploymentSpec

---------------------------------------------------------------------------
(* The owner's machine                                                     *)

ProcPCs == {"unstarted", "saving", "listing", "filing", "labelling", "storing", "reading", "merging",
            "writing", "serving", "done", "failed"}

Servers == SUBSET (OtherServers \cup {"savetogether"})

ProcRecords == [role : {"none", "init", "status", "server"}, pc : ProcPCs, dir : {DefaultDir, OwnDir},
                key : VaultKeys \cup {NoKey}, created : BOOLEAN, servers : Servers,
                signer : VaultKeys \cup {NoKey}]

CustodyType ==
  /\ keyMeta \subseteq VaultKeys
  /\ config \in [state : {"absent", "cut", "good", "refused"}, dir : {DefaultDir, OwnDir}]
  /\ claude \in [json : BOOLEAN, servers : Servers]
  /\ proc \in [Processes -> ProcRecords]

\* One process becomes another record; the others stay as they are.
ProcIs(p, pc, dir, key, servers, signer) ==
  /\ proc' \in [Processes -> ProcRecords]
  /\ proc'[p].pc = pc /\ proc'[p].dir = dir /\ proc'[p].key = key
  /\ proc'[p].servers = servers /\ proc'[p].signer = signer
  /\ \A q \in Processes \ {p} : proc'[q] = proc[q]

LEMMA ProcProceeds ==
  ASSUME CustodyType, NEW p \in Processes, NEW pc \in ProcPCs, Proceeds(p, pc)
  PROVE  /\ ProcIs(p, pc, proc[p].dir, proc[p].key, proc[p].servers, proc[p].signer)
         /\ (proc'[p].created <=> proc[p].created)
<1> DEFINE r == [proc[p] EXCEPT !.pc = pc]
<1>1. proc[p] \in ProcRecords
  BY DEF CustodyType
<1>2. /\ r \in ProcRecords
      /\ r.pc = pc /\ r.dir = proc[p].dir /\ r.key = proc[p].key /\ r.servers = proc[p].servers /\ r.signer = proc[p].signer
  BY <1>1 DEF ProcRecords
<1>3. r.created <=> proc[p].created
  BY <1>1 DEF ProcRecords
<1>4. proc' = [proc EXCEPT ![p] = r]
  BY DEF Proceeds
<1> HIDE DEF r
<1> QED
  BY <1>2, <1>3, <1>4 DEF CustodyType, ProcIs

LEMMA ProcLaunches ==
  ASSUME CustodyType, NEW p \in Processes, NEW role \in {"init", "status", "server"}, NEW pc \in ProcPCs,
         NEW dir \in {DefaultDir, OwnDir}, Launches(p, role, pc, dir)
  PROVE  /\ ProcIs(p, pc, dir, proc[p].key, proc[p].servers, proc[p].signer)
         /\ (proc'[p].created <=> proc[p].created)
<1> DEFINE r == [proc[p] EXCEPT !.role = role, !.pc = pc, !.dir = dir]
<1>1. proc[p] \in ProcRecords
  BY DEF CustodyType
<1>2. /\ r \in ProcRecords
      /\ r.pc = pc /\ r.dir = dir /\ r.key = proc[p].key /\ r.servers = proc[p].servers /\ r.signer = proc[p].signer
  BY <1>1 DEF ProcRecords
<1>3. r.created <=> proc[p].created
  BY <1>1 DEF ProcRecords
<1>4. proc' = [proc EXCEPT ![p] = r]
  BY DEF Launches
<1> HIDE DEF r
<1> QED
  BY <1>2, <1>3, <1>4 DEF CustodyType, ProcIs

LEMMA ProcKnows ==
  ASSUME CustodyType, NEW p \in Processes, NEW pc \in ProcPCs, NEW k \in VaultKeys \cup {NoKey},
         proc' = [proc EXCEPT ![p].key = k, ![p].pc = pc]
  PROVE  /\ ProcIs(p, pc, proc[p].dir, k, proc[p].servers, proc[p].signer)
         /\ (proc'[p].created <=> proc[p].created)
<1> DEFINE r == [proc[p] EXCEPT !.key = k, !.pc = pc]
<1>1. proc[p] \in ProcRecords
  BY DEF CustodyType
<1>2. /\ r \in ProcRecords
      /\ r.pc = pc /\ r.dir = proc[p].dir /\ r.key = k /\ r.servers = proc[p].servers /\ r.signer = proc[p].signer
  BY <1>1 DEF ProcRecords
<1>3. r.created <=> proc[p].created
  BY <1>1 DEF ProcRecords
<1>4. proc' = [proc EXCEPT ![p] = r]
  BY DEF CustodyType
<1> HIDE DEF r
<1> QED
  BY <1>2, <1>3, <1>4, ZenonT(40) DEF CustodyType, ProcIs

LEMMA ProcCreates ==
  ASSUME CustodyType, NEW p \in Processes, NEW k \in VaultKeys,
         proc' = [proc EXCEPT ![p] = [@ EXCEPT !.key = k, !.created = TRUE, !.pc = "labelling"]]
  PROVE  /\ ProcIs(p, "labelling", proc[p].dir, k, proc[p].servers, proc[p].signer)
         /\ (proc'[p].created <=> TRUE)
<1> DEFINE r == [proc[p] EXCEPT !.key = k, !.created = TRUE, !.pc = "labelling"]
<1>1. proc[p] \in ProcRecords
  BY DEF CustodyType
<1>2. /\ r \in ProcRecords
      /\ r.pc = "labelling" /\ r.dir = proc[p].dir /\ r.key = k /\ r.servers = proc[p].servers /\ r.signer = proc[p].signer
  BY <1>1 DEF ProcRecords, ProcPCs
<1>3. r.created <=> TRUE
  BY <1>1 DEF ProcRecords
<1>4. proc' = [proc EXCEPT ![p] = r]
  BY DEF CustodyType
<1> HIDE DEF r
<1> QED
  BY <1>2, <1>3, <1>4 DEF CustodyType, ProcIs

LEMMA ProcReads ==
  ASSUME CustodyType, NEW p \in Processes, NEW servers \in Servers,
         proc' = [proc EXCEPT ![p].servers = servers, ![p].pc = "merging"]
  PROVE  /\ ProcIs(p, "merging", proc[p].dir, proc[p].key, servers, proc[p].signer)
         /\ (proc'[p].created <=> proc[p].created)
<1> DEFINE r == [proc[p] EXCEPT !.servers = servers, !.pc = "merging"]
<1>1. proc[p] \in ProcRecords
  BY DEF CustodyType
<1>2. /\ r \in ProcRecords
      /\ r.pc = "merging" /\ r.dir = proc[p].dir /\ r.key = proc[p].key /\ r.servers = servers /\ r.signer = proc[p].signer
  BY <1>1 DEF ProcRecords, ProcPCs
<1>3. r.created <=> proc[p].created
  BY <1>1 DEF ProcRecords
<1>4. proc' = [proc EXCEPT ![p] = r]
  BY DEF CustodyType
<1> HIDE DEF r
<1> QED
  BY <1>2, <1>3, <1>4, ZenonT(40) DEF CustodyType, ProcIs

LEMMA ProcShows ==
  ASSUME CustodyType, NEW p \in Processes, NEW k \in VaultKeys \cup {NoKey},
         proc' = [proc EXCEPT ![p].key = k]
  PROVE  /\ ProcIs(p, proc[p].pc, proc[p].dir, k, proc[p].servers, proc[p].signer)
         /\ (proc'[p].created <=> proc[p].created)
<1> DEFINE r == [proc[p] EXCEPT !.key = k]
<1>1. proc[p] \in ProcRecords
  BY DEF CustodyType
<1>2. /\ r \in ProcRecords
      /\ r.pc = proc[p].pc /\ r.dir = proc[p].dir /\ r.key = k /\ r.servers = proc[p].servers /\ r.signer = proc[p].signer
  BY <1>1 DEF ProcRecords
<1>3. r.created <=> proc[p].created
  BY <1>1 DEF ProcRecords
<1>4. proc' = [proc EXCEPT ![p] = r]
  BY DEF CustodyType
<1> HIDE DEF r
<1> QED
  BY <1>2, <1>3, <1>4 DEF CustodyType, ProcIs

LEMMA ProcSigns ==
  ASSUME CustodyType, NEW p \in Processes, NEW k \in VaultKeys \cup {NoKey},
         proc' = [proc EXCEPT ![p].signer = k]
  PROVE  /\ ProcIs(p, proc[p].pc, proc[p].dir, proc[p].key, proc[p].servers, k)
         /\ (proc'[p].created <=> proc[p].created)
<1> DEFINE r == [proc[p] EXCEPT !.signer = k]
<1>1. proc[p] \in ProcRecords
  BY DEF CustodyType
<1>2. /\ r \in ProcRecords
      /\ r.pc = proc[p].pc /\ r.dir = proc[p].dir /\ r.key = proc[p].key /\ r.servers = proc[p].servers /\ r.signer = k
  BY <1>1 DEF ProcRecords
<1>3. r.created <=> proc[p].created
  BY <1>1 DEF ProcRecords
<1>4. proc' = [proc EXCEPT ![p] = r]
  BY DEF CustodyType
<1> HIDE DEF r
<1> QED
  BY <1>2, <1>3, <1>4 DEF CustodyType, ProcIs

LEMMA ProcDies ==
  ASSUME CustodyType, NEW p \in Processes, proc' = [proc EXCEPT ![p].pc = "failed", ![p].signer = NoKey]
  PROVE  /\ ProcIs(p, "failed", proc[p].dir, proc[p].key, proc[p].servers, NoKey)
         /\ (proc'[p].created <=> proc[p].created)
<1> DEFINE r == [proc[p] EXCEPT !.pc = "failed", !.signer = NoKey]
<1>1. proc[p] \in ProcRecords
  BY DEF CustodyType
<1>2. /\ r \in ProcRecords
      /\ r.pc = "failed" /\ r.dir = proc[p].dir /\ r.key = proc[p].key /\ r.servers = proc[p].servers /\ r.signer = NoKey
  BY <1>1 DEF ProcRecords, ProcPCs
<1>3. r.created <=> proc[p].created
  BY <1>1 DEF ProcRecords
<1>4. proc' = [proc EXCEPT ![p] = r]
  BY DEF CustodyType
<1> HIDE DEF r
<1> QED
  BY <1>2, <1>3, <1>4, ZenonT(40) DEF CustodyType, ProcIs

\* The first of a list that is not empty is on it.
LEMMA FirstIsLabelled ==
  ASSUME CustodyType, NEW dir
  PROVE  /\ FirstLabelled(dir) \in VaultKeys \cup {NoKey}
         /\ Labelled(dir) # {} => FirstLabelled(dir) \in Labelled(dir)
         /\ Labelled(dir) = {} <=> FirstLabelled(dir) = NoKey
<1>1. Labelled(dir) \subseteq VaultKeys /\ NoKey \notin VaultKeys
  BY VaultAssumption DEF Labelled, LabelledKeys, CustodyType
<1>2. CASE Labelled(dir) # {}
  <2> DEFINE T == {k[2] : k \in Labelled(dir)}
  <2>1. \A k \in Labelled(dir) : k[2] \in Nat
    BY <1>1, VaultAssumption
  <2>2. T \subseteq Nat /\ T # {}
    BY <1>2, <2>1
  <2>3. PICK m \in T : \A n \in T : m <= n
    BY <2>2, LeastNatural
  <2>4. PICK k \in Labelled(dir) : k[2] = m
    BY <2>3
  <2>5. \A l \in Labelled(dir) : ~(l[2] < k[2])
    <3>1. \A l \in Labelled(dir) : m <= l[2] /\ l[2] \in Nat /\ m \in Nat
      BY <2>1, <2>3
    <3> QED
      BY <2>4, <3>1
  <2>6. FirstLabelled(dir) \in Labelled(dir)
    BY <1>2, <2>5 DEF FirstLabelled, Before
  <2> QED
    BY <1>1, <1>2, <2>6
<1>3. CASE Labelled(dir) = {}
  BY <1>3 DEF FirstLabelled
<1> QED
  BY <1>2, <1>3

\* A key a process has labelled, or takes for the vault, is one of its directory.
KnowsVault(p) ==
  /\ proc[p].pc = "labelling" => /\ proc[p].key \in VaultKeys /\ proc[p].key \in keyFile
                                 /\ proc[p].key[1] = proc[p].dir /\ proc[p].created
  /\ proc[p].pc = "storing" => proc[p].created
  /\ proc[p].pc \in {"storing", "reading", "merging", "writing", "serving"} =>
       proc[p].key \in Labelled(proc[p].dir)
  /\ proc[p].signer # NoKey => proc[p].pc = "serving" /\ proc[p].signer \in Labelled(proc[p].dir)

\* A labelled key opens, unless whoever made it has not stored its passphrase.
CanOpen(k) ==
  /\ k \in keyFile
  /\ k \in keySecret \/ \E p \in Processes :
       proc[p].created /\ proc[p].key = k /\ proc[p].pc \in {"storing", "failed"}

\* Who makes a key is alone at it, and found none.
MakesAlone(p) ==
  /\ proc[p].pc \in {"filing", "labelling"} => Labelled(proc[p].dir) = {}
  /\ \A q \in Processes \ {p} :
       proc[p].pc \in {"filing", "labelling", "storing"} /\ proc[q].pc \in {"filing", "labelling", "storing"} =>
         proc[p].dir # proc[q].dir

VaultInv ==
  /\ CustodyType /\ shown \subseteq keyMeta
  /\ \A p \in Processes : KnowsVault(p)
  /\ \A k \in keyMeta : CanOpen(k)
  /\ raced \/ /\ \A k, l \in keyMeta : k[1] = l[1] => k = l
              /\ \A p \in Processes : MakesAlone(p)

LEMMA VaultKept ==
  ASSUME VaultInv
  PROVE  SecondVaultsAreRaced /\ DeadVaultsAreHalfMade
<1>1. \A k \in shown : k \in keyMeta
  BY DEF VaultInv
<1>2. DeadVaultsAreHalfMade
  BY <1>1 DEF VaultInv, CanOpen, DeadVaultsAreHalfMade, Loadable, Load, Answer
<1>3. ASSUME ~raced, NEW p \in Processes
      PROVE  proc[p].signer \in {NoKey, proc[p].key}
  BY <1>3 DEF VaultInv, KnowsVault, Labelled, LabelledKeys
<1>4. ASSUME ~raced
      PROVE  \A k, l \in shown : k[1] = l[1] => k = l
  BY <1>1, <1>4 DEF VaultInv
<1> QED
  BY <1>2, <1>3, <1>4 DEF SecondVaultsAreRaced

\* A step of one process that leaves the keystore as it is.
LEMMA QuietVault ==
  ASSUME VaultInv, UNCHANGED <<keystoreVars, raced>>,
         NEW p \in Processes, NEW pc, NEW dir, NEW key, NEW servers, NEW signer,
         ProcIs(p, pc, dir, key, servers, signer), proc'[p].created <=> proc[p].created,
         pc \notin {"filing", "labelling", "storing"},
         proc[p].pc \in {"storing", "failed"} => pc = "failed" /\ key = proc[p].key,
         pc \in {"reading", "merging", "writing", "serving"} => key \in Labelled(dir),
         signer # NoKey => pc = "serving" /\ signer \in Labelled(dir),
         config' \in [state : {"absent", "cut", "good", "refused"}, dir : {DefaultDir, OwnDir}],
         claude' \in [json : BOOLEAN, servers : Servers], shown' \subseteq keyMeta
  PROVE  VaultInv'
<1>1. /\ proc' \in [Processes -> ProcRecords]
      /\ proc'[p].pc = pc /\ proc'[p].dir = dir /\ proc'[p].key = key /\ proc'[p].signer = signer
      /\ \A q \in Processes \ {p} : proc'[q] = proc[q]
  BY DEF ProcIs
<1>2. UNCHANGED <<keyFile, keyMeta, keySecret>> /\ \A d : Labelled(d)' = Labelled(d)
  BY DEF keystoreVars, Labelled, LabelledKeys
<1>3. CustodyType'
  BY <1>1, <1>2 DEF CustodyType, VaultInv
<1>4. ASSUME NEW q \in Processes PROVE KnowsVault(q)'
  <2>1. CASE q = p
    BY <1>1, <1>2, <2>1 DEF KnowsVault
  <2>2. CASE q # p
    BY <1>1, <1>2, <2>2 DEF KnowsVault, VaultInv
  <2> QED
    BY <2>1, <2>2
<1>5. ASSUME NEW k \in keyMeta PROVE CanOpen(k)'
  BY <1>1, <1>2 DEF CanOpen, VaultInv
<1>6. ASSUME ~raced, NEW q \in Processes PROVE MakesAlone(q)'
  BY <1>1, <1>2, <1>6 DEF MakesAlone, VaultInv
<1> QED
  BY <1>2, <1>3, <1>4, <1>5, <1>6 DEF VaultInv

---------------------------------------------------------------------------
(* ensure: a key is found, or filed, labelled and stored                    *)

\* What is found decides; whoever finds nothing is alone, or the race is on record.
LEMMA EnsureKeepsVault ==
  ASSUME VaultInv, NEW p \in Processes, Ensure(p)
  PROVE  VaultInv'
<1> DEFINE first == FirstLabelled(proc[p].dir)
<1>1. /\ CustodyType /\ proc[p].pc = "listing" /\ Races(p)
      /\ UNCHANGED <<keystoreVars, config, claude, shown>>
      /\ proc' = [proc EXCEPT ![p].key = first, ![p].pc = IF first = NoKey THEN "filing" ELSE Ensured(p)]
  BY DEF Ensure, At, VaultInv
<1>2. /\ first \in VaultKeys \cup {NoKey}
      /\ first # NoKey => first \in Labelled(proc[p].dir)
      /\ first = NoKey => Labelled(proc[p].dir) = {}
  BY <1>1, FirstIsLabelled
<1> HIDE DEF first
<1>3. proc[p].signer = NoKey
  BY <1>1 DEF VaultInv, KnowsVault
<1>4. Ensured(p) \in {"reading", "serving"}
  BY DEF Ensured
<1>5. PICK pc \in {"filing", "reading", "serving"} :
        /\ proc' = [proc EXCEPT ![p].key = first, ![p].pc = pc]
        /\ pc = "filing" <=> first = NoKey
  BY <1>1, <1>4
<1>6. /\ ProcIs(p, pc, proc[p].dir, first, proc[p].servers, proc[p].signer)
      /\ proc'[p].created <=> proc[p].created
  <2>1. pc \in ProcPCs
    BY <1>5 DEF ProcPCs
  <2> QED BY <1>1, <1>2, <1>5, <2>1, ProcKnows
<1>7. /\ proc' \in [Processes -> ProcRecords]
      /\ proc'[p].pc = pc /\ proc'[p].dir = proc[p].dir /\ proc'[p].key = first /\ proc'[p].signer = NoKey
      /\ \A q \in Processes \ {p} : proc'[q] = proc[q]
  BY <1>3, <1>6 DEF ProcIs
<1>8. UNCHANGED <<keyFile, keyMeta, keySecret>> /\ \A d : Labelled(d)' = Labelled(d)
  BY <1>1 DEF keystoreVars, Labelled, LabelledKeys
<1>9. CustodyType'
  BY <1>1, <1>7, <1>8 DEF CustodyType
<1>10. ASSUME NEW q \in Processes PROVE KnowsVault(q)'
  <2>1. CASE q = p
    BY <1>2, <1>5, <1>7, <1>8, <2>1 DEF KnowsVault
  <2>2. CASE q # p
    BY <1>7, <1>8, <2>2 DEF KnowsVault, VaultInv
  <2> QED
    BY <2>1, <2>2
<1>11. ASSUME NEW k \in keyMeta PROVE CanOpen(k)'
  BY <1>1, <1>7, <1>8 DEF CanOpen, VaultInv
<1>12. ASSUME ~raced' PROVE /\ ~raced
                            /\ \A q \in Processes : MakesAlone(q)'
  <2>1. ~raced /\ \A q \in Processes \ {p} : AtKeystore(q) => proc[q].dir # proc[p].dir
    BY <1>1, <1>12 DEF Races
  <2>2. \A q \in Processes : MakesAlone(q)
    BY <2>1 DEF VaultInv
  <2>3. ASSUME NEW q \in Processes PROVE MakesAlone(q)'
    <3>1. CASE q = p
      <4>1. proc'[p].pc \in {"filing", "labelling"} => Labelled(proc[p].dir) = {}
        BY <1>2, <1>5, <1>7
      <4> QED
        BY <1>7, <1>8, <2>1, <3>1, <4>1 DEF MakesAlone, AtKeystore
    <3>2. CASE q # p
      BY <1>7, <1>8, <2>1, <2>2, <3>2 DEF MakesAlone, AtKeystore
    <3> QED
      BY <3>1, <3>2
  <2> QED
    BY <2>1, <2>3
<1> QED
  BY <1>1, <1>8, <1>9, <1>10, <1>11, <1>12 DEF VaultInv

LEMMA CreateKeepsVault ==
  ASSUME VaultInv, NEW p \in Processes, NEW k \in VaultKeys, CreateVault(p, k)
  PROVE  VaultInv'
<1>1. /\ CustodyType /\ proc[p].pc = "filing" /\ k[1] = proc[p].dir
      /\ UNCHANGED <<keyMeta, keySecret, config, claude, shown, raced>> /\ keyFile' = keyFile \cup {k}
      /\ proc' = [proc EXCEPT ![p] = [@ EXCEPT !.key = k, !.created = TRUE, !.pc = "labelling"]]
  BY DEF CreateVault, At, WriteKeyFile, VaultInv
<1>2. /\ ProcIs(p, "labelling", proc[p].dir, k, proc[p].servers, proc[p].signer)
      /\ proc'[p].created
  BY <1>1, ProcCreates
<1>3. /\ proc' \in [Processes -> ProcRecords]
      /\ proc'[p].pc = "labelling" /\ proc'[p].dir = proc[p].dir /\ proc'[p].key = k
      /\ proc'[p].signer = proc[p].signer
      /\ \A q \in Processes \ {p} : proc'[q] = proc[q]
  BY <1>2 DEF ProcIs
<1>4. \A d : Labelled(d)' = Labelled(d)
  BY <1>1 DEF Labelled, LabelledKeys
<1>5. CustodyType'
  BY <1>1, <1>3 DEF CustodyType
<1>6. ASSUME NEW q \in Processes PROVE KnowsVault(q)'
  <2>1. CASE q = p
    BY <1>1, <1>2, <1>3, <2>1 DEF KnowsVault, VaultInv
  <2>2. CASE q # p
    BY <1>1, <1>3, <1>4, <2>2 DEF KnowsVault, VaultInv
  <2> QED
    BY <2>1, <2>2
<1>7. ASSUME NEW l \in keyMeta PROVE CanOpen(l)'
  BY <1>1, <1>3 DEF CanOpen, VaultInv
<1>8. ASSUME ~raced, NEW q \in Processes PROVE MakesAlone(q)'
  BY <1>1, <1>3, <1>4, <1>8 DEF MakesAlone, VaultInv
<1> QED
  BY <1>1, <1>5, <1>6, <1>7, <1>8 DEF VaultInv

LEMMA LabelKeepsVault ==
  ASSUME VaultInv, NEW p \in Processes, LabelVault(p)
  PROVE  VaultInv'
<1> DEFINE k == proc[p].key
<1>1. /\ CustodyType /\ proc[p].pc = "labelling" /\ Proceeds(p, "storing")
      /\ UNCHANGED <<keyFile, keySecret, config, claude, shown, raced>> /\ keyMeta' = keyMeta \cup {k}
  BY DEF LabelVault, At, WriteLabel, VaultInv
<1>2. /\ ProcIs(p, "storing", proc[p].dir, k, proc[p].servers, proc[p].signer)
      /\ (proc'[p].created <=> proc[p].created)
  BY <1>1, ProcProceeds DEF ProcPCs
<1>3. k \in VaultKeys /\ k \in keyFile /\ k[1] = proc[p].dir /\ proc[p].created /\ proc[p].signer = NoKey
  BY <1>1 DEF VaultInv, KnowsVault
<1> HIDE DEF k
<1>4. /\ proc' \in [Processes -> ProcRecords]
      /\ proc'[p].pc = "storing" /\ proc'[p].dir = proc[p].dir /\ proc'[p].key = k
      /\ proc'[p].signer = NoKey /\ proc'[p].created
      /\ \A q \in Processes \ {p} : proc'[q] = proc[q]
  BY <1>2, <1>3 DEF ProcIs
<1>5. \A d : Labelled(d)' = IF d = k[1] THEN Labelled(d) \cup {k} ELSE Labelled(d)
  BY <1>1 DEF Labelled, LabelledKeys
<1>6. CustodyType'
  BY <1>1, <1>3, <1>4 DEF CustodyType
<1>7. ASSUME NEW q \in Processes PROVE KnowsVault(q)'
  <2>1. CASE q = p
    BY <1>1, <1>3, <1>4, <1>5, <2>1 DEF KnowsVault
  <2>2. CASE q # p
    BY <1>1, <1>4, <1>5, <2>2 DEF KnowsVault, VaultInv
  <2> QED
    BY <2>1, <2>2
<1>8. ASSUME NEW l \in keyMeta' PROVE CanOpen(l)'
  <2>1. CASE l = k
    BY <1>1, <1>3, <1>4, <2>1 DEF CanOpen
  <2>2. CASE l # k
    BY <1>1, <1>4, <2>2 DEF CanOpen, VaultInv
  <2> QED
    BY <2>1, <2>2
<1>9. ASSUME ~raced PROVE /\ \A l, m \in keyMeta' : l[1] = m[1] => l = m
                          /\ \A q \in Processes : MakesAlone(q)'
  <2>1. /\ \A l, m \in keyMeta : l[1] = m[1] => l = m
        /\ \A q \in Processes : MakesAlone(q)
    BY <1>9 DEF VaultInv
  <2>2. \A l \in keyMeta : l[1] # k[1]
    BY <1>1, <1>3, <2>1 DEF MakesAlone, Labelled, LabelledKeys
  <2>3. ASSUME NEW q \in Processes PROVE MakesAlone(q)'
    <3>1. CASE q = p
      BY <1>1, <1>4, <2>1, <3>1 DEF MakesAlone
    <3>2. CASE q # p
      BY <1>1, <1>3, <1>4, <1>5, <2>1, <3>2 DEF MakesAlone
    <3> QED
      BY <3>1, <3>2
  <2> QED
    BY <1>1, <2>1, <2>2, <2>3
<1> QED
  BY <1>1, <1>6, <1>7, <1>8, <1>9 DEF VaultInv

LEMMA StoreKeepsVault ==
  ASSUME VaultInv, NEW p \in Processes, StoreVaultSecret(p)
  PROVE  VaultInv'
<1>1. /\ CustodyType /\ proc[p].pc = "storing"
      /\ UNCHANGED <<keyFile, keyMeta, config, claude, shown, raced>>
      /\ keySecret' = keySecret \cup {proc[p].key}
  BY DEF StoreVaultSecret, At, PutSecret, VaultInv
<1>2. PICK pc \in {"reading", "serving"} : Proceeds(p, pc)
  BY DEF StoreVaultSecret, Ensured
<1>3. /\ ProcIs(p, pc, proc[p].dir, proc[p].key, proc[p].servers, proc[p].signer)
      /\ (proc'[p].created <=> proc[p].created)
  BY <1>1, <1>2, ProcProceeds DEF ProcPCs
<1>4. proc[p].key \in Labelled(proc[p].dir) /\ proc[p].signer = NoKey
  BY <1>1 DEF VaultInv, KnowsVault
<1>5. /\ proc' \in [Processes -> ProcRecords]
      /\ proc'[p].pc = pc /\ proc'[p].dir = proc[p].dir /\ proc'[p].key = proc[p].key
      /\ proc'[p].signer = NoKey
      /\ \A q \in Processes \ {p} : proc'[q] = proc[q]
  BY <1>3, <1>4 DEF ProcIs
<1>6. \A d : Labelled(d)' = Labelled(d)
  BY <1>1 DEF Labelled, LabelledKeys
<1>7. CustodyType'
  BY <1>1, <1>5 DEF CustodyType
<1>8. ASSUME NEW q \in Processes PROVE KnowsVault(q)'
  <2>1. CASE q = p
    BY <1>2, <1>4, <1>5, <1>6, <2>1 DEF KnowsVault
  <2>2. CASE q # p
    BY <1>1, <1>5, <1>6, <2>2 DEF KnowsVault, VaultInv
  <2> QED
    BY <2>1, <2>2
<1>9. ASSUME NEW l \in keyMeta PROVE CanOpen(l)'
  <2>1. CASE l = proc[p].key
    BY <1>1, <2>1 DEF CanOpen, VaultInv
  <2>2. CASE l # proc[p].key
    BY <1>1, <1>5, <2>2 DEF CanOpen, VaultInv
  <2> QED
    BY <2>1, <2>2
<1>10. ASSUME ~raced, NEW q \in Processes PROVE MakesAlone(q)'
  BY <1>1, <1>2, <1>5, <1>6, <1>10 DEF MakesAlone, VaultInv
<1> QED
  BY <1>1, <1>7, <1>8, <1>9, <1>10 DEF VaultInv

\* A launch, and what a process does once the vault's key is known.
LEMMA LaunchKeepsVault ==
  ASSUME VaultInv, NEW p \in Processes, NEW role \in {"init", "status", "server"},
         NEW pc \in {"saving", "listing", "done", "failed"}, NEW dir \in {DefaultDir, OwnDir},
         Launches(p, role, pc, dir), UNCHANGED <<keystoreVars, raced, claude>>,
         config' \in [state : {"absent", "cut", "good", "refused"}, dir : {DefaultDir, OwnDir}],
         shown' \subseteq keyMeta
  PROVE  VaultInv'
<1>1. CustodyType /\ proc[p].pc = "unstarted" /\ claude' \in [json : BOOLEAN, servers : Servers]
  BY DEF VaultInv, CustodyType, Launches, At
<1>2. /\ ProcIs(p, pc, dir, proc[p].key, proc[p].servers, proc[p].signer)
      /\ (proc'[p].created <=> proc[p].created)
  BY <1>1, ProcLaunches DEF ProcPCs
<1>3. proc[p].signer = NoKey
  BY <1>1 DEF VaultInv, KnowsVault
<1> QED
  BY <1>1, <1>2, <1>3, QuietVault

LEMMA ProcessKeepsVault ==
  ASSUME VaultInv, NEW p \in Processes,
         \/ SaveConfig(p) \/ StoreRefuses(p) \/ ReadClaude(p) \/ TruncateClaude(p) \/ WriteClaude(p)
         \/ ShowPanel(p) \/ UnlockVault(p) \/ LockVault(p) \/ Dies(p)
  PROVE  VaultInv'
<1>1. CustodyType /\ KnowsVault(p) /\ shown \subseteq keyMeta
  BY DEF VaultInv
<1>2. /\ UNCHANGED <<keystoreVars, raced>>
      /\ config' \in [state : {"absent", "cut", "good", "refused"}, dir : {DefaultDir, OwnDir}]
  <2>1. UNCHANGED <<keystoreVars, raced>> /\ (UNCHANGED config \/ config' = [state |-> "good", dir |-> DefaultDir])
    BY DEF SaveConfig, StoreRefuses, ReadClaude, TruncateClaude, WriteClaude, ShowPanel, UnlockVault,
           LockVault, Dies
  <2> QED
    BY <1>1, <2>1 DEF CustodyType
<1>3. proc[p] \in ProcRecords /\ claude \in [json : BOOLEAN, servers : Servers]
  BY <1>1 DEF CustodyType
<1>4. claude' \in [json : BOOLEAN, servers : Servers]
  <2>1. {} \in Servers /\ proc[p].servers \cup {"savetogether"} \in Servers
    BY <1>3 DEF Servers, ProcRecords
  <2>2. \/ UNCHANGED claude
        \/ claude' = [json |-> FALSE, servers |-> {}]
        \/ claude' = [json |-> TRUE, servers |-> proc[p].servers \cup {"savetogether"}]
    BY DEF SaveConfig, StoreRefuses, ReadClaude, TruncateClaude, WriteClaude, ShowPanel, UnlockVault,
           LockVault, Dies
  <2>3. [json |-> FALSE, servers |-> {}] \in [json : BOOLEAN, servers : Servers]
    BY <2>1
  <2>4. [json |-> TRUE, servers |-> proc[p].servers \cup {"savetogether"}] \in [json : BOOLEAN, servers : Servers]
    BY <2>1
  <2> QED
    BY <1>3, <2>2, <2>3, <2>4
<1>5. ASSUME NEW pc \in ProcPCs \ {"filing", "labelling", "storing"}, Proceeds(p, pc),
             proc[p].signer = NoKey, proc[p].pc \in {"storing", "failed"} => pc = "failed",
             pc \in {"reading", "merging", "writing", "serving"} => proc[p].key \in Labelled(proc[p].dir),
             shown' \subseteq keyMeta
      PROVE  VaultInv'
  <2>1. /\ ProcIs(p, pc, proc[p].dir, proc[p].key, proc[p].servers, proc[p].signer)
        /\ (proc'[p].created <=> proc[p].created)
    BY <1>1, <1>5, ProcProceeds
  <2> QED
    BY <1>2, <1>4, <1>5, <2>1, QuietVault
<1>6. CASE SaveConfig(p) \/ StoreRefuses(p) \/ TruncateClaude(p) \/ WriteClaude(p)
  <2>1. PICK pc \in {"listing", "failed", "writing", "done"} :
          /\ Proceeds(p, pc) /\ proc[p].pc \in {"saving", "storing", "merging", "writing"}
          /\ proc[p].pc = "storing" => pc = "failed"
          /\ pc = "writing" => proc[p].pc = "merging"
    BY <1>6 DEF SaveConfig, StoreRefuses, TruncateClaude, WriteClaude, At
  <2>2. shown' \subseteq keyMeta
    BY <1>1, <1>6 DEF SaveConfig, StoreRefuses, TruncateClaude, WriteClaude, At, KnowsVault, Labelled, LabelledKeys
  <2> QED
    BY <1>1, <1>5, <2>1, <2>2 DEF KnowsVault, ProcPCs
<1>7. CASE ReadClaude(p)
  <2>1. ServersRead \in Servers
    BY <1>3 DEF ServersRead, Servers
  <2>2. proc' = [proc EXCEPT ![p].servers = ServersRead, ![p].pc = "merging"] /\ proc[p].pc = "reading"
    BY <1>7 DEF ReadClaude, At
  <2>3. /\ ProcIs(p, "merging", proc[p].dir, proc[p].key, ServersRead, proc[p].signer)
        /\ (proc'[p].created <=> proc[p].created)
    BY <1>1, <2>1, <2>2, ProcReads
  <2>4. shown' \subseteq keyMeta
    BY <1>1, <1>7 DEF ReadClaude
  <2>5. /\ proc[p].pc = "reading" /\ proc[p].signer = NoKey
        /\ proc[p].key \in Labelled(proc[p].dir)
    BY <1>1, <2>2 DEF KnowsVault
  <2> QED
    BY <1>2, <1>4, <2>3, <2>4, <2>5, QuietVault
<1>8. CASE ShowPanel(p)
  <2> DEFINE k == FirstLabelled(proc[p].dir)
  <2>1. proc' = [proc EXCEPT ![p].key = k] /\ proc[p].pc = "serving" /\ shown' = shown \cup {k}
    BY <1>8 DEF ShowPanel, At
  <2>2. k \in VaultKeys \cup {NoKey} /\ k \in Labelled(proc[p].dir)
    BY <1>1, <2>1, FirstIsLabelled DEF KnowsVault
  <2> HIDE DEF k
  <2>3. /\ ProcIs(p, "serving", proc[p].dir, k, proc[p].servers, proc[p].signer)
        /\ (proc'[p].created <=> proc[p].created)
    BY <1>1, <2>1, <2>2, ProcShows
  <2>4. shown' \subseteq keyMeta
    BY <1>1, <2>1, <2>2 DEF Labelled, LabelledKeys
  <2> QED
    BY <1>1, <1>2, <1>4, <2>1, <2>2, <2>3, <2>4, QuietVault DEF KnowsVault
<1>9. CASE UnlockVault(p) \/ LockVault(p)
  <2>1. PICK k \in {NoKey, FirstLabelled(proc[p].dir)} :
          proc' = [proc EXCEPT ![p].signer = k] /\ proc[p].pc = "serving"
    BY <1>1, <1>9 DEF UnlockVault, LockVault, At, KnowsVault
  <2>2. k \in VaultKeys \cup {NoKey} /\ (k # NoKey => k \in Labelled(proc[p].dir))
    BY <1>1, <2>1, FirstIsLabelled
  <2>3. /\ ProcIs(p, "serving", proc[p].dir, proc[p].key, proc[p].servers, k)
        /\ (proc'[p].created <=> proc[p].created)
    BY <1>1, <2>1, <2>2, ProcSigns
  <2>4. shown' \subseteq keyMeta
    BY <1>1, <1>9 DEF UnlockVault, LockVault
  <2> QED
    BY <1>1, <1>2, <1>4, <2>1, <2>2, <2>3, <2>4, QuietVault DEF KnowsVault
<1>10. CASE Dies(p)
  <2>1. /\ ProcIs(p, "failed", proc[p].dir, proc[p].key, proc[p].servers, NoKey)
        /\ (proc'[p].created <=> proc[p].created)
    BY <1>1, <1>10, ProcDies DEF Dies
  <2>2. shown' \subseteq keyMeta
    BY <1>1, <1>10 DEF Dies
  <2> QED
    BY <1>2, <1>4, <2>1, <2>2, QuietVault
<1> QED
  BY <1>6, <1>7, <1>8, <1>9, <1>10

LEMMA VaultSteps ==
  ASSUME VaultInv, CustodyNext
  PROVE  VaultInv'
<1>1. CustodyType /\ shown \subseteq keyMeta
  BY DEF VaultInv
<1>2. ASSUME NEW p \in Processes, StartInit(p) \/ Status(p) \/ StartServer(p) \/ StartFails(p)
      PROVE  VaultInv'
  <2>1. /\ UNCHANGED <<keystoreVars, raced, claude>>
        /\ config' \in [state : {"absent", "cut", "good", "refused"}, dir : {DefaultDir, OwnDir}]
    BY <1>1, <1>2 DEF StartInit, Status, StartServer, StartFails, CustodyType
  <2>2. \E role \in {"init", "status", "server"}, pc \in {"saving", "listing", "done", "failed"},
           dir \in {DefaultDir, OwnDir} : Launches(p, role, pc, dir)
    BY <1>1, <1>2 DEF StartInit, Status, StartServer, StartFails, CustodyType
  <2>3. FirstLabelled(DefaultDir) = NoKey \/ FirstLabelled(DefaultDir) \in keyMeta
    BY <1>1, FirstIsLabelled DEF Labelled, LabelledKeys
  <2>4. shown' \subseteq keyMeta
    BY <1>1, <1>2, <2>3 DEF StartInit, Status, StartServer, StartFails
  <2> QED
    BY <2>1, <2>2, <2>4, LaunchKeepsVault
<1>3. CASE EditConfig \/ EditClaude
  <2>1. UNCHANGED <<keyFile, keyMeta, keySecret, proc, shown, raced>>
    BY <1>3 DEF EditConfig, EditClaude, keystoreVars
  <2>2. CustodyType'
    <3>1. CASE EditConfig
      <4>1. config' \in [state : {"absent", "cut", "good", "refused"}, dir : {DefaultDir, OwnDir}]
        BY <3>1 DEF EditConfig
      <4> QED
        BY <1>1, <2>1, <3>1, <4>1 DEF EditConfig, CustodyType
    <3>2. CASE EditClaude
      <4> DEFINE r == [claude EXCEPT !.json = FALSE]
      <4>1. r \in [json : BOOLEAN, servers : Servers]
        BY <1>1 DEF CustodyType
      <4>2. claude' = r /\ UNCHANGED config
        BY <3>2 DEF EditClaude
      <4> HIDE DEF r
      <4> QED
        BY <1>1, <2>1, <4>1, <4>2 DEF CustodyType
    <3> QED
      BY <1>3, <3>1, <3>2
  <2>3. \A d : Labelled(d)' = Labelled(d)
    BY <2>1 DEF Labelled, LabelledKeys
  <2>4. (\A p \in Processes : KnowsVault(p)') /\ (\A k \in keyMeta : CanOpen(k)')
    BY <2>1, <2>3 DEF KnowsVault, CanOpen, VaultInv
  <2>5. ~raced => \A p \in Processes : MakesAlone(p)'
    BY <2>1, <2>3 DEF MakesAlone, VaultInv
  <2> QED
    BY <2>1, <2>2, <2>4, <2>5 DEF VaultInv
<1> QED
  BY <1>2, <1>3, EnsureKeepsVault, CreateKeepsVault, LabelKeepsVault, StoreKeepsVault, ProcessKeepsVault
    DEF CustodyNext

---------------------------------------------------------------------------
(* Claude's configuration                                                  *)

\* What was read of an intact file is everything, and stays so until it is written.
ClaudeInv ==
  damaged \/ /\ claude.json => OtherServers \subseteq claude.servers
             /\ \A p \in Processes : proc[p].pc \in {"merging", "writing"} => OtherServers \subseteq proc[p].servers
             /\ LostServersWereDamaged

\* What keeps Claude's file and holds nothing of it changes nothing here.
LEMMA ClaudeStays ==
  ASSUME ClaudeInv, UNCHANGED claude, damaged' <=> damaged, NEW p \in Processes,
         NEW pc, NEW dir, NEW key, NEW servers, NEW signer, ProcIs(p, pc, dir, key, servers, signer),
         proc[p].pc # "writing", pc \notin {"merging", "writing"}
  PROVE  ClaudeInv'
BY DEF ClaudeInv, LostServersWereDamaged, At, ProcIs

LEMMA ClaudeFileSteps ==
  ASSUME CustodyType, ClaudeInv, NEW p \in Processes, ~damaged',
         ReadClaude(p) \/ TruncateClaude(p) \/ WriteClaude(p) \/ Dies(p)
  PROVE  ClaudeInv'
<1>1. ~damaged
  BY DEF ReadClaude, TruncateClaude, WriteClaude, Dies
<1>2. /\ claude.json => OtherServers \subseteq claude.servers
      /\ \A q \in Processes : proc[q].pc \in {"merging", "writing"} => OtherServers \subseteq proc[q].servers
      /\ OtherServers \subseteq claude.servers \/ \E q \in Processes : proc[q].pc = "writing"
  BY <1>1 DEF ClaudeInv, LostServersWereDamaged, At
<1>3. CASE ReadClaude(p)
  <2>1. ServersRead \in Servers /\ claude.json /\ ServersRead = claude.servers /\ UNCHANGED claude
    BY <1>3 DEF ServersRead, CustodyType, ReadClaude
  <2>2. ProcIs(p, "merging", proc[p].dir, proc[p].key, ServersRead, proc[p].signer)
    BY <1>3, <2>1, ProcReads DEF ReadClaude
  <2> QED
    BY <1>2, <2>1, <2>2 DEF ClaudeInv, LostServersWereDamaged, At, ProcIs
<1>4. CASE TruncateClaude(p)
  <2>1. Proceeds(p, "writing") /\ proc[p].pc = "merging" /\ claude' = [json |-> FALSE, servers |-> {}]
    BY <1>4 DEF TruncateClaude, At
  <2>2. ProcIs(p, "writing", proc[p].dir, proc[p].key, proc[p].servers, proc[p].signer)
    BY <2>1, ProcProceeds DEF ProcPCs
  <2>3. ~claude'.json /\ proc'[p].pc = "writing" /\ proc'[p].servers = proc[p].servers
    BY <2>1, <2>2 DEF ProcIs
  <2> QED
    BY <1>2, <2>1, <2>2, <2>3 DEF ClaudeInv, LostServersWereDamaged, At, ProcIs
<1>5. CASE WriteClaude(p)
  <2>1. /\ Proceeds(p, "done") /\ proc[p].pc = "writing"
        /\ claude' = [json |-> TRUE, servers |-> proc[p].servers \cup {"savetogether"}]
    BY <1>5 DEF WriteClaude, At
  <2>2. ProcIs(p, "done", proc[p].dir, proc[p].key, proc[p].servers, proc[p].signer)
    BY <2>1, ProcProceeds DEF ProcPCs
  <2>3. OtherServers \subseteq claude'.servers
    BY <1>2, <2>1
  <2> QED
    BY <1>2, <2>2, <2>3 DEF ClaudeInv, LostServersWereDamaged, At, ProcIs
<1>6. CASE Dies(p)
  <2>1. proc[p].pc # "writing" /\ UNCHANGED claude
    BY <1>6 DEF Dies, At
  <2>2. ProcIs(p, "failed", proc[p].dir, proc[p].key, proc[p].servers, NoKey)
    BY <1>6, ProcDies DEF Dies
  <2> QED
    BY <1>1, <2>1, <2>2, ClaudeStays
<1> QED
  BY <1>3, <1>4, <1>5, <1>6

LEMMA ClaudeStep ==
  ASSUME CustodyType, ClaudeInv, CustodyNext
  PROVE  ClaudeInv'
<1>1. CASE damaged'
  BY <1>1 DEF ClaudeInv
<1>2. ASSUME NEW p \in Processes,
             ReadClaude(p) \/ TruncateClaude(p) \/ WriteClaude(p) \/ Dies(p)
      PROVE  ClaudeInv'
  BY <1>1, <1>2, ClaudeFileSteps
<1>3. CASE EditConfig
  BY <1>3 DEF EditConfig, ClaudeInv, LostServersWereDamaged, At
<1>4. CASE EditClaude
  <2>1. ~claude'.json /\ claude'.servers = claude.servers /\ UNCHANGED <<proc, damaged>>
    BY <1>4 DEF EditClaude, CustodyType
  <2> QED
    BY <2>1 DEF ClaudeInv, LostServersWereDamaged, At
<1>5. ASSUME NEW p \in Processes, StartInit(p) \/ Status(p) \/ StartServer(p) \/ StartFails(p)
      PROVE  ClaudeInv'
  <2>1. PICK role \in {"init", "status", "server"}, pc \in {"saving", "listing", "done", "failed"},
             dir \in {DefaultDir, OwnDir} : Launches(p, role, pc, dir)
    BY <1>5 DEF StartInit, Status, StartServer, StartFails, CustodyType
  <2>2. ProcIs(p, pc, dir, proc[p].key, proc[p].servers, proc[p].signer)
    BY <2>1, ProcLaunches DEF ProcPCs
  <2> QED
    BY <1>5, <2>1, <2>2, ClaudeStays DEF StartInit, Status, StartServer, StartFails, Launches, At
<1>6. ASSUME NEW p \in Processes, SaveConfig(p) \/ LabelVault(p) \/ StoreVaultSecret(p) \/ StoreRefuses(p)
      PROVE  ClaudeInv'
  <2>1. PICK pc \in {"listing", "storing", "reading", "serving", "failed"} :
          Proceeds(p, pc) /\ proc[p].pc # "writing" /\ UNCHANGED <<claude, damaged>>
    BY <1>6 DEF SaveConfig, LabelVault, StoreVaultSecret, StoreRefuses, Ensured, At
  <2>2. ProcIs(p, pc, proc[p].dir, proc[p].key, proc[p].servers, proc[p].signer)
    BY <2>1, ProcProceeds DEF ProcPCs
  <2> QED
    BY <2>1, <2>2, ClaudeStays
<1>7. ASSUME NEW p \in Processes, Ensure(p)
      PROVE  ClaudeInv'
  <2>1. FirstLabelled(proc[p].dir) \in VaultKeys \cup {NoKey}
    BY FirstIsLabelled
  <2>2. PICK pc \in {"filing", "reading", "serving"} :
          proc' = [proc EXCEPT ![p].key = FirstLabelled(proc[p].dir), ![p].pc = pc]
    BY <1>7 DEF Ensure, Ensured
  <2>3. ProcIs(p, pc, proc[p].dir, FirstLabelled(proc[p].dir), proc[p].servers, proc[p].signer)
    BY <2>1, <2>2, ProcKnows DEF ProcPCs
  <2> QED
    BY <1>7, <2>3, ClaudeStays DEF Ensure, At
<1>8. ASSUME NEW p \in Processes, NEW k \in VaultKeys, CreateVault(p, k)
      PROVE  ClaudeInv'
  <2>1. ProcIs(p, "labelling", proc[p].dir, k, proc[p].servers, proc[p].signer)
    BY <1>8, ProcCreates DEF CreateVault
  <2> QED
    BY <1>8, <2>1, ClaudeStays DEF CreateVault, At
<1>9. ASSUME NEW p \in Processes, ShowPanel(p) \/ UnlockVault(p) \/ LockVault(p)
      PROVE  ClaudeInv'
  <2>1. UNCHANGED <<claude, damaged>>
    BY <1>9 DEF ShowPanel, UnlockVault, LockVault
  <2>2. FirstLabelled(proc[p].dir) \in VaultKeys \cup {NoKey}
    BY FirstIsLabelled
  <2>3. \E k, l : ProcIs(p, proc[p].pc, proc[p].dir, k, proc[p].servers, l)
    BY <1>9, <2>2, ProcShows, ProcSigns DEF ShowPanel, UnlockVault, LockVault
  <2> QED
    BY <2>1, <2>3 DEF ClaudeInv, LostServersWereDamaged, At, ProcIs
<1> QED
  BY <1>2, <1>3, <1>4, <1>5, <1>6, <1>7, <1>8, <1>9 DEF CustodyNext

---------------------------------------------------------------------------

LEMMA CustodyStep ==
  ASSUME VaultInv, ClaudeInv, [DeploymentNext]_allVars
  PROVE  VaultInv' /\ ClaudeInv'
<1>1. CASE CustodyNext
  BY <1>1, VaultSteps, ClaudeStep DEF VaultInv
<1>2. CASE UNCHANGED custodyVars
  <2>1. UNCHANGED <<keyFile, keyMeta, keySecret, config, claude, proc, shown, raced, damaged>>
    BY <1>2 DEF custodyVars, keystoreVars
  <2>2. \A d : Labelled(d)' = Labelled(d)
    BY <2>1 DEF Labelled, LabelledKeys
  <2>3. CustodyType' /\ ClaudeInv'
    BY <2>1 DEF CustodyType, VaultInv, ClaudeInv, LostServersWereDamaged, At
  <2>4. (\A p \in Processes : KnowsVault(p)') /\ (\A k \in keyMeta : CanOpen(k)')
    BY <2>1, <2>2 DEF KnowsVault, CanOpen, VaultInv
  <2>5. ~raced => \A p \in Processes : MakesAlone(p)'
    BY <2>1, <2>2 DEF MakesAlone, VaultInv
  <2> QED
    BY <2>1, <2>3, <2>4, <2>5 DEF VaultInv
<1>3. CustodyNext \/ UNCHANGED custodyVars
  BY DEF DeploymentNext, SetupSteps, LocalSteps, HostedSteps, BudgetSteps, allVars
<1> QED
  BY <1>1, <1>2, <1>3

\* A second vault takes two processes in `ensure` at once, a vault nothing unlocks one
\* that ended before its passphrase was stored, a lost entry a file that could not be
\* parsed or was left cut: for every number of processes and of keys, wherever they die,
\* there is no other way (ensure, create, unlock, init).
THEOREM LossesAreKnown == DeploymentSpec => []LossesAreTheKnownOnes
<1>1. ASSUME DeploymentInit
      PROVE  VaultInv /\ ClaudeInv
  <2>1. /\ keyFile = {} /\ keyMeta = {} /\ keySecret = {} /\ shown = {} /\ ~damaged
        /\ config \in {[state |-> "absent", dir |-> DefaultDir], [state |-> "good", dir |-> OwnDir]}
        /\ claude = [json |-> TRUE, servers |-> OtherServers]
        /\ proc = [p \in Processes |-> Unstarted]
    BY <1>1 DEF DeploymentInit, CustodyInit, KeystoreInit
  <2>2. Unstarted \in ProcRecords /\ Unstarted.pc = "unstarted" /\ Unstarted.signer = NoKey
    BY DEF Unstarted, ProcRecords, ProcPCs, Servers
  <2>3. OtherServers \in Servers
    BY DEF Servers
  <2>4. claude \in [json : BOOLEAN, servers : Servers] /\ claude.servers = OtherServers
    BY <2>1, <2>3
  <2>5. CustodyType
    BY <2>1, <2>2, <2>4 DEF CustodyType
  <2>6. VaultInv
    BY <2>1, <2>2, <2>5 DEF VaultInv, KnowsVault, MakesAlone
  <2>7. ClaudeInv
    BY <2>1, <2>2, <2>4 DEF ClaudeInv, LostServersWereDamaged
  <2> QED
    BY <2>6, <2>7
<1>2. VaultInv /\ ClaudeInv => LossesAreTheKnownOnes
  BY VaultKept DEF ClaudeInv, LostServersWereDamaged, LossesAreTheKnownOnes
<1> QED
  BY <1>1, <1>2, CustodyStep, PTL DEF DeploymentSpec

---------------------------------------------------------------------------
(* can_afford                                                              *)

Flags == [Worlds -> BOOLEAN]

AskRecords == [pc : {"idle", "asked", "read", "told", "sent"}, n : Nat, read : [Worlds -> Nat],
               yes : Flags, moved : Flags, overtaken : BOOLEAN]

\* What was read is still the budget unless a send was mined since; what was told is
\* what the bucket says of it.
AskedInv ==
  /\ left \in [Worlds -> Nat] /\ held \in Seq([Worlds -> Nat])
  /\ asks \in [Slots -> AskRecords]
  /\ \A c \in Slots :
       /\ asks[c].pc \in {"read", "told"} /\ ~asks[c].overtaken => asks[c].read = left
       /\ asks[c].pc = "told" => asks[c].yes = Affordable(c)
       /\ asks[c].pc = "sent" /\ ~asks[c].overtaken =>
            \A w \in Worlds : asks[c].yes[w] => asks[c].moved[w]

\* A bucket's floor is below what is in it.
LEMMA FloorIsBelow ==
  ASSUME NEW r \in Nat
  PROVE  Coarsened(r) \in Nat /\ Coarsened(r) <= r
<1>1. CoarseBucket \in Nat \ {0}
  BY BudgetAssumption
<1>2. r \div CoarseBucket \in Nat /\ (r \div CoarseBucket) * CoarseBucket <= r
  BY <1>1
<1> QED
  BY <1>1, <1>2 DEF Coarsened

\* An answer by itself, of whatever was read.
LEMMA OneAnswers ==
  ASSUME AskedInv, NEW c \in Slots, NEW r \in AskRecords, asks' = [asks EXCEPT ![c] = r],
         UNCHANGED <<left, held>>,
         r.pc \in {"read", "told"} /\ ~r.overtaken => r.read = left,
         r.pc = "told" => r.yes = [w \in Worlds |-> Says(r.read[w], r.n)],
         r.pc # "sent"
  PROVE  AskedInv'
<1>1. asks' \in [Slots -> AskRecords] /\ asks'[c] = r /\ \A d \in Slots \ {c} : asks'[d] = asks[d]
  BY DEF AskedInv
<1>2. ASSUME NEW d \in Slots
      PROVE  /\ asks'[d].pc \in {"read", "told"} /\ ~asks'[d].overtaken => asks'[d].read = left
             /\ asks'[d].pc = "told" => asks'[d].yes = [w \in Worlds |-> Says(asks'[d].read[w], asks'[d].n)]
             /\ asks'[d].pc = "sent" /\ ~asks'[d].overtaken =>
                  \A w \in Worlds : asks'[d].yes[w] => asks'[d].moved[w]
  <2>1. CASE d = c
    BY <1>1, <2>1
  <2>2. CASE d # c
    BY <1>1, <2>2 DEF AskedInv, Affordable
  <2> QED
    BY <2>1, <2>2
<1> QED
  BY <1>1, <1>2 DEF AskedInv, Affordable

LEMMA AskingSteps ==
  ASSUME AskedInv, NEW c \in Slots,
         (\E n \in Figures : CanAfford(c, n)) \/ ReadBudget(c) \/ TellAffordable(c)
  PROVE  AskedInv'
<1>1. asks[c] \in AskRecords /\ left \in [Worlds -> Nat]
  BY DEF AskedInv
<1>2. ASSUME NEW n \in Figures, CanAfford(c, n)
      PROVE  AskedInv'
  <2> DEFINE r == [NoAsk EXCEPT !.pc = "asked", !.n = n]
  <2>1. n \in Nat /\ No \in Flags /\ [w \in Worlds |-> 0] \in [Worlds -> Nat]
    BY BudgetAssumption DEF No, Flags
  <2>2. NoAsk \in AskRecords
    BY <2>1 DEF NoAsk, AskRecords
  <2>3. r \in AskRecords /\ r.pc = "asked"
    BY <2>1, <2>2 DEF AskRecords
  <2>4. asks' = [asks EXCEPT ![c] = r] /\ UNCHANGED <<left, held>>
    BY <1>2 DEF CanAfford
  <2> HIDE DEF r
  <2> QED
    BY <2>3, <2>4, OneAnswers
<1>3. CASE ReadBudget(c)
  <2> DEFINE now == [w \in Worlds |-> Decrypted(BudgetHandle, w)]
             r == [asks[c] EXCEPT !.pc = "read", !.read = now]
  <2>1. now = left
    BY <1>1 DEF Decrypted, BudgetHandle
  <2>2. asks' = [asks EXCEPT ![c] = r] /\ UNCHANGED <<left, held>>
    BY <1>3 DEF ReadBudget, AskedInv
  <2> HIDE DEF now
  <2>3. r \in AskRecords /\ r.pc = "read" /\ r.read = left
    BY <1>1, <2>1 DEF AskRecords
  <2> HIDE DEF r
  <2> QED
    BY <2>2, <2>3, OneAnswers
<1>4. CASE TellAffordable(c)
  <2> DEFINE yes == [w \in Worlds |-> Says(asks[c].read[w], asks[c].n)]
             r == [asks[c] EXCEPT !.pc = "told", !.yes = yes]
  <2>1. asks' = [asks EXCEPT ![c] = r] /\ UNCHANGED <<left, held>> /\ asks[c].pc = "read"
    BY <1>4 DEF TellAffordable, Affordable, AskedInv
  <2>2. yes \in Flags
    BY DEF Flags, Says
  <2>3. ~asks[c].overtaken => asks[c].read = left
    BY <2>1 DEF AskedInv
  <2> HIDE DEF yes
  <2>4. /\ r \in AskRecords /\ r.pc = "told" /\ r.read = asks[c].read /\ r.n = asks[c].n /\ r.yes = yes
        /\ (r.overtaken <=> asks[c].overtaken)
    BY <1>1, <2>2 DEF AskRecords
  <2> HIDE DEF r
  <2>5. r.yes = [w \in Worlds |-> Says(r.read[w], r.n)]
    BY <2>4 DEF yes
  <2> QED
    BY <2>1, <2>3, <2>4, <2>5, OneAnswers
<1> QED
  BY <1>2, <1>3, <1>4

\* A send overtakes whoever was told before it was mined; the sender was told of the
\* budget it spends, if nobody overtook it.
LEMMA SpendsStep ==
  ASSUME AskedInv, NEW amount \in [Worlds -> Int], NEW by, Spends(amount, by),
         by \in Slots => asks[by].pc = "told" /\ amount = [w \in Worlds |-> asks[by].n]
  PROVE  AskedInv'
<1> DEFINE moved == Moves(amount)
           r(c) == IF c = by THEN [asks[c] EXCEPT !.pc = "sent", !.moved = moved]
                   ELSE [asks[c] EXCEPT !.overtaken = @ \/ asks[c].pc \in {"read", "told"}]
<1>1. /\ left' = [w \in Worlds |-> IF moved[w] THEN left[w] - amount[w] ELSE left[w]]
      /\ asks' = [c \in Slots |-> r(c)] /\ UNCHANGED held
      /\ \A w \in Worlds : amount[w] > 0
  BY DEF Spends
<1>2. moved \in Flags /\ \A w \in Worlds : moved[w] <=> amount[w] <= left[w]
  <2>1. moved = [w \in Worlds |-> amount[w] <= left[w]]
    BY DEF Moves
  <2> HIDE DEF moved
  <2>2. \A w \in Worlds : (amount[w] <= left[w]) \in BOOLEAN
    OBVIOUS
  <2> QED
    BY <2>1, <2>2 DEF Flags
<1> HIDE DEF moved
<1>3. left' \in [Worlds -> Nat]
  <2>1. ASSUME NEW w \in Worlds
        PROVE  (IF moved[w] THEN left[w] - amount[w] ELSE left[w]) \in Nat
    <3>1. left[w] \in Nat /\ amount[w] \in Int /\ amount[w] > 0
      BY <1>1 DEF AskedInv
    <3> QED
      BY <1>2, <3>1
  <2> QED
    BY <1>1, <2>1
<1>4. ASSUME NEW c \in Slots
      PROVE  /\ r(c) \in AskRecords /\ r(c).yes = asks[c].yes
             /\ c = by => r(c).pc = "sent" /\ r(c).moved = moved /\ (r(c).overtaken <=> asks[c].overtaken)
             /\ c # by => /\ r(c).pc = asks[c].pc /\ r(c).n = asks[c].n /\ r(c).read = asks[c].read
                          /\ r(c).moved = asks[c].moved
                          /\ r(c).overtaken <=> asks[c].overtaken \/ asks[c].pc \in {"read", "told"}
  <2>1. asks[c] \in AskRecords
    BY DEF AskedInv
  <2>2. CASE c = by
    <3> DEFINE e == [asks[c] EXCEPT !.pc = "sent", !.moved = moved]
    <3>1. e \in AskRecords /\ e.yes = asks[c].yes /\ e.pc = "sent" /\ e.moved = moved /\ (e.overtaken <=> asks[c].overtaken)
      BY <1>2, <2>1 DEF AskRecords
    <3>2. r(c) = e
      BY <2>2
    <3> HIDE DEF e, r
    <3> QED
      BY <2>2, <3>1, <3>2
  <2>3. CASE c # by
    <3> DEFINE late == asks[c].overtaken \/ asks[c].pc \in {"read", "told"}
               e == [asks[c] EXCEPT !.overtaken = late]
    <3>1. late \in BOOLEAN
      OBVIOUS
    <3>2. r(c) = e
      BY <2>3
    <3> HIDE DEF late
    <3>3. /\ e \in AskRecords /\ e.yes = asks[c].yes /\ e.pc = asks[c].pc /\ e.n = asks[c].n
          /\ e.read = asks[c].read /\ e.moved = asks[c].moved /\ (e.overtaken <=> late)
      BY <2>1, <3>1 DEF AskRecords
    <3> HIDE DEF e, r
    <3> QED
      BY <2>3, <3>2, <3>3 DEF late
  <2> QED
    BY <2>2, <2>3
<1> HIDE DEF r
<1>5. asks' \in [Slots -> AskRecords] /\ \A c \in Slots : asks'[c] = r(c)
  BY <1>1, <1>4
<1>6. ASSUME NEW c \in Slots
      PROVE  /\ asks'[c].pc \in {"read", "told"} /\ ~asks'[c].overtaken => asks'[c].read = left'
             /\ asks'[c].pc = "told" => asks'[c].yes = [w \in Worlds |-> Says(asks'[c].read[w], asks'[c].n)]
             /\ asks'[c].pc = "sent" /\ ~asks'[c].overtaken =>
                  \A w \in Worlds : asks'[c].yes[w] => asks'[c].moved[w]
  <2>1. CASE c # by
    <3>1. /\ asks'[c].pc = asks[c].pc /\ asks'[c].n = asks[c].n /\ asks'[c].read = asks[c].read
          /\ asks'[c].yes = asks[c].yes /\ asks'[c].moved = asks[c].moved
          /\ asks'[c].overtaken <=> asks[c].overtaken \/ asks[c].pc \in {"read", "told"}
      BY <1>4, <1>5, <2>1
    <3>2. asks[c].pc = "told" => asks[c].yes = [w \in Worlds |-> Says(asks[c].read[w], asks[c].n)]
      BY DEF AskedInv, Affordable
    <3>3. asks[c].pc = "sent" /\ ~asks[c].overtaken => \A w \in Worlds : asks[c].yes[w] => asks[c].moved[w]
      BY DEF AskedInv
    <3> QED
      BY <3>1, <3>2, <3>3
  <2>2. CASE c = by
    <3>1. asks'[c].pc = "sent" /\ asks'[c].moved = moved /\ asks'[c].yes = asks[c].yes
          /\ (asks'[c].overtaken <=> asks[c].overtaken)
      BY <1>4, <1>5, <2>2
    <3>2. ASSUME ~asks[c].overtaken, NEW w \in Worlds, asks[c].yes[w]
          PROVE  moved[w]
      <4>1. asks[c].read = left /\ asks[c].yes = Affordable(c) /\ left[w] \in Nat
        BY <2>2, <3>2 DEF AskedInv
      <4>2. Says(left[w], asks[c].n)
        BY <3>2, <4>1 DEF Affordable
      <4>3. Coarsened(left[w]) <= left[w] /\ Coarsened(left[w]) \in Nat
        BY <4>1, FloorIsBelow
      <4>4. amount[w] = asks[c].n /\ amount[w] \in Int
        BY <2>2
      <4> QED
        BY <1>2, <4>1, <4>2, <4>3, <4>4 DEF Says
    <3> QED
      BY <3>1, <3>2
  <2> QED
    BY <2>1, <2>2
<1> QED
  BY <1>1, <1>3, <1>5, <1>6 DEF AskedInv, Affordable

\* A reading is what was on chain; a part of it is an integer.
LEMMA AmountsAreIntegers ==
  ASSUME AskedInv, NEW spec \in Specs, WellFormed(spec), Known(spec), NEW w \in Worlds
  PROVE  ResolvedIn(w, spec) \in Int
<1>1. CASE spec.id = "figure"
  <2> DEFINE typo == [id |-> "typo", n |-> 0, op |-> ""]
  <2>1. spec \in [id : {"figure"}, n : Figures, op : {"", "half"}] => spec.n \in Figures
    OBVIOUS
  <2>2. spec \in [id : {"ref"}, n : 1..MaxHeld, op : {"", "half", "percent", "third"}] => spec.id = "ref"
    OBVIOUS
  <2>3. typo.id = "typo"
    OBVIOUS
  <2>4. \/ spec \in [id : {"figure"}, n : Figures, op : {"", "half"}]
        \/ spec \in [id : {"ref"}, n : 1..MaxHeld, op : {"", "half", "percent", "third"}]
        \/ spec = typo
    BY Zenon DEF Specs
  <2> HIDE DEF typo
  <2>5. spec.n \in Figures
    BY <1>1, <2>1, <2>2, <2>3, <2>4
  <2>6. Figures \subseteq Int
    BY BudgetAssumption
  <2>7. ResolvedIn(w, spec) = spec.n
    BY <1>1, Zenon DEF ResolvedIn
  <2> QED
    BY <2>5, <2>6, <2>7
<1>2. CASE spec.id = "ref"
  <2>1. spec.n \in DOMAIN held /\ held \in Seq([Worlds -> Nat])
    BY <1>2 DEF Known, AskedInv
  <2>2. held[spec.n] \in [Worlds -> Nat]
    BY <2>1
  <2>3. RefValue(spec.n, w) \in Nat
    BY <2>2 DEF RefValue, Decrypted
  <2>4. \A v \in Nat : (v * 5000) \div 10000 \in Int /\ (v * 25) \div 10000 \in Int
    OBVIOUS
  <2>5. Scale(spec.op, RefValue(spec.n, w)) \in Int
    <3> DEFINE v == RefValue(spec.n, w)
    <3> HIDE DEF v
    <3>1. v \in Nat
      BY <2>3 DEF v
    <3>2. Scale(spec.op, v) \in Int
      BY <2>4, <3>1 DEF Scale
    <3> QED
      BY <3>2 DEF v
  <2> QED
    BY <1>2, <2>5 DEF ResolvedIn
<1> QED
  BY <1>1, <1>2 DEF WellFormed

LEMMA AskedStep ==
  ASSUME AskedInv, [DeploymentNext]_allVars
  PROVE  AskedInv'
<1>1. CASE UNCHANGED budgetVars
  BY <1>1 DEF AskedInv, Affordable, budgetVars
<1>2. CASE BudgetNext
  <2>1. "nobody" \notin Slots /\ Figures \subseteq Nat
    BY BudgetAssumption
  <2>2. CASE Remaining
    <3>1. held' = Append(held, left) /\ UNCHANGED <<left, asks>>
      BY <2>2 DEF Remaining, BudgetHandle
    <3>2. held' \in Seq([Worlds -> Nat])
      BY <3>1 DEF AskedInv
    <3> QED
      BY <3>1, <3>2 DEF AskedInv, Affordable
  <2>3. CASE \E c \in Slots, n \in Figures : CanAfford(c, n)
    BY <2>3, AskingSteps
  <2>4. CASE \E c \in Slots : ReadBudget(c) \/ TellAffordable(c)
    BY <2>4, AskingSteps
  <2>5. ASSUME NEW c \in Slots, SendAfforded(c)
        PROVE  AskedInv'
    <3> DEFINE amount == [w \in Worlds |-> asks[c].n]
    <3>1. asks[c].pc = "told" /\ Spends(amount, c)
      BY <2>5 DEF SendAfforded
    <3>2. amount \in [Worlds -> Int]
      <4>1. asks[c].n \in Nat
        BY DEF AskedInv, AskRecords
      <4> QED
        BY <4>1
    <3>3. amount = [w \in Worlds |-> asks[c].n]
      OBVIOUS
    <3> HIDE DEF amount
    <3> QED
      BY <3>1, <3>2, <3>3, SpendsStep
  <2>6. ASSUME NEW spec \in Specs, SendSpec(spec)
        PROVE  AskedInv'
    <3> DEFINE amount == [w \in Worlds |-> ResolvedIn(w, spec)]
    <3>1. WellFormed(spec) /\ Known(spec) /\ Spends(amount, "nobody")
      BY <2>6 DEF SendSpec
    <3>2. amount \in [Worlds -> Int]
      BY <3>1, AmountsAreIntegers
    <3> HIDE DEF amount
    <3> QED
      BY <2>1, <3>1, <3>2, SpendsStep
  <2>7. ASSUME NEW n \in Figures, SendSealed(n)
        PROVE  AskedInv'
    <3> DEFINE amount == [w \in Worlds |-> n]
    <3>1. Spends(amount, "nobody")
      BY <2>7 DEF SendSealed
    <3>2. amount \in [Worlds -> Int]
      BY <2>1
    <3> HIDE DEF amount
    <3> QED
      BY <2>1, <3>1, <3>2, SpendsStep
  <2> QED
    BY <1>2, <2>2, <2>3, <2>4, <2>5, <2>6, <2>7 DEF BudgetNext
<1> QED
  BY <1>1, <1>2 DEF DeploymentNext, SetupSteps, LocalSteps, HostedSteps, BudgetSteps, allVars

\* The runs of n steps from a start.
RunsFrom(B, step, start, n) ==
  {f \in [0..n -> B] : f[0] = start /\ \A i \in 1..n : f[i] = step[f[i - 1]]}

\* There is one, whatever their number.
LEMMA RunOfSteps ==
  ASSUME NEW B, NEW step \in [B -> B], NEW start \in B, NEW n \in Nat
  PROVE  RunsFrom(B, step, start, n) # {}
<1> DEFINE Runs(f, m) == f[0] = start /\ \A i \in 1..m : f[i] = step[f[i - 1]]
           Bad == {m \in Nat : ~ \E f \in [0..m -> B] : Runs(f, m)}
<1> SUFFICES ASSUME Bad # {} PROVE FALSE
  BY DEF RunsFrom
<1>1. PICK m \in Bad : \A k \in Bad : m <= k
  <2>1. Bad \subseteq Nat
    OBVIOUS
  <2> HIDE DEF Bad
  <2> QED
    BY <2>1, LeastNatural
<1>2. m # 0
  <2>1. [i \in 0..0 |-> start] \in [0..0 -> B] /\ Runs([i \in 0..0 |-> start], 0)
    OBVIOUS
  <2> QED
    BY <2>1
<1>3. m \in Nat /\ m - 1 \in Nat
  BY <1>2
<1>4. m - 1 \notin Bad
  <2> HIDE DEF Bad
  <2> QED
    BY <1>1, <1>3
<1>5. PICK f \in [0..(m - 1) -> B] : Runs(f, m - 1)
  BY <1>3, <1>4
<1> DEFINE g == [i \in 0..m |-> IF i = m THEN step[f[m - 1]] ELSE f[i]]
<1>6. g \in [0..m -> B]
  BY <1>3
<1>7. Runs(g, m)
  <2>1. g[0] = start
    BY <1>2, <1>3, <1>5
  <2>2. ASSUME NEW i \in 1..m
        PROVE  g[i] = step[g[i - 1]]
    <3>1. CASE i = m
      BY <1>3, <3>1
    <3>2. CASE i # m
      BY <1>3, <1>5, <3>2
    <3> QED
      BY <3>1, <3>2
  <2> QED
    BY <2>1, <2>2
<1> QED
  BY <1>3, <1>6, <1>7

\* One call of a bisection for a figure that is, as far as the answers tell, the floor.
Narrower(floor, b) ==
  LET mid == (b.lo + b.hi) \div 2
  IN IF b.hi - b.lo <= 1 THEN b
     ELSE IF floor >= mid THEN [b EXCEPT !.lo = mid]
     ELSE [b EXCEPT !.hi = mid]

\* A bisection sees of a budget its bucket's floor and nothing else.
Search(floor) ==
  LET narrowed[calls \in 0..MaxProbes] ==
        IF calls = 0 THEN [lo |-> 0, hi |-> Upper] ELSE Narrower(floor, narrowed[calls - 1])
  IN narrowed[MaxProbes]

LEMMA SearchSeesTheFloor ==
  ASSUME NEW r
  PROVE  LiveSearch(r) = Search(Coarsened(r))
BY DEF LiveSearch, Search, Narrower, Says

\* The brackets around a floor.
Brackets(floor) == {b \in [lo : Int, hi : Int] : b.lo <= floor /\ floor < b.hi}

LEMMA CallsKeepTheFloor ==
  ASSUME NEW floor \in Nat, NEW b \in Brackets(floor)
  PROVE  Narrower(floor, b) \in Brackets(floor)
<1> DEFINE mid == (b.lo + b.hi) \div 2
<1>1. b \in [lo : Int, hi : Int] /\ b.lo <= floor /\ floor < b.hi
  BY DEF Brackets
<1>2. mid \in Int
  BY <1>1
<1> HIDE DEF mid
<1>3. CASE b.hi - b.lo <= 1
  BY <1>3 DEF Narrower
<1>4. CASE ~ (b.hi - b.lo <= 1) /\ floor >= mid
  <2> DEFINE e == [b EXCEPT !.lo = mid]
  <2>1. e \in [lo : Int, hi : Int] /\ e.lo = mid /\ e.hi = b.hi
    BY <1>1, <1>2
  <2>2. Narrower(floor, b) = e
    BY <1>4 DEF Narrower, mid
  <2> HIDE DEF e
  <2> QED
    BY <1>1, <1>2, <1>4, <2>1, <2>2 DEF Brackets
<1>5. CASE ~ (b.hi - b.lo <= 1) /\ ~ (floor >= mid)
  <2> DEFINE e == [b EXCEPT !.hi = mid]
  <2>1. e \in [lo : Int, hi : Int] /\ e.hi = mid /\ e.lo = b.lo
    BY <1>1, <1>2
  <2>2. Narrower(floor, b) = e
    BY <1>5 DEF Narrower, mid
  <2>3. floor < mid
    BY <1>2, <1>5
  <2> HIDE DEF e
  <2> QED
    BY <1>1, <1>2, <2>1, <2>2, <2>3 DEF Brackets
<1> QED
  BY <1>3, <1>4, <1>5

\* However many calls it makes, a bisection that starts above the floor holds it.
LEMMA SearchHoldsTheFloor ==
  ASSUME NEW floor \in Nat, floor < Upper
  PROVE  Search(floor) \in Brackets(floor)
<1> DEFINE B == Brackets(floor)
           start == [lo |-> 0, hi |-> Upper]
           Eq(f) == f = [calls \in 0..MaxProbes |->
                           IF calls = 0 THEN start ELSE Narrower(floor, f[calls - 1])]
           narrowed == CHOOSE f : Eq(f)
           step == [b \in B |-> Narrower(floor, b)]
<1>1. MaxProbes \in Nat /\ Upper \in Nat
  BY BudgetAssumption
<1>2. Search(floor) = narrowed[MaxProbes]
  BY DEF Search
<1>3. start \in B
  <2>1. start \in [lo : Int, hi : Int] /\ start.lo = 0 /\ start.hi = Upper
    BY <1>1
  <2> HIDE DEF start
  <2> QED
    BY <2>1 DEF Brackets
<1>4. step \in [B -> B]
  BY CallsKeepTheFloor
<1>5. Eq(narrowed)
  <2>1. PICK f \in [0..MaxProbes -> B] : f[0] = start /\ \A i \in 1..MaxProbes : f[i] = step[f[i - 1]]
    <3> HIDE DEF step, B, start
    <3>1. MaxProbes \in Nat
      BY <1>1
    <3>2. RunsFrom(B, step, start, MaxProbes) # {}
      BY <3>1, <1>3, <1>4, RunOfSteps
    <3> QED
      BY <3>2 DEF RunsFrom
  <2>2. \A i \in 0..MaxProbes : i # 0 => i \in 1..MaxProbes /\ f[i - 1] \in B
    BY <1>1, <2>1
  <2>3. \A b \in B : step[b] = Narrower(floor, b)
    OBVIOUS
  <2> HIDE DEF step, B, start
  <2>4. \A i \in 0..MaxProbes : f[i] = IF i = 0 THEN start ELSE Narrower(floor, f[i - 1])
    BY <2>1, <2>2, <2>3
  <2>5. Eq(f)
    BY <2>1, <2>4
  <2> HIDE DEF Eq
  <2> QED
    BY <2>5
<1>6. \A i \in 0..MaxProbes : narrowed[i] = IF i = 0 THEN start ELSE Narrower(floor, narrowed[i - 1])
  <2> HIDE DEF narrowed, start
  <2> QED
    BY <1>5
<1> DEFINE Bad == {i \in 0..MaxProbes : narrowed[i] \notin B}
<1>7. Bad = {}
  <2> HIDE DEF narrowed, B, start
  <2> SUFFICES ASSUME Bad # {} PROVE FALSE
    OBVIOUS
  <2>1. PICK m \in Bad : \A k \in Bad : m <= k
    <3>1. Bad \subseteq Nat
      OBVIOUS
    <3> HIDE DEF Bad
    <3> QED
      BY <3>1, LeastNatural
  <2>2. m \in 0..MaxProbes /\ m # 0
    BY <1>3, <1>6
  <2>3. m - 1 \in 0..MaxProbes /\ m - 1 < m
    BY <1>1, <2>2
  <2>4. narrowed[m - 1] \in B
    BY <2>1, <2>2, <2>3
  <2>5. narrowed[m] = Narrower(floor, narrowed[m - 1])
    BY <1>6, <2>2
  <2>6. narrowed[m] \in B
    BY <2>4, <2>5, CallsKeepTheFloor DEF B
  <2> QED
    BY <2>6
<1> HIDE DEF narrowed, B
<1>8. narrowed[MaxProbes] \in B
  BY <1>1, <1>7
<1> QED
  BY <1>2, <1>8 DEF B

\* No question and no bisection tells two budgets of one bucket apart, a bisection's
\* bracket holds the bucket's floor, and a yes is kept unless another send was mined
\* after the budget was read: the tools can_afford and send (tools.ts) over
\* coarsenBudget (sanitize.ts), and the page's liveSearch (liveAfford.ts).
THEOREM AnswersHide == DeploymentSpec => []AnswersHideAndHold
<1>1. DeploymentInit => AskedInv
  <2> SUFFICES ASSUME DeploymentInit PROVE AskedInv
    OBVIOUS
  <2>1. left \in Budgets /\ held = <<>> /\ asks = [c \in Slots |-> NoAsk]
    BY DEF DeploymentInit, BudgetInit
  <2>2. left \in [Worlds -> Nat]
    BY <2>1, BudgetAssumption
  <2>3. NoAsk \in AskRecords /\ NoAsk.pc = "idle"
    <3>1. No \in Flags /\ [w \in Worlds |-> 0] \in [Worlds -> Nat]
      BY DEF No, Flags
    <3> QED
      BY <3>1 DEF NoAsk, AskRecords
  <2> QED
    BY <2>1, <2>2, <2>3 DEF AskedInv
<1>2. AskedInv => AnswersHideAndHold
  <2> SUFFICES ASSUME AskedInv PROVE AnswersHideAndHold
    OBVIOUS
  <2>1. \A b \in [Worlds -> Nat] : SameBucket(b) => Coarsened(b[1]) = Coarsened(b[2])
    BY DEF SameBucket, Coarsened
  <2>2. 1 \in Worlds /\ 2 \in Worlds /\ left \in [Worlds -> Nat]
    BY DEF Worlds, AskedInv
  <2>3. ASSUME NEW c \in Slots, asks[c].pc = "told", SameBucket(asks[c].read)
        PROVE  asks[c].yes[1] = asks[c].yes[2]
    <3>1. asks[c].read \in [Worlds -> Nat] /\ asks[c].yes = Affordable(c)
      BY <2>3 DEF AskedInv, AskRecords
    <3>2. asks[c].yes[1] = Says(asks[c].read[1], asks[c].n) /\ asks[c].yes[2] = Says(asks[c].read[2], asks[c].n)
      BY <2>2, <3>1, Zenon DEF Affordable
    <3>3. Coarsened(asks[c].read[1]) = Coarsened(asks[c].read[2])
      BY <2>1, <2>3, <3>1
    <3> QED
      BY <3>2, <3>3, Zenon DEF Says
  <2>4. ASSUME NEW c \in Slots, asks[c].pc = "sent", ~asks[c].overtaken
        PROVE  \A w \in Worlds : asks[c].yes[w] => asks[c].moved[w]
    BY <2>4 DEF AskedInv
  <2>5. SameBucket(left) => LiveSearch(left[1]) = LiveSearch(left[2])
    BY <2>1, <2>2, SearchSeesTheFloor
  <2>6. ASSUME NEW w \in Worlds, left[w] < Upper
        PROVE  LiveSearch(left[w]).lo <= Coarsened(left[w]) /\ Coarsened(left[w]) < LiveSearch(left[w]).hi
    <3>1. left[w] \in Nat /\ Upper \in Nat
      BY <2>2, BudgetAssumption
    <3>2. Coarsened(left[w]) \in Nat /\ Coarsened(left[w]) < Upper
      BY <2>6, <3>1, FloorIsBelow
    <3> QED
      BY <3>2, SearchSeesTheFloor, SearchHoldsTheFloor DEF Brackets
  <2> QED
    BY <2>2, <2>3, <2>4, <2>5, <2>6 DEF AnswersHideAndHold
<1> QED
  BY <1>1, <1>2, AskedStep, PTL DEF DeploymentSpec

============================================================================
