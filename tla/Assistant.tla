----------------------------- MODULE Assistant -----------------------------
(***************************************************************************)
(* packages/mcp-server: the vault and the tools a model calls.  Calls run   *)
(* side by side and give way at every await, so a session may be replaced   *)
(* or revoked while another call holds it; a call keeps the session it found *)
(* when it began.  Amounts are left out: a reference is an id and the        *)
(* reading it stands for, and a refused argument is a call that never began. *)
(* The same tools serve the hosted server, without vault and console.       *)
(***************************************************************************)
EXTENDS Console, Integers, FiniteSets

CONSTANTS Instances,    \* objects of class SaveTogetherTools
          Keys,         \* session keys
          Called,       \* the tools the calls of a model name
          None

VARIABLES hosted,     \* the tools run in the hosted server: no vault, no console
          chain,      \* each session on chain: "unopened", "open", "closed"
          cached,     \* the vault holds its decrypted key
          live,       \* per instance, the session it acts for
          refs,       \* the references minted, with the reading each stands for
          counts,     \* per instance and prefix, how many were minted
          call

toolVars == <<cached, live, refs, counts>>
assistantVars == <<consoleVars, hosted, chain, toolVars, call>>

Prefixes == {"bal", "sent", "dep", "pool", "won", "pend"}
OwnerTools == {"open_session", "add_recipient", "wrap", "unwrap", "mint"}
KeyTools == {"send", "pool_deposit", "pool_withdraw", "vault_join"}
ReadTools == {"balance", "pool_position"}
Tools == OwnerTools \cup KeyTools \cup ReadTools \cup {"session_status", "revoke_all"}

ASSUME CalledAssumption ==
  /\ Called \subseteq Tools
  /\ Instances # {} /\ None \notin Instances \cup Keys \cup Calls

NoCall == [tool |-> "none", pc |-> "idle", inst |-> None, key |-> None, held |-> FALSE,
           late |-> FALSE]

AssistantInit ==
  /\ ConsoleInit
  /\ chain \in [Keys -> {"unopened", "open"}]
  /\ cached = FALSE
  /\ call = [c \in Calls |-> NoCall]

Opened == {k \in Keys : chain[k] = "open"}
To(c, pc) == call' = [call EXCEPT ![c].pc = pc]

---------------------------------------------------------------------------
(* Beginning: arguments, then the session, then the owner's click           *)

\* Which tools an instance lists: the hosted one withholds what needs the vault.
Offered == IF hosted THEN Tools \ {"open_session", "add_recipient", "mint"} ELSE Tools

\* wrap in the local deployment is the only call on a session that needs none.
NeedsSession(tool) ==
  tool \notin {"open_session", "mint", "revoke_all"} /\ (tool = "wrap" => hosted)

\* The vault signs for these; hosted, the session key wraps for itself.
NeedsVault(tool) == tool \in OwnerTools /\ ~hosted

\* Where a call goes first, and the call that goes there.
First(tool) ==
  CASE NeedsVault(tool) -> IF cached THEN "signing" ELSE "unlocking"
    [] tool \in ReadTools -> "reading"
    [] tool = "session_status" -> "pushing"
    [] tool = "revoke_all" -> "closing"
    [] OTHER -> "sending"

\* A call asks the owner at once when it needs the vault and the key is not cached;
\* a sealed send asks for its amount.
Starts(c, i, tool) ==
  /\ tool \in Offered \cap Called
  /\ NeedsSession(tool) \/ tool = "revoke_all" => live[i] # None
  /\ LET began(pc) == call' = [call EXCEPT ![c] = [@ EXCEPT !.tool = tool, !.pc = pc, !.inst = i,
                                                   !.key = live[i], !.held = (pc = "signing")]]
     IN  \/ /\ began(First(tool))
            /\ IF First(tool) = "unlocking" THEN Ask(c) ELSE UNCHANGED consoleVars
         \/ tool = "send" /\ ~hosted /\ began("sealing") /\ Ask(c)

Begin(c, i, tool) ==
  /\ ~hosted /\ call[c].pc = "idle"
  /\ Starts(c, i, tool)
  /\ UNCHANGED <<hosted, chain, toolVars>>

---------------------------------------------------------------------------
(* Vault: unlock, lock, and what the owner's key is used for                *)

\* The click was answered: the key comes out of the keychain and stays cached.
Unlocked(c) ==
  /\ call[c].pc = "unlocking"
  /\ \/ /\ prompt[c] = "approved"
        /\ cached' = TRUE /\ call' = [call EXCEPT ![c].pc = "signing", ![c].held = TRUE]
     \/ /\ prompt[c] \in {"approved", "denied"}
        /\ To(c, "failed") /\ UNCHANGED cached
  /\ UNCHANGED <<consoleVars, hosted, chain, live, refs, counts>>

\* The owner's transactions; what they change here is a session that opens.
Sign(c) ==
  /\ call[c].pc = "signing"
  /\ CASE call[c].tool = "open_session" ->
            \E k \in Keys : /\ chain[k] = "unopened" /\ chain' = [chain EXCEPT ![k] = "open"]
                            /\ call' = [call EXCEPT ![c].pc = "signed", ![c].key = k]
       [] call[c].tool = "add_recipient" ->
            chain[call[c].key] = "open" /\ To(c, "signed") /\ UNCHANGED chain
       [] OTHER -> To(c, "signed") /\ UNCHANGED chain
  /\ UNCHANGED <<consoleVars, hosted, toolVars>>

\* The signing or the wait for it throws: only mint locks the vault then.
SignFails(c) ==
  /\ call[c].pc \in {"signing", "signed"}
  /\ cached' = (cached /\ call[c].tool # "mint")
  /\ To(c, "failed")
  /\ UNCHANGED <<consoleVars, hosted, chain, live, refs, counts>>

\* Mutated: a widened allowlist leaves the vault unlocked.
LockAfterOpenOnly(c) ==
  LET pushes == call[c].tool \in {"add_recipient", "unwrap", "open_session"}
                \/ (call[c].tool = "wrap" /\ live[call[c].inst] # None)
  IN  /\ call[c].pc = "signed"
      /\ cached' = (cached /\ call[c].tool # "open_session")
      /\ live' = IF call[c].tool = "open_session"
                 THEN [live EXCEPT ![call[c].inst] = call[c].key] ELSE live
      /\ To(c, IF pushes THEN "pushing" ELSE "done")
      /\ UNCHANGED <<consoleVars, hosted, chain, refs, counts>>

\* Locked again; an opened session replaces the one that was live.
Lock(c) ==
  LET pushes == call[c].tool \in {"add_recipient", "unwrap", "open_session"}
                \/ (call[c].tool = "wrap" /\ live[call[c].inst] # None)
  IN  /\ call[c].pc = "signed"
      /\ cached' = FALSE
      /\ live' = IF call[c].tool = "open_session"
                 THEN [live EXCEPT ![call[c].inst] = call[c].key] ELSE live
      /\ To(c, IF pushes THEN "pushing" ELSE "done")
      /\ UNCHANGED <<consoleVars, hosted, chain, refs, counts>>

---------------------------------------------------------------------------
(* References                                                              *)

\* Mutated: the count starts again with every session.
NewIdOfSession(i, k, p) ==
  [prefix |-> p, n |-> Cardinality({r \in refs : r.inst = i /\ r.key = k /\ r.id.prefix = p}) + 1]

\* newRefId: one count per prefix, which outlives the session.
NewId(i, k, p) == [prefix |-> p, n |-> counts[i][p] + 1]

\* The session the call holds keeps a new reference per prefix.
Mints(c, prefixes) ==
  LET i == call[c].inst
      k == call[c].key
  IN  /\ refs' = refs \cup {[inst |-> i, key |-> k, id |-> NewId(i, k, p), value |-> c] :
                              p \in prefixes}
      /\ counts' = [counts EXCEPT ![i] = [p \in Prefixes |->
                                            IF p \in prefixes THEN @[p] + 1 ELSE @[p]]]

Reading(tool) == IF tool = "balance" THEN {"bal"} ELSE {"pool", "won", "pend"}

Read(c) ==
  /\ call[c].pc = "reading"
  /\ Mints(c, Reading(call[c].tool))
  /\ To(c, "done") \/ To(c, "revealing")
  /\ UNCHANGED <<consoleVars, hosted, chain, cached, live>>

\* Revealing looks the reference up in the session that is live by then.
Reveal(c) ==
  /\ call[c].pc = "revealing"
  /\ IF hosted \/ live[call[c].inst] # call[c].key
     THEN To(c, "done") /\ UNCHANGED consoleVars
     ELSE To(c, "revealed?") /\ Ask(c)
  /\ UNCHANGED <<hosted, chain, toolVars>>

\* The owner answered a reveal or typed a sealed amount.
Answered(c) ==
  /\ \/ call[c].pc = "revealed?" /\ prompt[c] \in {"approved", "denied"} /\ To(c, "done")
     \/ call[c].pc = "sealing" /\ prompt[c] = "approved" /\ To(c, "sending")
     \/ call[c].pc = "sealing" /\ prompt[c] = "denied" /\ To(c, "done")
  /\ UNCHANGED <<consoleVars, hosted, chain, toolVars>>

---------------------------------------------------------------------------
(* What the session key does alone                                          *)

\* send, pool_deposit, pool_withdraw, vault_join, and hosted wrap and unwrap: a
\* closed session sends nothing; pool_deposit sends first and deposits what arrived.
KeySends(c) ==
  /\ call[c].pc = "sending"
  /\ call[c].tool \in {"send", "pool_deposit"} => chain[call[c].key] = "open"
  /\ To(c, CASE call[c].tool = "send" -> "pushing"
             [] call[c].tool = "pool_deposit" -> "depositing"
             [] OTHER -> "done")
  /\ UNCHANGED <<consoleVars, hosted, chain, toolVars>>

Deposit(c) ==
  /\ call[c].pc = "depositing"
  /\ Mints(c, {"dep"}) /\ To(c, "done")
  /\ UNCHANGED <<consoleVars, hosted, chain, cached, live>>

\* The status of the session that is live by now; reading it gives way, and a
\* session revoked meanwhile makes the call fail after what it did.
Push(c) ==
  /\ call[c].pc = "pushing"
  /\ To(c, IF hosted \/ live[call[c].inst] = None THEN "pushed" ELSE "showing")
  /\ UNCHANGED <<consoleVars, hosted, chain, toolVars>>

Show(c) ==
  /\ call[c].pc = "showing"
  /\ To(c, IF live[call[c].inst] = None THEN "failed" ELSE "pushed")
  /\ UNCHANGED <<consoleVars, hosted, chain, toolVars>>

\* The call ends; a send hands out what it sent as a reference.
Return(c) ==
  /\ call[c].pc = "pushed" /\ To(c, "done")
  /\ IF call[c].tool = "send" THEN Mints(c, {"sent"}) ELSE UNCHANGED <<refs, counts>>
  /\ UNCHANGED <<consoleVars, hosted, chain, cached, live>>

\* A transaction that reverts, a relayer or a node that does not answer.
CallFails(c) ==
  /\ call[c].pc \in {"reading", "sending", "depositing", "pushing", "showing", "closing"}
  /\ To(c, "failed")
  /\ UNCHANGED <<consoleVars, hosted, chain, toolVars>>

---------------------------------------------------------------------------
(* revoke_all, from the model or from the console's button                  *)

Close(c) ==
  /\ call[c].pc = "closing"
  /\ chain[call[c].key] = "open" /\ chain' = [chain EXCEPT ![call[c].key] = "closed"]
  /\ To(c, "closed")
  /\ UNCHANGED <<consoleVars, hosted, toolVars>>

\* The session named and dropped is the one that is live by now.
Revoked(c) ==
  /\ call[c].pc = "closed"
  /\ LET now == live[call[c].inst]
     IN  /\ live' = [live EXCEPT ![call[c].inst] = None]
         /\ To(c, IF now = None THEN "failed" ELSE "done")
  /\ UNCHANGED <<consoleVars, hosted, chain, cached, refs, counts>>

\* The owner closes a session with the wallet, or time does.
OwnerCloses(k) ==
  /\ chain[k] = "open" /\ chain' = [chain EXCEPT ![k] = "closed"]
  /\ UNCHANGED <<consoleVars, hosted, toolVars, call>>

OwnerAnswers ==
  /\ \/ \E c \in Calls : TimeOut(c) \/ \E approved \in BOOLEAN : Resolve(c, approved)
     \/ ~hosted /\ Stop
  /\ UNCHANGED <<hosted, chain, toolVars, call>>

Goes(c) ==
  \/ Unlocked(c) \/ Sign(c) \/ SignFails(c) \/ Lock(c)
  \/ Read(c) \/ Reveal(c) \/ Answered(c)
  \/ KeySends(c) \/ Deposit(c) \/ Push(c) \/ Show(c) \/ Return(c) \/ CallFails(c)
  \/ Close(c) \/ Revoked(c)

AssistantNext ==
  \/ \E c \in Calls : Goes(c)
  \/ OwnerAnswers
  \/ \E k \in Keys : OwnerCloses(k)

---------------------------------------------------------------------------
(* Correctness                                                             *)

\* An id the model was told never comes to stand for another reading, whatever
\* sessions were opened and revoked in between and whichever calls overlapped: it
\* resolves to its own or is refused (newRefId, refs).
ReferencesNameOneValue ==
  \A r, s \in refs : r.inst = s.inst /\ r.id = s.id => r.value = s.value

\* The decrypted owner's key is kept only while a call that obtained it is at work,
\* or because one failed holding it (unlock, lock).
KeyKeptOnlyByFailure ==
  cached => \E c \in Calls : call[c].held /\ call[c].pc \in {"signing", "signed", "failed"}

=============================================================================
