------------------------------- MODULE Hosted -------------------------------
(***************************************************************************)
(* packages/hosted, and the page that opens a session with it               *)
(* (frontend Chat.tsx).  The server seals a session key into the token it    *)
(* hands out and keeps no record: the key is in its keystore while a request  *)
(* uses it, the tools attached to a token on first use hold it until they are  *)
(* dropped, and a restart loses both.  A request is a tool call here.  Only the *)
(* owner a key consented to can open its session, so a token never names        *)
(* another owner.                                                               *)
(***************************************************************************)
EXTENDS Assistant

CONSTANT MaxRestarts    \* bound of the model

VARIABLES memory,      \* the keys in the MemoryKeystore
          tokens,      \* the keys sealed into a token
          attached,    \* per token, the tools built for it
          wallet,      \* calls the owner's wallet sent and the chain has not mined
          page,        \* what the page is doing: [pc, call, key]
          pageToken,   \* the token the page shows and keeps
          status,      \* the session panel: what the server last said, [key, live]
          fetches,     \* status requests of the page that have not ended: [n, key, said]
          revoked,     \* history: tokens the page dropped
          restarts

serverVars == <<memory, tokens, attached>>
pageVars == <<wallet, page, pageToken, status, fetches, revoked>>
hostedVars == <<serverVars, pageVars, restarts>>

NoStatus == [key |-> None, live |-> FALSE]

IdlePage == [pc |-> "idle", call |-> None, key |-> None]

\* The token's effect asks for its status, and an opening asks once more (2).
Fetch(n, k) == [n |-> n, key |-> k, said |-> "nothing"]
Loaded(k) == {Fetch(1, k)} \ {Fetch(1, None)}

HostedInit ==
  /\ memory = {} /\ tokens \in SUBSET Opened
  /\ attached = [k \in Keys |-> None]
  /\ wallet = {} /\ page = IdlePage /\ pageToken \in {None} \cup tokens
  /\ status = NoStatus /\ fetches = Loaded(pageToken) /\ revoked = {}
  /\ restarts = 0

Requested(c, kind, k, pc) ==
  /\ call[c].pc = "idle"
  /\ call' = [call EXCEPT ![c] = [@ EXCEPT !.tool = kind, !.key = k, !.pc = pc,
                                           !.late = (chain[k] = "closed")]]

---------------------------------------------------------------------------
(* prepare: a fresh key, sealed into a token and forgotten                  *)

\* seal: the token is the key itself, under a master key every process shares.
Sealing(k) == tokens' = tokens \cup {k}

\* open: what was not sealed here, or was altered, is no session at all.
Opens(k) == k \in tokens

Prepare(c, k) ==
  /\ chain[k] = "unopened" /\ k \notin memory \cup tokens
  /\ \A d \in Calls : call[d].key # k
  /\ Requested(c, "prepare", k, "preparing")
  /\ memory' = memory \cup {k}
  /\ UNCHANGED <<tokens, attached>>

\* Mutated: the key stays in memory once it is sealed.
SealOnly(c) ==
  /\ call[c].pc = "preparing" /\ call[c].key \in memory
  /\ Sealing(call[c].key)
  /\ To(c, "done")
  /\ UNCHANGED <<memory, attached>>

Seal(c) ==
  /\ call[c].pc = "preparing" /\ call[c].key \in memory
  /\ Sealing(call[c].key) /\ memory' = memory \ {call[c].key}
  /\ To(c, "done")
  /\ UNCHANGED attached

\* Encrypting or reading the chain fails: nothing takes the key out again.
PrepareFails(c) ==
  /\ call[c].pc = "preparing" /\ To(c, "failed")
  /\ UNCHANGED serverVars

---------------------------------------------------------------------------
(* adopt: the session is taken over on the chain's word only                *)

Adopt(c, k) ==
  /\ Opens(k) /\ Requested(c, "adopt", k, "adopting")
  /\ memory' = memory \cup {k}
  /\ UNCHANGED <<tokens, attached>>

\* Refused when nothing open is found, or when another request forgot the key.
Adopted(c) ==
  LET k == call[c].key
  IN  /\ call[c].pc = "adopting"
      /\ memory' = memory \ {k}
      /\ \/ chain[k] = "open" /\ k \in memory /\ To(c, "done")
         \/ To(c, "failed")
      /\ UNCHANGED <<tokens, attached>>

---------------------------------------------------------------------------
(* The MCP endpoint: the chain is asked on every request                    *)

Mcp(c, k, tool) ==
  /\ Opens(k) /\ Requested(c, tool, k, "checking")
  /\ UNCHANGED serverVars

\* Mutated: tools that are attached are taken for those of an open session.
CheckUnlessAttached(c) ==
  LET k == call[c].key
  IN  /\ call[c].pc = "checking"
      /\ \/ (chain[k] = "open" \/ attached[k] # None) /\ To(c, "serving") /\ UNCHANGED attached
         \/ /\ To(c, "failed")
            /\ \/ UNCHANGED attached
               \/ chain[k] = "closed" /\ attached' = [attached EXCEPT ![k] = None]
      /\ UNCHANGED <<memory, tokens>>

\* Closed by its owner: its tools are dropped.  Refused too, and nothing dropped, when
\* the token has expired, when it was never opened and above the rate.
Check(c) ==
  LET k == call[c].key
  IN  /\ call[c].pc = "checking"
      /\ \/ chain[k] = "open" /\ To(c, "serving") /\ UNCHANGED attached
         \/ /\ To(c, "failed")
            /\ \/ UNCHANGED attached
               \/ chain[k] = "closed" /\ attached' = [attached EXCEPT ![k] = None]
      /\ UNCHANGED <<memory, tokens>>

Routes(c, i) == call' = [call EXCEPT ![c].pc = "routed", ![c].inst = i]

\* The tools attached to the token serve the call.
Serve(c) ==
  /\ call[c].pc = "serving" /\ attached[call[c].key] # None
  /\ Routes(c, attached[call[c].key])
  /\ UNCHANGED serverVars

\* Or they are built: the key goes into memory for as long as that takes.
Build(c) ==
  /\ call[c].pc = "serving" /\ attached[call[c].key] = None
  /\ memory' = memory \cup {call[c].key}
  /\ To(c, "building")
  /\ UNCHANGED <<tokens, attached>>

\* Tools nobody has used yet.
Unused(i) == (\A k \in Keys : attached[k] # i) /\ (\A c \in Calls : call[c].inst # i)
Fresh == CHOOSE i \in Instances : Unused(i)

\* The later of two builds is the one that stays attached; each serves its own call.
\* Without the key, which another request may have forgotten, there is nothing to build.
Built(c, i) ==
  LET k == call[c].key
  IN  /\ call[c].pc = "building"
      /\ memory' = memory \ {k}
      /\ \/ /\ k \in memory /\ Unused(i) /\ i = Fresh
            /\ live' = [live EXCEPT ![i] = k] /\ attached' = [attached EXCEPT ![k] = i]
            /\ Routes(c, i)
         \/ To(c, "failed") /\ UNCHANGED <<live, attached>>
      /\ UNCHANGED tokens

\* The tool runs, unless it is withheld here or a call that overlapped dropped the
\* session.
Run(c) ==
  LET i == call[c].inst
  IN  /\ call[c].pc = "routed"
      /\ IF live[i] = None \/ call[c].tool \notin Offered THEN To(c, "failed") /\ UNCHANGED consoleVars
         ELSE Starts(c, i, call[c].tool)
      /\ UNCHANGED serverVars

\* The process dies and comes back with nothing but its master key.
Restart ==
  /\ restarts < MaxRestarts /\ restarts' = restarts + 1
  /\ memory' = {} /\ attached' = [k \in Keys |-> None]
  /\ live' = [i \in Instances |-> None]
  /\ call' = [c \in Calls |-> IF call[c].pc \in {"idle", "done"} THEN call[c]
                              ELSE [call[c] EXCEPT !.pc = "failed"]]
  /\ UNCHANGED tokens

\* The status route: whether the chain has the session, one that ran out included,
\* and beside it the calls that end it, which the owner's own wallet sends.
Lives(k) == CASE chain[k] = "open" -> {"live"} [] chain[k] = "unopened" -> {"dead"}
             [] OTHER -> {"live", "dead"}

---------------------------------------------------------------------------
(* The page                                                                *)

PageAt(pc, c, k) == page' = [pc |-> pc, call |-> c, key |-> k]
Leaves == page' = IdlePage

PageOpens(c, k) ==
  /\ page.pc = "idle" /\ pageToken = None
  /\ Prepare(c, k) /\ PageAt("preparing", c, k)
  /\ UNCHANGED <<wallet, pageToken, status, fetches, revoked>>

\* The token is there: the wallet is asked for its calls, and does not wait for the
\* chain to take them.
PageSends ==
  /\ page.pc = "preparing" /\ call[page.call].pc = "done"
  /\ \/ wallet' = wallet \cup {[does |-> "open", key |-> page.key]}
        /\ PageAt("sent", None, page.key)
     \/ Leaves /\ UNCHANGED wallet
  /\ UNCHANGED <<serverVars, pageToken, status, fetches, revoked, call>>

PageAdopts(c) ==
  /\ page.pc = "sent"
  /\ Adopt(c, page.key) /\ PageAt("adopting", c, page.key)
  /\ UNCHANGED <<wallet, pageToken, status, fetches, revoked>>

\* Kept, the token's effect asks for its status, and so does the opening, which is at
\* work until that ends.
Kept ==
  /\ pageToken' = page.key
  /\ fetches' = fetches \cup {Fetch(1, page.key), Fetch(2, page.key)}
  /\ PageAt("refreshing", None, page.key)
  /\ UNCHANGED <<serverVars, wallet, status, revoked, call>>

\* Mutated: the token is kept before the server confirmed anything.
PageKeepsAtOnce == page.pc = "adopting" /\ call[page.call].pc \in {"adopting", "done"} /\ Kept

\* The token is kept once the server confirmed the session, and only then.
PageKeeps == page.pc = "adopting" /\ call[page.call].pc = "done" /\ Kept

\* A refused request ends the opening, whatever the wallet has sent by then; so
\* does leaving the page, and nothing of it was stored.  A wallet that refuses a later
\* call of a revocation leaves the token where it was.
PageFails ==
  /\ \/ page.pc \in {"preparing", "adopting"} /\ call[page.call].pc = "failed"
     \/ page.pc \in {"sent", "revoking"}
  /\ Leaves
  /\ UNCHANGED <<serverVars, wallet, pageToken, status, fetches, revoked, call>>

\* The server reads the chain for a status request.
StatusAnswers(f) ==
  /\ f.said = "nothing" /\ Opens(f.key)
  /\ \E said \in Lives(f.key) : fetches' = (fetches \ {f}) \cup {[f EXCEPT !.said = said]}
  /\ UNCHANGED <<serverVars, wallet, page, pageToken, status, revoked, call>>

\* A request that ends, ends the opening that awaits it.
Ended(f) ==
  /\ fetches' = fetches \ {f}
  /\ IF page.pc = "refreshing" /\ f.n = 2 /\ f.key = page.key THEN Leaves ELSE UNCHANGED page

\* refresh: the answer becomes the panel, whatever token the page has by then.
PageRefreshes(f) ==
  /\ f.said # "nothing" /\ Ended(f)
  /\ status' = [key |-> f.key, live |-> f.said = "live"]
  /\ UNCHANGED <<serverVars, wallet, pageToken, revoked, call>>

\* An answer that is not there leaves the panel as it was.
PageLoses(f) ==
  /\ Ended(f)
  /\ UNCHANGED <<serverVars, wallet, pageToken, status, revoked, call>>

\* A page loaded again has the token it kept, no panel, and asks.
PageReloads ==
  /\ page.pc \in {"idle", "refreshing", "revoking"} /\ Leaves
  /\ status' = NoStatus /\ fetches' = Loaded(pageToken)
  /\ UNCHANGED <<serverVars, wallet, pageToken, revoked, call>>

\* Revoke is offered for what the panel says is live.
RevokeShown == status.key # None /\ status.live

\* The calldata is the server's, the transactions the wallet's, the close first.
PageRevokes ==
  /\ page.pc = "idle" /\ RevokeShown
  /\ wallet' = wallet \cup {[does |-> "close", key |-> status.key]}
  /\ PageAt("revoking", None, status.key)
  /\ UNCHANGED <<serverVars, pageToken, status, fetches, revoked, call>>

\* The wallet took them all: the token and the panel are dropped, a request that is
\* on its way is not.
PageDrops ==
  /\ page.pc = "revoking" /\ Leaves
  /\ pageToken' = None /\ status' = NoStatus /\ revoked' = revoked \cup {pageToken}
  /\ UNCHANGED <<serverVars, wallet, fetches, call>>

\* What the wallet sent is mined in any order, or never.
Mines(tx) ==
  /\ tx \in wallet /\ wallet' = wallet \ {tx}
  /\ chain' = [chain EXCEPT ![tx.key] = IF tx.does = "open" /\ @ = "unopened" THEN "open"
                                         ELSE IF tx.does = "close" /\ @ = "open" THEN "closed" ELSE @]
  /\ UNCHANGED <<page, pageToken, status, fetches, revoked>>

---------------------------------------------------------------------------

ServerSteps(c) ==
  \/ \E k \in Keys :
       \/ Prepare(c, k) /\ UNCHANGED live
       \/ Adopt(c, k) /\ UNCHANGED live
       \/ \E tool \in Called : Mcp(c, k, tool) /\ UNCHANGED live
  \/ (Seal(c) \/ PrepareFails(c) \/ Adopted(c) \/ Check(c) \/ Serve(c) \/ Build(c))
     /\ UNCHANGED live
  \/ \E i \in Instances : Built(c, i)

ToolsRest == UNCHANGED <<consoleVars, cached, refs, counts>>

HostedNext ==
  \/ \E c \in Calls : ServerSteps(c) /\ ToolsRest /\ UNCHANGED <<chain, pageVars, restarts>>
  \/ \E c \in Calls : Run(c) /\ UNCHANGED <<chain, toolVars, pageVars, restarts>>
  \/ Restart /\ ToolsRest /\ UNCHANGED <<chain, pageVars>>
  \/ /\ \/ \E c \in Calls : PageAdopts(c) \/ \E k \in Keys : PageOpens(c, k)
        \/ \E f \in fetches : StatusAnswers(f) \/ PageRefreshes(f) \/ PageLoses(f)
        \/ PageSends \/ PageKeeps \/ PageFails \/ PageReloads \/ PageRevokes \/ PageDrops
     /\ ToolsRest /\ UNCHANGED <<chain, live, restarts>>
  \/ /\ \E tx \in wallet : Mines(tx)
     /\ ToolsRest /\ UNCHANGED <<live, serverVars, call, restarts>>

---------------------------------------------------------------------------
(* Correctness                                                             *)

\* The keys the server holds in the clear from one request to the next: those in its
\* keystore and those the attached tools keep decrypted (Attached, mcp.ts).
ClearKeys == (memory \cup {live[i] : i \in {attached[k] : k \in Keys} \ {None}}) \ {None}

\* Of every key in the clear there is a reason: a request that prepares, adopts or
\* builds with it is under way, its prepare failed half way, or the tools attached to
\* its own token keep it, and then its session was opened (prepare, adopt, build,
\* handleMcp; requests of one session overlap and forget each other's key).
ClearKeysHaveReasons ==
  \A k \in ClearKeys :
    \/ \E c \in Calls : /\ call[c].key = k
                        /\ \/ call[c].pc \in {"preparing", "adopting", "building"}
                           \/ call[c].tool = "prepare" /\ call[c].pc = "failed"
    \/ attached[k] # None /\ live[attached[k]] = k /\ chain[k] # "unopened"

\* What the keystore says of itself: a key is in memory for the length of a request,
\* and does not pile up there (keystore.ts).
KeystoreIsForRequests ==
  \A k \in memory : \E c \in Calls :
    call[c].key = k /\ call[c].pc \in {"preparing", "adopting", "building"}

\* Closing a session on chain is enough: a request that arrives afterwards reaches no
\* tool, even when tools are still attached, or were attached late, to its token.
ClosedIsRefused ==
  \A c \in Calls : call[c].late => call[c].pc \in {"checking", "adopting", "failed"}

\* The page keeps a token only for a session that was opened on chain; its panel and
\* the way out are of an opened session too, and of the token's own unless a status
\* that was on its way came in after a revocation had dropped its token (open, refresh,
\* revoke).
PageTokenIsOpened ==
  /\ pageToken # None => chain[pageToken] # "unopened"
  /\ RevokeShown => chain[status.key] # "unopened"
  /\ status.key \in {None, pageToken} \cup revoked

\* What the page says after a revocation, "the key can no longer spend, and the URL is
\* gone from this browser": no panel of a session whose token was dropped comes back.
RevokedPanelIsGone == status.key \in {None, pageToken}

=============================================================================
