------------------------------ MODULE Custody ------------------------------
(***************************************************************************)
(* The owner's machine before and around the assistant: `savetogether init`  *)
(* and `status` (mcp-server cli.ts), the server a chat client or the console *)
(* command starts (createServer), the vault's keystore and the two files     *)
(* they write.  Each is a process of its own, so they overlap; a process may *)
(* die at every await, and a file is empty between its truncation and its    *)
(* writing.  A vault key is a pair of a directory and a number.              *)
(***************************************************************************)
EXTENDS Keystore, Integers

CONSTANTS Processes,    \* each is started once
          VaultKeys,    \* pairs <<directory, number>>
          DefaultDir,
          OwnDir,       \* a vaultDir the owner writes into the configuration
          OtherServers, \* what Claude's configuration lists besides
          Store,        \* the kind of secret store of this system
          NoKey,
          MaxTroubles   \* bound of the model: deaths and edits by the owner

ASSUME VaultAssumption ==
  /\ VaultKeys \subseteq {DefaultDir, OwnDir} \X Nat
  /\ NoKey \notin VaultKeys

VARIABLES config,    \* config.json: [state, dir]
          claude,    \* Claude's configuration: [json, servers]
          proc,
          shown,     \* vault addresses given to the owner to fund
          raced,     \* history: two processes were at the vault's keystore at once
          damaged,   \* history: Claude's file was read cut, unreadable or while written
          troubles

custodyVars == <<keystoreVars, config, claude, proc, shown, raced, damaged, troubles>>

Unstarted == [role |-> "none", pc |-> "unstarted", dir |-> DefaultDir, key |-> NoKey,
              created |-> FALSE, servers |-> {}, signer |-> NoKey]

CustodyInit ==
  /\ KeystoreInit
  /\ config \in {[state |-> "absent", dir |-> DefaultDir], [state |-> "good", dir |-> OwnDir]}
  /\ claude = [json |-> TRUE, servers |-> OtherServers]
  /\ proc = [p \in Processes |-> Unstarted]
  /\ shown = {} /\ raced = FALSE /\ damaged = FALSE /\ troubles = 0

At(p, pc) == proc[p].pc = pc
Proceeds(p, pc) == proc' = [proc EXCEPT ![p].pc = pc]
Launches(p, role, pc, dir) ==
  /\ At(p, "unstarted")
  /\ proc' = [proc EXCEPT ![p] = [@ EXCEPT !.role = role, !.pc = pc, !.dir = dir]]

---------------------------------------------------------------------------
(* config.json                                                             *)

\* init overwrites whatever configuration there was, the directory included.
StartInit(p) ==
  /\ Launches(p, "init", "saving", DefaultDir)
  /\ config' = [state |-> "cut", dir |-> DefaultDir]
  /\ UNCHANGED <<keystoreVars, claude, shown, raced, damaged, troubles>>

SaveConfig(p) ==
  /\ At(p, "saving") /\ Proceeds(p, "listing")
  /\ config' = [state |-> "good", dir |-> DefaultDir]
  /\ UNCHANGED <<keystoreVars, claude, shown, raced, damaged, troubles>>

\* loadConfig and validate: a missing, cut or refused file starts nothing.
ConfigLoads == config.state = "good"

\* The owner edits the file: another directory, or something validate refuses.
EditConfig ==
  /\ troubles < MaxTroubles /\ troubles' = troubles + 1
  /\ config.state = "good"
  /\ config' \in {[state |-> "good", dir |-> OwnDir], [state |-> "refused", dir |-> OwnDir]}
  /\ UNCHANGED <<keystoreVars, claude, proc, shown, raced, damaged>>

---------------------------------------------------------------------------
(* Vault.ensure: the first key that is labelled, or a new one                *)

AtKeystore(p) == proc[p].pc \in {"listing", "filing", "labelling", "storing"}

\* The order a directory is read in: not the order the keys were made in.
Before(a, b) == a[2] < b[2]

Labelled(dir) == {k \in LabelledKeys : k[1] = dir}

\* address(): the first of the list.
FirstLabelled(dir) ==
  IF Labelled(dir) = {} THEN NoKey ELSE CHOOSE k \in Labelled(dir) : \A l \in Labelled(dir) : ~Before(l, k)

\* Where a process goes once it knows the vault's key.
Ensured(p) == IF proc[p].role = "init" THEN "reading" ELSE "serving"

Races(p) == raced' = (raced \/ \E q \in Processes \ {p} : AtKeystore(q) /\ proc[q].dir = proc[p].dir)

\* Listed; without a key the next four steps make one.
Ensure(p) ==
  LET first == FirstLabelled(proc[p].dir)
  IN  /\ At(p, "listing")
      /\ proc' = [proc EXCEPT ![p].key = first,
                              ![p].pc = IF first = NoKey THEN "filing" ELSE Ensured(p)]
      /\ Races(p)
      /\ UNCHANGED <<keystoreVars, config, claude, shown, damaged, troubles>>

\* A fresh key's address lands anywhere in the directory.
CreateVault(p, k) ==
  /\ At(p, "filing") /\ k[1] = proc[p].dir
  /\ WriteKeyFile(k)
  /\ proc' = [proc EXCEPT ![p] = [@ EXCEPT !.key = k, !.created = TRUE, !.pc = "labelling"]]
  /\ UNCHANGED <<config, claude, shown, raced, damaged, troubles>>

LabelVault(p) ==
  /\ At(p, "labelling") /\ WriteLabel(proc[p].key) /\ Proceeds(p, "storing")
  /\ UNCHANGED <<config, claude, shown, raced, damaged, troubles>>

\* Mutated: a store that refuses is passed over.
StoreUnchecked(p) ==
  /\ At(p, "storing") /\ Proceeds(p, Ensured(p))
  /\ PutSecret(proc[p].key) \/ UNCHANGED keystoreVars
  /\ UNCHANGED <<config, claude, shown, raced, damaged, troubles>>

StoreVaultSecret(p) ==
  /\ At(p, "storing") /\ PutSecret(proc[p].key) /\ Proceeds(p, Ensured(p))
  /\ UNCHANGED <<config, claude, shown, raced, damaged, troubles>>

\* The secret store refuses, or is not installed: the process ends with an error.
StoreRefuses(p) ==
  /\ At(p, "storing") /\ Proceeds(p, "failed")
  /\ UNCHANGED <<keystoreVars, config, claude, shown, raced, damaged, troubles>>

---------------------------------------------------------------------------
(* writeClaudeConfig: read, merge, write                                    *)

\* A file that cannot be parsed reads as one that is not there.
ServersRead == IF claude.json THEN claude.servers ELSE {}

ReadClaude(p) ==
  /\ At(p, "reading")
  /\ proc' = [proc EXCEPT ![p].servers = ServersRead, ![p].pc = "merging"]
  /\ damaged' = (damaged \/ ~claude.json)
  /\ UNCHANGED <<keystoreVars, config, claude, shown, raced, troubles>>

\* Truncated, then written with what was read and our own entry.
TruncateClaude(p) ==
  /\ At(p, "merging") /\ Proceeds(p, "writing")
  /\ claude' = [json |-> FALSE, servers |-> {}]
  /\ UNCHANGED <<keystoreVars, config, shown, raced, damaged, troubles>>

\* init then prints the vault's address to fund.
WriteClaude(p) ==
  /\ At(p, "writing") /\ Proceeds(p, "done")
  /\ claude' = [json |-> TRUE, servers |-> proc[p].servers \cup {"savetogether"}]
  /\ shown' = shown \cup {proc[p].key}
  /\ UNCHANGED <<keystoreVars, config, raced, damaged, troubles>>

\* The owner leaves a comma too many in the file.
EditClaude ==
  /\ troubles < MaxTroubles /\ troubles' = troubles + 1
  /\ claude.json /\ claude' = [claude EXCEPT !.json = FALSE]
  /\ UNCHANGED <<keystoreVars, config, proc, shown, raced, damaged>>

---------------------------------------------------------------------------
(* status, and the server                                                  *)

\* status looks in the default directory, whatever the configuration names.
Status(p) ==
  /\ ConfigLoads /\ Launches(p, "status", "done", DefaultDir)
  /\ shown' = shown \cup ({FirstLabelled(DefaultDir)} \ {NoKey})
  /\ UNCHANGED <<keystoreVars, config, claude, raced, damaged, troubles>>

StartServer(p) ==
  /\ ConfigLoads /\ Launches(p, "server", "listing", config.dir)
  /\ UNCHANGED <<keystoreVars, config, claude, shown, raced, damaged, troubles>>

\* A server whose configuration is refused, and a command that is mistyped.
StartFails(p) ==
  /\ ~ConfigLoads /\ Launches(p, "server", "failed", DefaultDir)
  /\ UNCHANGED <<keystoreVars, config, claude, shown, raced, damaged, troubles>>

\* The page's panel, filled once the tools exist and whenever it is refreshed.
ShowPanel(p) ==
  /\ At(p, "serving")
  /\ proc' = [proc EXCEPT ![p].key = FirstLabelled(proc[p].dir)]
  /\ shown' = shown \cup {FirstLabelled(proc[p].dir)}
  /\ UNCHANGED <<keystoreVars, config, claude, raced, damaged, troubles>>

\* Vault.unlock, approved: the list is read again and its first key loaded; a store
\* that is locked refuses, and the call fails.
UnlockVault(p) ==
  LET k == FirstLabelled(proc[p].dir)
  IN  /\ At(p, "serving") /\ proc[p].signer = NoKey
      /\ Load(k, TRUE, Store) = "key"
      /\ proc' = [proc EXCEPT ![p].signer = k]
      /\ UNCHANGED <<keystoreVars, config, claude, shown, raced, damaged, troubles>>

LockVault(p) ==
  /\ proc[p].signer # NoKey /\ proc' = [proc EXCEPT ![p].signer = NoKey]
  /\ UNCHANGED <<keystoreVars, config, claude, shown, raced, damaged, troubles>>

\* A signal ends a console at rest; anything else may end it anywhere.
Dies(p) ==
  /\ troubles < MaxTroubles /\ troubles' = troubles + 1
  /\ ~At(p, "unstarted") /\ ~At(p, "done") /\ ~At(p, "failed")
  /\ proc' = [proc EXCEPT ![p].pc = "failed", ![p].signer = NoKey]
  /\ damaged' = (damaged \/ At(p, "writing"))
  /\ UNCHANGED <<keystoreVars, config, claude, shown, raced>>

CustodyNext ==
  \/ \E p \in Processes :
       \/ StartInit(p) \/ SaveConfig(p) \/ Status(p) \/ StartServer(p) \/ StartFails(p)
       \/ Ensure(p) \/ LabelVault(p) \/ StoreVaultSecret(p) \/ StoreRefuses(p)
       \/ ReadClaude(p) \/ TruncateClaude(p) \/ WriteClaude(p)
       \/ ShowPanel(p) \/ UnlockVault(p) \/ LockVault(p) \/ Dies(p)
       \/ \E k \in VaultKeys : CreateVault(p, k)
  \/ EditConfig \/ EditClaude

---------------------------------------------------------------------------
(* Correctness                                                             *)

\* A second vault of a directory is shown, or a server signs with another than it
\* shows, only after two processes were in `ensure` at once, each having listed none.
SecondVaultsAreRaced ==
  raced \/ /\ \A k, l \in shown : k[1] = l[1] => k = l
           /\ \A p \in Processes : proc[p].signer \in {NoKey, proc[p].key}

\* An address the owner was told to fund and nothing can unlock is of a process that
\* ended between the key's label and its passphrase, or has still to store it.
DeadVaultsAreHalfMade ==
  \A k \in shown : Loadable(k) \/ \E p \in Processes :
    /\ proc[p].created /\ proc[p].key = k
    /\ proc[p].pc \in {"storing", "failed"}

\* Another server's entry is gone only when the file could not be parsed as it was
\* merged into, or a process died while writing it.
LostServersWereDamaged ==
  damaged \/ OtherServers \subseteq claude.servers \/ \E p \in Processes : At(p, "writing")

\* Whichever commands are run, overlap, die and are run again, the owner loses a vault
\* or an entry in these three ways and in no other (init, ensure, create, unlock,
\* writeClaudeConfig); each of them does happen, which the next three say.
LossesAreTheKnownOnes == SecondVaultsAreRaced /\ DeadVaultsAreHalfMade /\ LostServersWereDamaged

\* vault.ts of ensure: "Creates the vault key if there is not one already."
OneVaultPerDirectory == \A k, l \in shown : k[1] = l[1] => k = l

\* What init prints beside the address to fund: that key "stays on this machine,
\* encrypted, and unlocks".
FundedVaultsUnlock == \A k \in shown : Loadable(k)

\* cli.ts of writeClaudeConfig: "Adds SaveTogether to the Claude config without
\* disturbing whatever else is there."
OtherServersKept == claude.json => OtherServers \subseteq claude.servers

=============================================================================
