---------------------------- MODULE Deployments ----------------------------
(***************************************************************************)
(* Where the assistant runs: the owner's machine being set up; one process  *)
(* with a vault and a console, or one hosted server with the page that     *)
(* opens sessions with it; and a session's budget being spent.             *)
(***************************************************************************)
EXTENDS Hosted, Custody, Budget

VARIABLE about    \* "setup", "calls" or "budget": what a behaviour is about

allVars == <<assistantVars, hostedVars, custodyVars, budgetVars, about>>

Local == CHOOSE i \in Instances : TRUE

Earlier == CHOOSE k \in Keys : TRUE

\* What an earlier call left: nothing, or a balance that was read.
EarlierRefs(sessions) == {[inst |-> Local, key |-> k, id |-> [prefix |-> "bal", n |-> 1],
                           value |-> None] : k \in sessions}

\* Locally one set of tools, which may have a session open already; hosted, none yet.
DeploymentInit ==
  /\ hosted \in BOOLEAN /\ about \in {"setup", "calls", "budget"}
  /\ about # "calls" => ~hosted
  /\ AssistantInit /\ HostedInit /\ CustodyInit /\ BudgetInit
  /\ \A k \in Keys : chain[k] = "open" => k = Earlier /\ about = "calls"
  /\ about # "budget" => left = CHOOSE b \in Budgets : TRUE
  /\ IF hosted THEN live = [i \in Instances |-> None]
     ELSE /\ live \in {[i \in Instances |-> IF i = Local THEN k ELSE None] : k \in {None} \cup Opened}
          /\ tokens = {} /\ pageToken = None
  /\ refs = IF hosted \/ live[Local] = None THEN {} ELSE EarlierRefs({Earlier})
  /\ counts = [i \in Instances |-> [p \in Prefixes |->
                 Cardinality({r \in refs : r.inst = i /\ r.id.prefix = p})]]
  /\ about # "setup" => config.dir = OwnDir

SetupSteps ==
  /\ about = "setup"
  /\ CustodyNext
  /\ UNCHANGED <<assistantVars, hostedVars, budgetVars>>

LocalSteps ==
  /\ about = "calls" /\ ~hosted
  /\ \/ AssistantNext
     \/ \E c \in Calls, tool \in Called : Begin(c, Local, tool)
  /\ UNCHANGED <<hostedVars, custodyVars, budgetVars>>

HostedSteps ==
  /\ hosted
  /\ \/ AssistantNext /\ UNCHANGED hostedVars
     \/ HostedNext /\ UNCHANGED hosted
  /\ UNCHANGED <<custodyVars, budgetVars>>

BudgetSteps ==
  /\ about = "budget"
  /\ BudgetNext
  /\ UNCHANGED <<assistantVars, hostedVars, custodyVars>>

DeploymentNext == (SetupSteps \/ LocalSteps \/ HostedSteps \/ BudgetSteps) /\ UNCHANGED about

DeploymentSpec ==
  /\ DeploymentInit /\ [][DeploymentNext]_allVars
  /\ \A c \in Calls : WF_allVars(/\ ~hosted /\ TimeOut(c)
                                 /\ UNCHANGED <<hosted, chain, toolVars, call, hostedVars,
                                                custodyVars, budgetVars, about>>)

=============================================================================
