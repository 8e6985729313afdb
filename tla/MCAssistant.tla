---------------------------- MODULE MCAssistant ----------------------------
(***************************************************************************)
(* The instance of Deployments for TLC: two tool calls, two keys, two       *)
(* processes of the owner's machine, two vault keys in each directory.     *)
(***************************************************************************)
EXTENDS Deployments, TLC

\* Two directories, two vaults in each.
MCVaultKeys == {DefaultDir, OwnDir} \X {1, 2}

\* Two budgets of one bucket, and two of different ones.
MCBudgets == {<<5, 7>>, <<3, 8>>}

\* What is not a vault key.
MCNoKey == <<None, 0>>

=============================================================================
