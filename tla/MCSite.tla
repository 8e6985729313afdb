------------------------------- MODULE MCSite -------------------------------
(***************************************************************************)
(* Two accounts, one of which the assistant's tools also act for.          *)
(***************************************************************************)
EXTENDS Site

CONSTANTS alice, bob

MCAccounts == {alice, bob}
MCOpening ==
    [a \in MCAccounts |->
       IF a = alice
       THEN [usdc |-> 2, allowance |-> 1, operator |-> FALSE, wallet |-> 2,
             pool |-> 0, filed |-> 1]
       ELSE [usdc |-> 1, allowance |-> 2, operator |-> TRUE, wallet |-> 0,
             pool |-> 1, filed |-> 0]]
MCTyped == {1}
MCAmounts == {2}
MCSigned == [a \in MCAccounts |-> IF a = alice THEN {"token", "pool"} ELSE {"token"}]
=============================================================================
