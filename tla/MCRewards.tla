------------------------------ MODULE MCRewards ------------------------------
(***************************************************************************)
(* Rewards on a scale of one to a hundred: the reward of the chain         *)
(* specification is 1 and the existential deposit 5; a fresh miner has no  *)
(* account.                                                                *)
(***************************************************************************)
EXTENDS Rewards

CONSTANTS alice, bob, miner

Accounts == {alice, bob, miner}
Balances == [a \in Accounts |-> CASE a = alice -> 11 [] a = bob -> 6 [] OTHER -> 0]

==============================================================================
