----------------------------- MODULE UtxoAudit -----------------------------
(***************************************************************************)
(* An audit of UtxoChain: history variables follow the value that enters   *)
(* and leaves the ledger other than by moving from output to output.       *)
(***************************************************************************)
EXTENDS UtxoChain

VARIABLES
    issued,     \* issuance paid to authors
    lost,       \* fees cut by `reward as u64` and payouts that wrapped
    doubled     \* value counted again because its outpoint was listed again

auditVars == <<chainVars, issued, lost, doubled>>

(* The value of the outpoints of a transaction, each counted once.           *)
DistinctInput(tx) == SumFunction([op \in Outpoints(tx) |-> utxoStore[op].value])

AuditInit == Init /\ issued = 0 /\ lost = 0 /\ doubled = 0

AuditSpend(tx) ==
    /\ ApplySpend(tx)
    /\ lost' = lost + Fee(tx) - Priority(tx)
    /\ doubled' = doubled + TotalInput(tx) - DistinctInput(tx)
    /\ UNCHANGED issued

AuditFinalize ==
    /\ FinalizeBlock
    /\ IF author = NoKey THEN UNCHANGED <<issued, lost>> ELSE
          /\ issued' = issued + Issuance(number)
          /\ lost' = lost + rewardTotal + Issuance(number) - Payout(number)
    /\ UNCHANGED doubled

AuditOther ==
    /\ \/ InitializeBlock
       \/ \E origin \in Origin, key \in InherentAuthors : ApplySetAuthor(origin, key)
    /\ UNCHANGED <<issued, lost, doubled>>

AuditNext == AuditFinalize \/ AuditOther \/ \E tx \in Transactions : AuditSpend(tx)

AuditSpec == AuditInit /\ [][AuditNext]_auditVars

-----------------------------------------------------------------------------
Worth == SumFunction([op \in DOMAIN utxoStore |-> utxoStore[op].value])
GenesisWorth == SumFunction([out \in GenesisUtxos |-> out.value])

(* The books balance: the store and the pot hold what genesis put there and  *)
(* the issuance, less what was cut or wrapped, plus what was counted twice.  *)
(* No other path of spend or of disperse_reward makes or loses value.        *)
BooksBalance == Worth + rewardTotal + lost = GenesisWorth + issued + doubled

(* "total output value must not exceed total input value", over the chain:   *)
(* nothing but issuance adds to what the store and the pot hold.             *)
OnlyIssuanceAddsValue == Worth + rewardTotal <= GenesisWorth + issued

=============================================================================
