-------------------------- MODULE OutpointLifecycle --------------------------
(***************************************************************************)
(* What a UTXO ledger promises about its outpoints, whatever they carry:   *)
(* an outpoint is fresh, then unspent, then spent, and never goes back.    *)
(* While a block is open, transfers consume at least one unspent outpoint  *)
(* and create at least one; closing the block mints at most one outpoint.  *)
(***************************************************************************)
VARIABLES unspent, spent, open

lifeVars == <<unspent, spent, open>>

Init == spent = {} /\ open = FALSE

(* The outpoints a step consumes, and those it creates.                      *)
Consumed == spent' \ spent
Created  == unspent' \ unspent

(* Only unspent outpoints are consumed, only fresh ones are created, and     *)
(* none is lost.                                                             *)
Forward ==
    /\ spent' = spent \cup Consumed /\ Consumed \subseteq unspent
    /\ unspent' = (unspent \ Consumed) \cup Created /\ Created \cap spent' = {}

Begin == ~open /\ open' = TRUE /\ UNCHANGED <<unspent, spent>>

Transfer ==
    /\ open /\ open' = TRUE
    /\ Forward /\ Consumed # {} /\ Created # {}

Close ==
    /\ open /\ open' = FALSE
    /\ Forward /\ Consumed = {} /\ \A op, other \in Created : op = other

Next == Begin \/ Transfer \/ Close

Spec == Init /\ [][Next]_lifeVars

==============================================================================
