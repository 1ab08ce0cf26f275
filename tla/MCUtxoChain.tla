----------------------------- MODULE MCUtxoChain -----------------------------
(***************************************************************************)
(* The UTXO chain and its audit on the transactions of UtxoCatalogue.      *)
(***************************************************************************)
EXTENDS UtxoAudit, UtxoCatalogue

==============================================================================
