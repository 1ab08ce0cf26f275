----------------------------- MODULE BlockAuthor -----------------------------
(***************************************************************************)
(* The block_author pallet (runtime/src/block_author.rs): one storage item *)
(* that names the author of the block being executed, written by an        *)
(* inherent and cleared at the start of every block.                       *)
(***************************************************************************)

CONSTANTS
    Key,    \* sr25519 public keys
    NoKey   \* the storage item holds no key (Option::None)

ASSUME KeyAssumption == NoKey \notin Key

VARIABLE author     \* Author: the key that claims this block's reward

AuthorTypeOK == author \in Key \cup {NoKey}

AuthorInit == author = NoKey

(* The origins a call can be dispatched with. *)
Origin == {"none", "signed", "root"}

(* Mutant: on_initialize leaves the author alone.                            *)
KeepAuthor == author' = author

(* on_initialize: the author of the previous block is forgotten. *)
ResetAuthor == author' = NoKey

(* set_author: only without an origin (an inherent) and once per block. *)
SetAuthor(origin, key) ==
    /\ origin = "none"
    /\ author = NoKey
    /\ author' = key

(* block_author(): what the UTXO pallet asks for on finalization. *)
BlockAuthorOf == author

==============================================================================
