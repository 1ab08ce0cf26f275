------------------------------- MODULE TxPool -------------------------------
(***************************************************************************)
(* The transaction pool over the runtime.  validate_transaction of the     *)
(* TaggedTransactionQueue API (runtime/src/lib.rs) gives the verdict on an *)
(* extrinsic: which tags it requires and which it provides.  For a spend   *)
(* that is all the UTXO pallet's doing; the checks of SignedExtra are for  *)
(* the other extrinsics.  The pool itself (sc_transaction_pool) is modelled*)
(* from how the node uses it: an extrinsic is ready when every tag that it *)
(* waits for is provided by a ready one; a block takes the tags of its     *)
(* extrinsics from those that wait, and out of the pool what provides them;*)
(* ready extrinsics are validated again in the background, those that wait *)
(* are not.                                                                *)
(***************************************************************************)
EXTENDS Runtime

CONSTANT MaxPool        \* the limit of the pool

ASSUME MaxPoolAssumption == MaxPool \in Nat

VARIABLES
    waits,      \* extrinsic in the pool -> tags it waits for
    valid,      \* the extrinsics that were valid at the parent of the open block
    untagged    \* the outpoints that no tag told the pool of (history)

poolVars == <<waits, valid, untagged>>

IsSpend(x) == x.call = "spend" /\ ~x.sudo
NonceTag(signer, n) == <<"nonce", signer, n>>

(* validate_transaction: a spend is not checked for its signature, nonce or  *)
(* fee; any other extrinsic must be signed and payable.                      *)
ValidExtrinsic(x) ==
    IF IsSpend(x) THEN ValidateTransaction(x.tx)
    ELSE IsSigned(x) /\ x.nonce >= nonce[x.signer] /\ CanPay(x)

Requires(x) ==
    IF IsSpend(x) THEN Missing(x.tx)
    ELSE IF x.nonce > nonce[x.signer] THEN {NonceTag(x.signer, x.nonce - 1)} ELSE {}

(* Mutant: the tags are the hashes of the outputs, index left out.           *)
ProvidesFirst(x) ==
    IF IsSpend(x) THEN {OutputKey(x.tx, 1)} ELSE {NonceTag(x.signer, x.nonce)}

Provides(x) == IF IsSpend(x) THEN OutputKeys(x.tx) ELSE {NonceTag(x.signer, x.nonce)}

(* The extrinsics that may be built into a block, from what they wait for.   *)
ReadyAmong(w) ==
    LET round[n \in Nat] ==
            IF n = 0 THEN {}
            ELSE LET tags == UNION {Provides(y) : y \in round[n - 1]}
                 IN  {x \in DOMAIN w : w[x] \subseteq tags}
    IN  round[Cardinality(DOMAIN w)]

Without(w, gone) == [x \in DOMAIN w \ gone |-> w[x]]
Among(w, x) == [y \in DOMAIN w \cup {x} |-> IF y = x THEN Requires(x) ELSE w[y]]

-----------------------------------------------------------------------------
PoolInit == RuntimeInit /\ waits = <<>> /\ valid = {} /\ untagged = {}

(* Of two that provide a tag in common one stays: which, by their            *)
(* priorities, is left open.                                                 *)
Submit(x) ==
    /\ phase = "idle" /\ x \notin DOMAIN waits /\ Cardinality(DOMAIN waits) < MaxPool
    /\ ValidExtrinsic(x)
    /\ LET rivals == {y \in DOMAIN waits : Provides(x) \cap Provides(y) # {}}
       IN  waits' = Among(Without(waits, rivals), x)
    /\ UNCHANGED <<runtimeVars, valid, untagged>>

(* A ready extrinsic is validated again.  An invalid one goes with all that  *)
(* depend on it; another waits for what it requires now.                     *)
Revalidate(x) ==
    /\ phase = "idle" /\ x \in ReadyAmong(waits)
    /\ LET dependent == ReadyAmong(waits) \ ReadyAmong(Without(waits, {x}))
       IN  waits' = IF ValidExtrinsic(x) THEN Among(waits, x) ELSE Without(waits, dependent)
    /\ UNCHANGED <<runtimeVars, valid, untagged>>

BeginBlock(digests) ==
    /\ Begin(digests)
    /\ valid' = {x \in Extrinsics : ValidExtrinsic(x)}
    /\ UNCHANGED <<waits, untagged>>

Arrived == DOMAIN utxoStore' \ DOMAIN utxoStore

(* What a spend inside a sudo call makes has no tag: the call has only the   *)
(* nonce of its signer.                                                      *)
InBlock ==
    /\ \/ Dispatch /\ untagged' = IF executing.sudo THEN untagged \cup Arrived ELSE untagged
       \/ (\E x \in Extrinsics : PreDispatch(x)) /\ untagged' = untagged
    /\ UNCHANGED <<waits, valid>>

(* The block is imported.  The tags of an extrinsic that is not in the pool  *)
(* are those of its verdict at the parent; whether it failed does not count. *)
(* The payout of the block has no tag.                                       *)
EndBlock ==
    /\ End
    /\ LET tags == UNION {Provides(x) : x \in body \cap (DOMAIN waits \cup valid)}
           pruned == {x \in ReadyAmong(waits) : Provides(x) \cap tags # {}}
       IN  waits' = [x \in DOMAIN waits \ pruned |-> waits[x] \ tags]
    /\ valid' = {}
    /\ untagged' = untagged \cup Arrived

PoolNext ==
    \/ \E x \in Extrinsics : Submit(x) \/ Revalidate(x)
    \/ \E digests \in HeaderDigests : BeginBlock(digests)
    \/ InBlock
    \/ EndBlock

PoolSpec == PoolInit /\ [][PoolNext]_<<runtimeVars, poolVars>>

-----------------------------------------------------------------------------
(* A spend whose inputs have all come into the store is ready, whichever     *)
(* blocks and validations passed between its submission and now: what waits  *)
(* is never validated again, so only tags can wake it.  The exception is an  *)
(* input that came without a tag.                                            *)
NothingForgotten ==
    phase = "idle" =>
        \A x \in DOMAIN waits :
            IsSpend(x) /\ Missing(x.tx) = {} /\ waits[x] \cap untagged = {} =>
                x \in ReadyAmong(waits)

=============================================================================
