------------------------------- MODULE Sha3Pow -------------------------------
(***************************************************************************)
(* The proof of work (node/sha3pow/src/lib.rs).  Hashes of type U256 are   *)
(* numbers; Sha3, Blake2 and the decoding of a seal's bytes are parameters.*)
(***************************************************************************)
EXTENDS Integers

CONSTANTS
    MaxU256,        \* U256::MAX
    PreHash,        \* hashes of headers without their seal
    RawSeal,        \* the bytes of a seal digest
    NoSeal,         \* what Seal::decode returns for bytes that are not a seal
    Decode(_),      \* Seal::decode
    Sha3(_, _, _),  \* Sha3_256 of an encoded Compute: difficulty, pre_hash, nonce
    Blake2(_)       \* blake2_256 of raw bytes

U256 == 0 .. MaxU256

Seal == [difficulty : U256, work : U256, nonce : U256]

ASSUME Sha3PowAssumption ==
    /\ MaxU256 \in Nat \ {0}
    /\ \A raw \in RawSeal : Decode(raw) \in Seal \cup {NoSeal} /\ Blake2(raw) \in U256
    /\ \A d, nonce \in U256, pre \in PreHash : Sha3(d, pre, nonce) \in U256
    /\ NoSeal \notin Seal

(* Mutant: a product that wraps.                                             *)
HashTimesDifficultyWraps(hash, difficulty) ==
    (hash * difficulty) % (MaxU256 + 1) < MaxU256 \div 2

(* hash_meets_difficulty: the product does not overflow.                     *)
HashMeetsDifficulty(hash, difficulty) == hash * difficulty <= MaxU256

(* Compute::compute.                                                         *)
Compute(difficulty, pre, nonce) ==
    [difficulty |-> difficulty, work |-> Sha3(difficulty, pre, nonce), nonce |-> nonce]

(* Mutant: the work is not compared with the header it is for.               *)
VerifyWorkOnly(pre, raw, difficulty) ==
    Decode(raw) # NoSeal /\ HashMeetsDifficulty(Decode(raw).work, difficulty)

(* PowAlgorithm::verify.                                                     *)
VerifySeal(pre, raw, difficulty) ==
    /\ Decode(raw) # NoSeal
    /\ HashMeetsDifficulty(Decode(raw).work, difficulty)
    /\ Compute(difficulty, pre, Decode(raw).nonce) = Decode(raw)

(* Mutant: a tie is always won by the newcomer.                              *)
NewcomerWins(own, new) == own # new

(* PowAlgorithm::break_tie: the lower hash wins.                             *)
BreakTie(own, new) == Blake2(own) > Blake2(new)

==============================================================================
