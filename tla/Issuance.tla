------------------------------ MODULE Issuance ------------------------------
(***************************************************************************)
(* The issuance of a block (runtime/src/issuance.rs, BitcoinHalving).      *)
(***************************************************************************)
EXTENDS Integers

CONSTANTS
    HalvingInterval,    \* HALVING_INTERVAL
    InitialIssuance,    \* INITIAL_ISSUANCE, a u32
    ShiftWidth,         \* the width of the shifted integer: 32
    CutOff              \* from this many halvings on the issuance is 0: 64

ASSUME IssuanceAssumption ==
    /\ HalvingInterval \in Nat \ {0}
    /\ InitialIssuance \in Nat
    /\ ShiftWidth \in Nat \ {0}
    /\ CutOff \in Nat

(* InitialIssuance halved, rounding down, s times.                           *)
Halved[s \in Nat] == IF s = 0 THEN InitialIssuance ELSE Halved[s - 1] \div 2

(* The runtime is a release build, where `>>` keeps only the low bits of the *)
(* shift count: a shift by the width is a shift by 0.                        *)
ShiftedIssuance(halvings) == Halved[halvings % ShiftWidth]

(* Mutant: intervals that start one block early.                             *)
IssuanceOneBlockEarly(block) ==
    LET halvings == (block + 1) \div HalvingInterval
    IN  IF halvings >= CutOff THEN 0 ELSE ShiftedIssuance(halvings)

(* BitcoinHalving::issuance.                                                 *)
IssuanceAt(block) ==
    LET halvings == block \div HalvingInterval
    IN  IF halvings >= CutOff THEN 0 ELSE ShiftedIssuance(halvings)

=============================================================================
