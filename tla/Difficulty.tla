----------------------------- MODULE Difficulty -----------------------------
(***************************************************************************)
(* The difficulty pallet (pallets/difficulty/src/lib.rs) and the target it *)
(* sets for the proof of work: one storage item, written at genesis and by *)
(* root (the sudo key), read by the node through DifficultyApi.            *)
(***************************************************************************)
EXTENDS Sha3Pow

CONSTANT GenesisDifficulty      \* GenesisConfig.difficulty

VARIABLE difficulty             \* Difficulty

DifficultyTypeOK == difficulty \in U256

DifficultyInit == difficulty = GenesisDifficulty

(* set_difficulty: any value, from root only.                                *)
SetDifficulty(origin, value) == origin = "root" /\ difficulty' = value

(* The hashes that win a block.                                              *)
Winners == {hash \in U256 : HashMeetsDifficulty(hash, difficulty)}

-----------------------------------------------------------------------------
(* The test on the overflowing product is the usual test against a target,   *)
(* and difficulty 0 lets every hash win.                                     *)
TargetIsQuotient ==
    Winners = IF difficulty = 0 THEN U256 ELSE 0 .. (MaxU256 \div difficulty)

(* Raising the difficulty never lets a hash win that lost before.            *)
HarderIsHarder == [][difficulty' >= difficulty => Winners' \subseteq Winners]_difficulty

==============================================================================
