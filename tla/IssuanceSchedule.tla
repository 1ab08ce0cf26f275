-------------------------- MODULE IssuanceSchedule --------------------------
(***************************************************************************)
(* The issuance of a chain that pays an author in every block, block after *)
(* block, against the schedule the comments of runtime/src/issuance.rs     *)
(* state: "Initial issuance is 50 / block", "cut in half every 210,000     *)
(* blocks".                                                                *)
(***************************************************************************)
EXTENDS Issuance

CONSTANT LastBlock      \* the last block that is reached

ASSUME LastBlockAssumption == LastBlock \in Nat

VARIABLES
    block,      \* the block last finalized
    minted      \* the issuance of blocks 1 .. block

scheduleVars == <<block, minted>>

ScheduleTypeOK == block \in 0 .. LastBlock /\ minted \in Nat

Init == block = 0 /\ minted = 0

(* Mutant: the issuance leaves the supply.                                   *)
MintBlockBurns ==
    /\ block < LastBlock
    /\ block' = block + 1
    /\ minted' = minted - IssuanceAt(block + 1)

(* The payout of the next block (disperse_reward asks for its issuance).     *)
MintBlock ==
    /\ block < LastBlock
    /\ block' = block + 1
    /\ minted' = minted + IssuanceAt(block + 1)

Next == MintBlock

Spec == Init /\ [][Next]_scheduleVars

-----------------------------------------------------------------------------
(* Whole intervals issue what the schedule says: each halving is rounded     *)
(* down once, and block 0 issues nothing.                                    *)
ScheduledSupply[h \in Nat] ==
    IF h = 0 THEN -InitialIssuance ELSE ScheduledSupply[h - 1] + HalvingInterval * Halved[h - 1]

MatchesSchedule ==
    (block + 1) % HalvingInterval = 0 =>
        minted = ScheduledSupply[(block + 1) \div HalvingInterval]

(* "Force block reward to zero when right shift is undefined": from the halving *)
(* whose number is the width of the shifted integer on, nothing is issued.   *)
ZeroWhenShiftUndefined ==
    block >= HalvingInterval * ShiftWidth => IssuanceAt(block) = 0

=============================================================================
