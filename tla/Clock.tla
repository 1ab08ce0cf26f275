-------------------------------- MODULE Clock --------------------------------
(***************************************************************************)
(* Timestamps: the inherent that a miner puts in its template, the minimum *)
(* period of pallet_timestamp (runtime/src/lib.rs), and the check that the *)
(* block import (node/src/service.rs) makes of every block, the node's own *)
(* included, against the system time of the node.                          *)
(*                                                                         *)
(* The chain is one sequence of blocks, of which each node has a prefix;   *)
(* forks are left to ForkChoice.                                           *)
(***************************************************************************)
EXTENDS Integers, Sequences

CONSTANTS
    Node,
    SlotDuration,   \* SLOT_DURATION
    MaxDrift,       \* how far ahead of its clock a node accepts a timestamp
    MaxSkew,        \* how far apart the clocks of nodes are
    Launch,         \* what the clocks show when the chain starts
    MaxClock,       \* the bounds on time and on blocks
    MaxBlocks,
    NoTemplate

MinimumPeriod == SlotDuration \div 2

Time == Launch .. MaxClock
Stamp == Nat
Template == [parent : 0 .. MaxBlocks - 1, time : Stamp]

ASSUME ClockAssumption ==
    /\ SlotDuration \in Nat /\ SlotDuration >= 2
    /\ MaxDrift \in Nat /\ MaxSkew \in Nat
    /\ Launch \in Nat \ {0} /\ MaxClock \in Nat /\ Launch <= MaxClock
    /\ MaxBlocks \in Nat
    /\ NoTemplate \notin Template

VARIABLES
    clock,      \* the system time of each node
    stamps,     \* pallet_timestamp::Now after each block of the chain
    height,     \* how much of the chain each node has imported
    template    \* the block that each node is trying to seal

clockVars == <<clock, stamps, height, template>>

ClockTypeOK ==
    /\ clock \in [Node -> Time]
    /\ stamps \in Seq(Stamp) /\ Len(stamps) <= MaxBlocks
    /\ height \in [Node -> 0 .. Len(stamps)]
    /\ template \in [Node -> Template \cup {NoTemplate}]

ClockInit ==
    /\ clock = [n \in Node |-> Launch]
    /\ stamps = <<>>
    /\ height = [n \in Node |-> 0]
    /\ template = [n \in Node |-> NoTemplate]

(* The timestamp in the state of block h; genesis has none.                  *)
Now(h) == IF h = 0 THEN 0 ELSE stamps[h]

(* Time passes on each node; clocks stay within MaxSkew of each other.       *)
Tick(n) ==
    /\ clock[n] < MaxClock
    /\ \A m \in Node : clock[n] + 1 <= clock[m] + MaxSkew
    /\ clock' = [clock EXCEPT ![n] = @ + 1]
    /\ UNCHANGED <<stamps, height, template>>

(* Mutant: the timestamp is the system time, early or not.                   *)
SystemTime(n) == clock[n]

(* create_inherent: the system time, or the earliest that is allowed.        *)
InherentTime(n) ==
    LET earliest == Now(height[n]) + MinimumPeriod
    IN  IF clock[n] > earliest THEN clock[n] ELSE earliest

BuiltOn(n) == IF template[n] = NoTemplate THEN -1 ELSE template[n].parent

(* The authoring task makes a template on the node's best block.             *)
BuildTemplate(n) ==
    /\ height[n] < MaxBlocks
    /\ BuiltOn(n) # height[n]
    /\ template' = [template EXCEPT ![n] = [parent |-> height[n], time |-> InherentTime(n)]]
    /\ UNCHANGED <<clock, stamps, height>>

(* Mutant: no upper bound.                                                   *)
CheckLowerBound(n, h, time) == h = 1 \/ time >= Now(h - 1) + MinimumPeriod

(* check_inherents for block h on node n, and what `set` asserts.            *)
CheckInherents(n, h, time) ==
    /\ time <= clock[n] + MaxDrift
    /\ h = 1 \/ time >= Now(h - 1) + MinimumPeriod

(* submit takes the template, whatever becomes of it.                        *)
TakeTemplate(n) == template' = [template EXCEPT ![n] = NoTemplate]

(* Mutant: whatever the template was built on.                               *)
SealAnyTemplate(n) ==
    /\ template[n] # NoTemplate
    /\ stamps' = Append(stamps, template[n].time)
    /\ height' = [height EXCEPT ![n] = Len(stamps) + 1]
    /\ TakeTemplate(n)
    /\ UNCHANGED clock

(* A sealed template of the last block extends the chain if the node's own   *)
(* import lets it; otherwise it is gone, and a new one must be sealed.       *)
SealBlock(n) ==
    /\ template[n] # NoTemplate
    /\ LET h == Len(stamps) + 1
           time == template[n].time
       IN  IF template[n].parent + 1 = h /\ height[n] + 1 = h /\ CheckInherents(n, h, time)
           THEN stamps' = Append(stamps, time) /\ height' = [height EXCEPT ![n] = h]
           ELSE UNCHANGED <<stamps, height>>
    /\ TakeTemplate(n)
    /\ UNCHANGED clock

(* The next block from the network, offered until the check accepts it.      *)
ImportBlock(n) ==
    /\ height[n] < Len(stamps)
    /\ CheckInherents(n, height[n] + 1, stamps[height[n] + 1])
    /\ height' = [height EXCEPT ![n] = @ + 1]
    /\ UNCHANGED <<clock, stamps, template>>

ClockNext ==
    \E n \in Node : Tick(n) \/ BuildTemplate(n) \/ SealBlock(n) \/ ImportBlock(n)

ClockSpec == ClockInit /\ [][ClockNext]_clockVars

(* Time passes, blocks are offered again, and every node goes on mining.     *)
FairClockSpec ==
    /\ ClockSpec
    /\ \A n \in Node :
          /\ WF_clockVars(Tick(n)) /\ WF_clockVars(ImportBlock(n))
          /\ WF_clockVars(BuildTemplate(n)) /\ WF_clockVars(SealBlock(n))

-----------------------------------------------------------------------------
(* No node has a block from further in the future than the drift it allows,  *)
(* although a chain of fast blocks pushes its timestamps ahead of all clocks. *)
NotAheadOfClock ==
    \A n \in Node : height[n] > 0 => stamps[height[n]] <= clock[n] + MaxDrift

(* However fast seals are found, by the node or elsewhere, a chain has no    *)
(* more blocks than minimum periods since its first one, and the drift.      *)
RateIsBounded ==
    \A n \in Node :
        height[n] > 0 =>
            stamps[1] + (height[n] - 1) * MinimumPeriod <= clock[n] + MaxDrift

(* Blocks that the check turned down hold no one up for good: every node     *)
(* gets the whole chain, and the chain grows until its next block would be   *)
(* too far ahead of the time that clocks reach.                              *)
AsFarAsTimeAllows ==
    /\ \A n \in Node : height[n] = Len(stamps)
    /\ Len(stamps) = MaxBlocks \/ Now(Len(stamps)) + MinimumPeriod > MaxClock + MaxDrift
GrowsWithTime == <>[]AsFarAsTimeAllows

==============================================================================
