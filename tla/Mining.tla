------------------------------- MODULE Mining -------------------------------
(***************************************************************************)
(* The miner of a node (node/src/service.rs): the mining thread looks for  *)
(* a nonce, the authoring task of sc_consensus_pow keeps a block template  *)
(* for it, and both share a slot with one template.  Blocks also arrive    *)
(* from the network.                                                       *)
(*                                                                         *)
(* The chain is the sequence of its best blocks, numbered as they become   *)
(* the best; MaxHead bounds it.  ForkChoice says how one becomes the best. *)
(***************************************************************************)
EXTENDS Sha3Pow

CONSTANTS
    MaxHead,            \* the bound on best blocks
    Content,            \* what a proposer may put in a block
    PreHashOf(_),       \* the hash of a template's header
    DifficultyAt(_),    \* DifficultyApi::difficulty at a best block
    Encode(_),          \* Seal::encode
    None

Head == 0 .. MaxHead
Template == [parent : Head, content : Content]

ASSUME MiningAssumption ==
    /\ MaxHead \in Nat
    /\ \A t \in Template : PreHashOf(t) \in PreHash
    /\ \A h \in Head : DifficultyAt(h) \in U256
    /\ \A s \in Seal : Encode(s) \in RawSeal /\ Decode(Encode(s)) = s
    /\ None \notin Template \cup RawSeal \cup Head

VARIABLES
    best,       \* the best block of the client
    syncing,    \* SyncOracle::is_major_syncing
    authoring,  \* the best block that the authoring task builds on
    build,      \* the template in the worker's slot
    pc,         \* where the mining thread is
    nonce,
    metadata,   \* the template that the thread has read
    seal,       \* the raw seal it submits
    taken       \* the template it has taken from the slot

slotVars == <<best, syncing, authoring, build>>
minerVars == <<pc, nonce, metadata, seal, taken>>
miningVars == <<slotVars, minerVars>>

MiningTypeOK ==
    /\ best \in Head /\ syncing \in BOOLEAN
    /\ authoring \in Head \cup {None} /\ build \in Template \cup {None}
    /\ pc \in {"read", "try", "submit", "take", "import"}
    /\ nonce \in U256
    /\ metadata \in Template \cup {None} /\ taken \in Template \cup {None}
    /\ seal \in RawSeal \cup {None}

MiningInit ==
    /\ best = 0 /\ syncing = FALSE /\ authoring = None /\ build = None
    /\ pc = "read" /\ nonce = 0
    /\ metadata = None /\ seal = None /\ taken = None

Solves(t, raw) == VerifySeal(PreHashOf(t), raw, DifficultyAt(t.parent))

-----------------------------------------------------------------------------
(* The authoring task, woken by every import and every ten seconds.          *)

(* MiningHandle::best_hash: the block the template is built on.              *)
BuiltOn == IF build = None THEN None ELSE build.parent

(* Mutants: the task rebuilds whenever it wakes; it keeps any template.      *)
RebuildAlways == best < MaxHead
RebuildWhenEmpty == BuiltOn = None /\ best < MaxHead

RebuildNeeded == BuiltOn # best /\ best < MaxHead

(* Awake, the task drops its template during a major sync and otherwise      *)
(* starts a new one if it needs it.                                          *)
Wake ==
    /\ authoring = None
    /\ IF syncing THEN build' = None /\ UNCHANGED authoring
       ELSE RebuildNeeded /\ authoring' = best /\ UNCHANGED build
    /\ UNCHANGED <<best, syncing, minerVars>>

(* The proposer has made a block on the best block of that time.             *)
OnBuild ==
    /\ authoring # None
    /\ \E c \in Content : build' = [parent |-> authoring, content |-> c]
    /\ authoring' = None
    /\ UNCHANGED <<best, syncing, minerVars>>

(* It fails or runs out of time.                                             *)
ProposingFails ==
    /\ authoring # None
    /\ authoring' = None
    /\ UNCHANGED <<best, syncing, build, minerVars>>

(* Other imports and the network.                                            *)
NetworkImport ==
    /\ best < MaxHead /\ best' = best + 1
    /\ UNCHANGED <<syncing, authoring, build, minerVars>>

SyncChanges == syncing' = ~syncing /\ UNCHANGED <<best, authoring, build, minerVars>>

-----------------------------------------------------------------------------
(* The mining thread.  With an empty slot it sleeps for a second.            *)

ReadMetadata ==
    /\ pc = "read" /\ build # None
    /\ pc' = "try" /\ metadata' = build
    /\ UNCHANGED <<slotVars, nonce, seal, taken>>

(* Mutants: the nonce stays at the top; it is not kept in range.             *)
NonceStays(n) == IF n = MaxU256 THEN n ELSE n + 1
NonceUnbounded(n) == n + 1

(* saturating_add, and from U256::MAX back to 0.                             *)
NextNonce(n) == IF n + 1 >= MaxU256 THEN 0 ELSE n + 1

(* Mutant: the seal is made with the next nonce.                             *)
SealOfNextNonce(d, t, n) == Encode(Compute(d, PreHashOf(t), NextNonce(n)))

SealFor(d, t, n) == Encode(Compute(d, PreHashOf(t), n))

(* One round of the loop; the nonce restarts after a hit.                    *)
TryNonce ==
    LET d == DifficultyAt(metadata.parent)
    IN  /\ pc = "try"
        /\ IF HashMeetsDifficulty(Compute(d, PreHashOf(metadata), nonce).work, d)
           THEN nonce' = 0 /\ seal' = SealFor(d, metadata, nonce) /\ pc' = "submit"
           ELSE nonce' = NextNonce(nonce) /\ UNCHANGED seal /\ pc' = "read"
        /\ UNCHANGED <<slotVars, metadata, taken>>

(* submit: the seal is verified against the template now in the slot.        *)
SubmitVerify ==
    /\ pc = "submit"
    /\ pc' = IF build # None /\ Solves(build, seal) THEN "take" ELSE "read"
    /\ UNCHANGED <<slotVars, nonce, metadata, seal, taken>>

(* Only then is the slot locked again and its template taken.                *)
TakeBuild ==
    /\ pc = "take"
    /\ taken' = build /\ build' = None
    /\ pc' = IF build = None THEN "read" ELSE "import"
    /\ UNCHANGED <<best, syncing, authoring, nonce, metadata, seal>>

(* The import verifies the seal against the block it is put on.  On the best *)
(* block it is the next best; on an earlier one it may win a tie.            *)
ImportOwn ==
    /\ pc = "import" /\ pc' = "read"
    /\ IF ~Solves(taken, seal) THEN UNCHANGED best
       ELSE IF taken.parent = best THEN best' = best + 1
       ELSE best' \in {best, best + 1} \cap Head
    /\ UNCHANGED <<syncing, authoring, build, nonce, metadata, seal, taken>>

MinerStep == ReadMetadata \/ TryNonce \/ SubmitVerify \/ TakeBuild \/ ImportOwn

MiningNext ==
    \/ Wake \/ OnBuild \/ ProposingFails \/ NetworkImport \/ SyncChanges
    \/ MinerStep

MiningSpec == MiningInit /\ [][MiningNext]_miningVars

(* The thread runs, the task wakes, and proposing does not fail forever.     *)
FairMiningSpec ==
    /\ MiningSpec
    /\ WF_miningVars(MinerStep) /\ WF_miningVars(Wake) /\ SF_miningVars(OnBuild)

-----------------------------------------------------------------------------
(* The thread's seal is work for the template that it read.                  *)
WorkCounts == pc \in {"submit", "take", "import"} => Solves(metadata, seal)

(* A template of the best block is not replaced, so its search never starts  *)
(* again, unless the miner takes it or the node is syncing.                  *)
CurrentTemplateStays ==
    [][build' # build /\ BuiltOn = best => pc = "take" \/ syncing]_miningVars

(* The seal is verified and the template taken under two locks, so the       *)
(* import may be given a seal of another template, and the block is lost.    *)
(* Without a major sync that costs nothing but outdated work: the template   *)
(* that was taken instead is built on a newer best block.                    *)
OnlyOutdatedWorkIsLost ==
    []~syncing =>
        [](pc = "import" /\ ~Solves(taken, seal) => metadata.parent < taken.parent)

(* The miner does not stay with a template of an outdated best block.        *)
StaleWorkEnds ==
    BuiltOn \notin {best, None} ~> (BuiltOn \in {best, None} \/ best = MaxHead)

(* The template, if any, has a nonce to find among those the thread tries.   *)
Solvable ==
    build # None =>
        \E n \in U256 \ {MaxU256} :
            HashMeetsDifficulty(Compute(DifficultyAt(build.parent), PreHashOf(build), n).work,
                                DifficultyAt(build.parent))

(* A node that is done with syncing and makes templates with a nonce to find *)
(* grows the chain by itself, however its searches were interrupted.         *)
ChainGrows == (<>[](~syncing /\ Solvable)) => <>(best = MaxHead)

==============================================================================
