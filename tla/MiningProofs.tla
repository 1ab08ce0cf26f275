---------------------------- MODULE MiningProofs ----------------------------
(***************************************************************************)
(* What holds of the miner for every chain, every proposer and all hashes, *)
(* proved with TLAPS.                                                      *)
(***************************************************************************)
EXTENDS Mining, TLAPS

Submitting == pc \in {"submit", "take", "import"}

(* The mining thread has in hand what its next step needs.                   *)
InHand ==
    /\ pc # "read" => metadata # None
    /\ Submitting => seal # None
    /\ pc = "import" => taken # None

(* The task never starts on a block that the slot's template is built on,    *)
(* and cannot be overtaken: best blocks do not come back.                    *)
NotAhead ==
    /\ build # None => build.parent <= best
    /\ authoring # None => authoring <= best /\ BuiltOn # best
    /\ build # None => build.parent < MaxHead
    /\ authoring # None => authoring < MaxHead
    /\ taken # None => taken.parent < MaxHead

MiningInv == MiningTypeOK /\ InHand /\ NotAhead /\ WorkCounts

-----------------------------------------------------------------------------
LEMMA NextNonceInRange == \A n \in U256 : NextNonce(n) \in U256
BY Sha3PowAssumption DEF NextNonce, U256

(* A seal made for a template is a seal of the template.                     *)
LEMMA ComputeIsSeal ==
    ASSUME NEW d \in U256, NEW t \in Template, NEW n \in U256
    PROVE  Compute(d, PreHashOf(t), n) \in Seal
<1>1. Sha3(d, PreHashOf(t), n) \in U256
  BY MiningAssumption, Sha3PowAssumption
<1> QED
  BY <1>1 DEF Compute, Seal

LEMMA SealSolves ==
    ASSUME NEW t \in Template, NEW n \in U256,
           HashMeetsDifficulty(Compute(DifficultyAt(t.parent), PreHashOf(t), n).work,
                               DifficultyAt(t.parent))
    PROVE  /\ SealFor(DifficultyAt(t.parent), t, n) \in RawSeal
           /\ Solves(t, SealFor(DifficultyAt(t.parent), t, n))
<1> DEFINE d == DifficultyAt(t.parent)
           s == Compute(d, PreHashOf(t), n)
<1>1. d \in U256
  BY MiningAssumption DEF Template
<1>2. s \in Seal /\ s.nonce = n
  BY <1>1, ComputeIsSeal DEF Compute
<1>3. Encode(s) \in RawSeal /\ Decode(Encode(s)) = s
  BY <1>2, MiningAssumption
<1>4. s # NoSeal
  BY <1>2, Sha3PowAssumption
<1> QED
  BY <1>2, <1>3, <1>4 DEF SealFor, Solves, VerifySeal

LEMMA MiningInitInv == MiningInit => MiningInv
<1> SUFFICES ASSUME MiningInit PROVE MiningInv
  OBVIOUS
<1>1. 0 \in U256 /\ 0 \in Head
  BY Sha3PowAssumption, MiningAssumption DEF U256, Head
<1> QED
  BY <1>1 DEF MiningInit, MiningInv, MiningTypeOK, InHand, Submitting, NotAhead, WorkCounts

(* The steps of the authoring task and of the environment leave the miner.   *)
LEMMA SlotStep ==
    ASSUME MiningInv, UNCHANGED minerVars,
           best' \in Head, syncing' \in BOOLEAN, authoring' \in Head \cup {None},
           build' \in Template \cup {None}, NotAhead'
    PROVE  MiningInv'
BY DEF MiningInv, minerVars, MiningTypeOK, InHand, Submitting, WorkCounts, Solves

LEMMA MiningNextInv == MiningInv /\ [MiningNext]_miningVars => MiningInv'
<1> SUFFICES ASSUME MiningInv, [MiningNext]_miningVars PROVE MiningInv'
  OBVIOUS
<1> USE DEF MiningInv
<1>0. /\ MaxHead \in Nat /\ None \notin Template /\ None \notin RawSeal /\ None \notin Head
      /\ best \in 0 .. MaxHead
  BY MiningAssumption DEF MiningTypeOK, Head
<1>1. CASE Wake
  <2>1. NotAhead'
    BY <1>0, <1>1 DEF Wake, RebuildNeeded, BuiltOn, NotAhead, minerVars, MiningTypeOK
  <2> QED
    BY <1>1, <2>1, SlotStep DEF Wake, MiningTypeOK
<1>2. CASE OnBuild
  <2>1. PICK c \in Content : build' = [parent |-> authoring, content |-> c]
    BY <1>2 DEF OnBuild
  <2>2. build' \in Template /\ build'.parent = authoring
    BY <1>2, <2>1 DEF OnBuild, Template, MiningTypeOK
  <2>3. NotAhead'
    BY <1>0, <1>2, <2>2 DEF OnBuild, NotAhead, minerVars
  <2> QED
    BY <1>2, <2>2, <2>3, SlotStep DEF OnBuild, MiningTypeOK
<1>3. CASE ProposingFails
  <2>1. NotAhead'
    BY <1>3 DEF ProposingFails, NotAhead, minerVars
  <2> QED
    BY <1>3, <2>1, SlotStep DEF ProposingFails, MiningTypeOK
<1>4. CASE NetworkImport
  <2>1. best' \in Head
    BY <1>0, <1>4 DEF NetworkImport, Head
  <2>2. \A t \in Template : t.parent \in Int
    BY <1>0 DEF Template, Head
  <2>3. NotAhead'
    BY <1>0, <1>4, <2>2 DEF NetworkImport, NotAhead, BuiltOn, minerVars, MiningTypeOK, Head
  <2> QED
    BY <1>4, <2>1, <2>3, SlotStep DEF NetworkImport, MiningTypeOK
<1>5. CASE SyncChanges
  <2>1. NotAhead'
    BY <1>5 DEF SyncChanges, NotAhead, BuiltOn, minerVars
  <2> QED
    BY <1>5, <2>1, SlotStep DEF SyncChanges, MiningTypeOK
<1>6. CASE ReadMetadata
  BY <1>6 DEF ReadMetadata, slotVars, MiningTypeOK, InHand, Submitting, NotAhead, BuiltOn,
              WorkCounts, Solves
<1>7. CASE TryNonce
  <2> DEFINE d == DifficultyAt(metadata.parent)
  <2>1. metadata \in Template /\ nonce \in U256
    BY <1>7 DEF TryNonce, MiningTypeOK, InHand
  <2>2. CASE HashMeetsDifficulty(Compute(d, PreHashOf(metadata), nonce).work, d)
    <3>1. /\ nonce' = 0 /\ seal' = SealFor(d, metadata, nonce) /\ pc' = "submit"
          /\ UNCHANGED <<slotVars, metadata, taken>>
      BY <1>7, <2>2 DEF TryNonce
    <3>2. seal' \in RawSeal /\ Solves(metadata, seal')
      BY <2>1, <2>2, <3>1, SealSolves
    <3>3. 0 \in U256
      BY Sha3PowAssumption DEF U256
    <3> QED
      BY <1>0, <2>1, <3>1, <3>2, <3>3
         DEF slotVars, MiningTypeOK, InHand, Submitting, NotAhead, BuiltOn,
             WorkCounts, Solves
  <2>3. CASE ~HashMeetsDifficulty(Compute(d, PreHashOf(metadata), nonce).work, d)
    <3>1. /\ nonce' = NextNonce(nonce) /\ pc' = "read"
          /\ UNCHANGED <<slotVars, metadata, taken, seal>>
      BY <1>7, <2>3 DEF TryNonce
    <3> QED
      BY <2>1, <3>1, NextNonceInRange
         DEF slotVars, MiningTypeOK, InHand, Submitting, NotAhead, BuiltOn,
             WorkCounts, Solves
  <2> QED
    BY <2>2, <2>3
<1>8. CASE SubmitVerify
  BY <1>8 DEF SubmitVerify, slotVars, MiningTypeOK, InHand, Submitting, NotAhead, BuiltOn,
              WorkCounts, Solves
<1>9. CASE TakeBuild
  <2>1. NotAhead'
    BY <1>0, <1>9 DEF TakeBuild, NotAhead, BuiltOn, MiningTypeOK
  <2> QED
    BY <1>9, <2>1 DEF TakeBuild, MiningTypeOK, InHand, Submitting,
                      WorkCounts, Solves
<1>10. CASE ImportOwn
  <2>1. /\ taken \in Template /\ seal \in RawSeal /\ pc' = "read"
        /\ UNCHANGED <<syncing, authoring, build, nonce, metadata, seal, taken>>
    BY <1>10 DEF ImportOwn, MiningTypeOK, InHand, Submitting
  <2>2. best' \in Head /\ best' >= best
    BY <1>0, <1>10, <2>1 DEF ImportOwn, NotAhead, Head
  <2>3. \A t \in Template : t.parent \in Int
    BY <1>0 DEF Template, Head
  <2>4. NotAhead'
    BY <1>0, <2>1, <2>2, <2>3 DEF NotAhead, BuiltOn, MiningTypeOK, Head
  <2> QED
    BY <2>1, <2>2, <2>4 DEF MiningTypeOK, InHand, Submitting, WorkCounts, Solves
<1>11. CASE UNCHANGED miningVars
  BY <1>11 DEF miningVars, slotVars, minerVars, MiningTypeOK, InHand, Submitting, NotAhead,
               BuiltOn, WorkCounts, Solves
<1> QED
  BY <1>1, <1>2, <1>3, <1>4, <1>5, <1>6, <1>7, <1>8, <1>9, <1>10, <1>11
     DEF MiningNext, MinerStep

LEMMA MiningInvariance == MiningSpec => []MiningInv
BY MiningInitInv, MiningNextInv, PTL DEF MiningSpec

(* The nonce, the templates and the seals keep their types.                  *)
THEOREM MinerTypeCorrect == MiningSpec => []MiningTypeOK
<1>1. MiningInv => MiningTypeOK
  BY DEF MiningInv
<1> QED
  BY <1>1, MiningInvariance, PTL

(* A submitted seal solves the template the thread has read.                 *)
THEOREM NoWorkIsWasted == MiningSpec => []WorkCounts
<1>1. MiningInv => WorkCounts
  BY DEF MiningInv
<1> QED
  BY <1>1, MiningInvariance, PTL

(* The task does not replace a template of the best block.                   *)
THEOREM SearchIsNotRestarted == MiningSpec => CurrentTemplateStays
<1>1. MiningInv /\ [MiningNext]_miningVars =>
        [build' # build /\ BuiltOn = best => pc = "take" \/ syncing]_miningVars
  <2> SUFFICES ASSUME MiningInv, MiningNext, build' # build, BuiltOn = best
               PROVE  pc = "take" \/ syncing
    OBVIOUS
  <2>1. ~OnBuild
    BY DEF OnBuild, MiningInv, NotAhead
  <2> QED
    BY <2>1 DEF MiningNext, MinerStep, Wake, ProposingFails, NetworkImport, SyncChanges,
                ReadMetadata, TryNonce, SubmitVerify, TakeBuild, ImportOwn, slotVars
<1> QED
  BY <1>1, MiningInvariance, PTL DEF MiningSpec, CurrentTemplateStays

-----------------------------------------------------------------------------
(* On a node that is not syncing the slot does not fall behind the thread: a *)
(* template in it is replaced only by one built on a newer best block.       *)
Supersedes(t) == t # None /\ (t = metadata \/ metadata.parent < t.parent)

SlotKeepsUp ==
    /\ build # None /\ authoring # None => build.parent < authoring
    /\ pc \in {"try", "submit", "take"} => Supersedes(build)
    /\ pc = "import" => Supersedes(taken)

LEMMA SlotKeepsUpStep ==
    MiningInv /\ SlotKeepsUp /\ ~syncing /\ [MiningNext]_miningVars => SlotKeepsUp'
<1> SUFFICES ASSUME MiningInv, SlotKeepsUp, ~syncing, [MiningNext]_miningVars
             PROVE  SlotKeepsUp'
  OBVIOUS
<1> USE DEF SlotKeepsUp, Supersedes
<1>0. /\ MaxHead \in Nat /\ None \notin Template /\ None \notin Head /\ best \in Int
      /\ build \in Template \cup {None} /\ metadata \in Template \cup {None}
      /\ authoring \in Head \cup {None} /\ (pc # "read" => metadata # None)
      /\ \A h \in Head : h \in Int
      /\ \A t \in Template : t.parent \in Int
  BY MiningAssumption DEF MiningInv, MiningTypeOK, InHand, Head, Template
<1>1. CASE Wake
  BY <1>0, <1>1 DEF Wake, RebuildNeeded, BuiltOn, MiningInv, NotAhead, minerVars
<1>2. CASE OnBuild
  <2>1. PICK c \in Content : build' = [parent |-> authoring, content |-> c]
    BY <1>2 DEF OnBuild
  <2>2. /\ build'.parent = authoring /\ build' # None /\ authoring \in Int
        /\ authoring' = None /\ UNCHANGED minerVars
    BY <1>0, <1>2, <2>1 DEF OnBuild, Template
  <2>3. ASSUME pc \in {"try", "submit", "take"} PROVE metadata.parent < authoring
    BY <1>0, <1>2, <2>2, <2>3 DEF OnBuild
  <2> QED
    BY <2>2, <2>3 DEF minerVars
<1>3. CASE ProposingFails
  BY <1>3 DEF ProposingFails, minerVars
<1>4. CASE NetworkImport \/ SyncChanges
  BY <1>4 DEF NetworkImport, SyncChanges, minerVars
<1>5. CASE ReadMetadata
  BY <1>5 DEF ReadMetadata, slotVars
<1>6. CASE TryNonce
  BY <1>6 DEF TryNonce, slotVars
<1>7. CASE SubmitVerify
  BY <1>7 DEF SubmitVerify, slotVars
<1>8. CASE TakeBuild
  BY <1>8 DEF TakeBuild
<1>9. CASE ImportOwn
  BY <1>9 DEF ImportOwn
<1>10. CASE UNCHANGED miningVars
  BY <1>10 DEF miningVars, slotVars, minerVars
<1> QED
  BY <1>1, <1>2, <1>3, <1>4, <1>5, <1>6, <1>7, <1>8, <1>9, <1>10 DEF MiningNext, MinerStep

(* Without a major sync the window between the two locks of a submission     *)
(* costs outdated work only.                                                 *)
THEOREM WindowIsHarmless == MiningSpec => OnlyOutdatedWorkIsLost
<1>1. MiningInit => SlotKeepsUp
  BY DEF MiningInit, SlotKeepsUp
<1>2. MiningInv /\ SlotKeepsUp =>
        (pc = "import" /\ ~Solves(taken, seal) => metadata.parent < taken.parent)
  BY DEF MiningInv, WorkCounts, SlotKeepsUp, Supersedes
<1> QED
  BY <1>1, <1>2, SlotKeepsUpStep, MiningInvariance, PTL DEF MiningSpec, OnlyOutdatedWorkIsLost

=============================================================================
