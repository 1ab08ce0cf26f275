-------------------------- MODULE ForkChoiceProofs --------------------------
(***************************************************************************)
(* What holds of ForkChoice for every tree of blocks, every number of      *)
(* nodes and every order of arrival, proved with TLAPS.                    *)
(***************************************************************************)
EXTENDS ForkChoice, TLAPS

Verified(b) == VerifySeal(PreHashOf(b), SealOf(b), NextDifficulty(Parent(b)))

Pending(n, i) == importing[n][i] # NoImport

(* Every imported block stands on imported and verified ancestors.           *)
Ancestry ==
    \A n \in Node :
        /\ Genesis \in imported[n] /\ total[n][Genesis] = 0 /\ best[n] \in imported[n]
        /\ \A b \in imported[n] \ {Genesis} :
              Parent(b) \in imported[n] /\ Verified(b) /\ total[n][b] = TotalAt(n, b)

(* So will every block whose import has begun.                               *)
PendingAncestry ==
    \A n \in Node, i \in Importer : Pending(n, i) =>
        Parent(importing[n][i].block) \in imported[n] /\ Verified(importing[n][i].block)

(* A chain that starts with difficulty 0 never leaves genesis: its first     *)
(* block would tie with a block that has no seal.                            *)
Started ==
    \A n \in Node : imported[n] # {Genesis} \/ (\E i \in Importer : Pending(n, i))
                        => NextDifficulty(Genesis) > 0

Positive == \A n \in Node : \A b \in imported[n] \ {Genesis} : total[n][b] > 0

(* Nodes record the same total difficulty for the same block.                *)
TotalsAgree ==
    \A m, n \in Node : \A b \in imported[m] \cap imported[n] : total[m][b] = total[n][b]

(* The inductive invariant, whatever the importers.                          *)
IInv == ForkTypeOK /\ Ancestry /\ PendingAncestry /\ Started /\ Positive /\ TotalsAgree

-----------------------------------------------------------------------------
LEMMA SumInRange ==
    ASSUME NEW x \in U256, NEW y \in U256
    PROVE  /\ SaturatingAdd(x, y) \in U256
           /\ SaturatingAdd(x, y) >= x
           /\ y > 0 => SaturatingAdd(x, y) > 0
BY Sha3PowAssumption DEF SaturatingAdd, U256

LEMMA SealHashInRange == \A b \in Sealed : Blake2(SealOf(b)) \in Int
<1> SUFFICES ASSUME NEW b \in Sealed PROVE Blake2(SealOf(b)) \in Int
  OBVIOUS
<1>1. SealOf(b) \in RawSeal
  BY BlockAssumption
<1> QED
  BY <1>1, Sha3PowAssumption DEF U256

LEMMA TotalAtInRange ==
    ASSUME ForkTypeOK, NEW n \in Node, NEW b \in Sealed
    PROVE  TotalAt(n, b) \in U256
BY SumInRange, BlockAssumption DEF TotalAt, ForkTypeOK

(* A block on top of an imported one has some weight.                        *)
LEMMA TotalAtPositive ==
    ASSUME IInv, NEW n \in Node, NEW b \in Sealed, Parent(b) \in imported[n],
           NextDifficulty(Genesis) > 0
    PROVE  TotalAt(n, b) > 0
<1>1. TotalAt(n, b) = SaturatingAdd(total[n][Parent(b)], NextDifficulty(Parent(b)))
  BY DEF TotalAt
<1>2. total[n][Parent(b)] \in U256 /\ NextDifficulty(Parent(b)) \in U256
  BY BlockAssumption DEF IInv, ForkTypeOK
<1>3. CASE Parent(b) = Genesis
  BY <1>1, <1>2, <1>3, SumInRange
<1>4. CASE Parent(b) # Genesis
  <2>1. total[n][Parent(b)] > 0
    BY <1>4 DEF IInv, Positive
  <2>2. TotalAt(n, b) >= total[n][Parent(b)] /\ TotalAt(n, b) \in U256
    BY <1>1, <1>2, SumInRange
  <2> QED
    BY <1>2, <2>1, <2>2 DEF U256
<1> QED
  BY <1>3, <1>4

(* Two verified blocks with the same seal are the same block: the work in    *)
(* the seal is a hash of the rest of the header.                             *)
LEMMA SealIdentifies ==
    ASSUME NEW b \in Sealed, NEW c \in Sealed, Verified(b), Verified(c),
           SealOf(b) = SealOf(c)
    PROVE  b = c
<1> DEFINE seal == Decode(SealOf(b))
           db == NextDifficulty(Parent(b))
           dc == NextDifficulty(Parent(c))
<1>1. seal \in Seal
  BY BlockAssumption, Sha3PowAssumption DEF Verified, VerifySeal
<1>2. /\ seal = Compute(db, PreHashOf(b), seal.nonce)
      /\ seal = Compute(dc, PreHashOf(c), seal.nonce)
  BY DEF Verified, VerifySeal
<1>3. seal.work = Sha3(db, PreHashOf(b), seal.nonce)
  BY <1>2 DEF Compute
<1>4. seal.work = Sha3(dc, PreHashOf(c), seal.nonce)
  BY <1>2 DEF Compute
<1>5. seal.nonce \in U256
  BY <1>1 DEF Seal
<1>6. /\ PreHashOf(b) \in PreHash /\ PreHashOf(c) \in PreHash
      /\ db \in U256 /\ dc \in U256
  BY BlockAssumption
<1> HIDE DEF seal, db, dc
<1>7. PreHashOf(b) = PreHashOf(c)
  <2>1. Sha3(db, PreHashOf(b), seal.nonce) = Sha3(dc, PreHashOf(c), seal.nonce)
    BY <1>3, <1>4
  <2> QED
    BY <1>5, <1>6, <2>1, BlockIdentity
<1> QED
  BY <1>7, BlockIdentity

(* What the two steps of an import do, one conjunct per variable.            *)
LEMMA BeginEffect ==
    ASSUME IInv, NEW n \in Node, NEW i \in Importer, NEW b \in Sealed, BeginImport(n, i, b)
    PROVE  IInv'
<1>1. /\ b \notin imported[n] /\ Parent(b) \in imported[n] /\ Verified(b)
      /\ ~TieWithGenesis(n, b)
      /\ importing' = [importing EXCEPT ![n][i] = [block |-> b, wins |-> Wins(n, b)]]
      /\ UNCHANGED <<imported, total, best>>
  BY DEF BeginImport, Verified
<1>2. ForkTypeOK'
  <2>1. Wins(n, b) \in BOOLEAN
    BY DEF Wins
  <2>2. [block |-> b, wins |-> Wins(n, b)] \in Import
    BY <2>1 DEF Import
  <2> QED
    BY <1>1, <2>2 DEF IInv, ForkTypeOK
<1>3. \A m \in Node, j \in Importer :
        IF m = n /\ j = i THEN importing'[m][j] = [block |-> b, wins |-> Wins(n, b)]
                          ELSE importing'[m][j] = importing[m][j]
  BY <1>1 DEF IInv, ForkTypeOK
<1>4. Ancestry' /\ Positive' /\ TotalsAgree'
  BY <1>1 DEF IInv, Ancestry, TotalAt, Positive, TotalsAgree
<1>5. PendingAncestry'
  <2> SUFFICES ASSUME NEW m \in Node, NEW j \in Importer, Pending(m, j)'
               PROVE  /\ Parent(importing'[m][j].block) \in imported'[m]
                      /\ Verified(importing'[m][j].block)
    BY DEF PendingAncestry
  <2>1. CASE m = n /\ j = i
    BY <1>1, <1>3, <2>1
  <2>2. CASE ~(m = n /\ j = i)
    BY <1>1, <1>3, <2>2 DEF IInv, PendingAncestry, Pending
  <2> QED
    BY <2>1, <2>2
<1>6. Started'
  <2>1. CASE imported[n] # {Genesis}
    BY <1>1, <1>3, <2>1 DEF IInv, Started, Pending
  <2>2. CASE imported[n] = {Genesis}
    <3>1. best[n] = Genesis /\ Parent(b) = Genesis /\ total[n][Genesis] = 0
      BY <1>1, <2>2 DEF IInv, Ancestry
    <3>2. SaturatingAdd(0, NextDifficulty(Genesis)) # 0
      BY <1>1, <3>1 DEF TieWithGenesis, TotalAt
    <3>3. NextDifficulty(Genesis) > 0
      BY <3>2, BlockAssumption, Sha3PowAssumption DEF SaturatingAdd, U256
    <3> QED
      BY <3>3 DEF Started
  <2> QED
    BY <2>1, <2>2
<1> QED
  BY <1>2, <1>4, <1>5, <1>6 DEF IInv

(* The client's commit of a new block.                                       *)
LEMMA CommitStep ==
    ASSUME IInv, NEW n \in Node, NEW i \in Importer, CommitImport(n, i),
           NEW b, b = importing[n][i].block, b \notin imported[n]
    PROVE  /\ b \in Sealed /\ Parent(b) \in imported[n] /\ Verified(b) /\ TotalAt(n, b) \in U256
           /\ imported'[n] = imported[n] \cup {b}
           /\ total'[n][b] = TotalAt(n, b)
           /\ best'[n] = IF importing[n][i].wins THEN b ELSE best[n]
           /\ \A c \in Block \ {b} : total'[n][c] = total[n][c]
           /\ \A m \in Node \ {n} : /\ imported'[m] = imported[m] /\ total'[m] = total[m]
                                     /\ best'[m] = best[m]
           /\ ForkTypeOK'
<1>1. importing[n][i] # NoImport
  BY DEF CommitImport
<1>2. importing[n][i] \in Import
  BY <1>1 DEF IInv, ForkTypeOK
<1>3. b \in Sealed /\ importing[n][i].wins \in BOOLEAN
  BY <1>2 DEF Import
<1>4. Parent(b) \in imported[n] /\ Verified(b)
  BY <1>1 DEF IInv, PendingAncestry, Pending
<1>5. TotalAt(n, b) \in U256
  BY <1>3, TotalAtInRange DEF IInv
<1>6. /\ imported' = [imported EXCEPT ![n] = @ \cup {b}]
      /\ total' = [total EXCEPT ![n][b] = TotalAt(n, b)]
      /\ best' = IF importing[n][i].wins THEN [best EXCEPT ![n] = b] ELSE best
      /\ importing' = [importing EXCEPT ![n][i] = NoImport]
  BY DEF CommitImport
<1>7. b \in Block
  BY <1>3 DEF Sealed
<1>8. ForkTypeOK'
  BY <1>3, <1>5, <1>6, <1>7 DEF IInv, ForkTypeOK
<1> QED
  BY <1>3, <1>4, <1>5, <1>6, <1>7, <1>8 DEF IInv, ForkTypeOK

LEMMA CommitEffect ==
    ASSUME IInv, NEW n \in Node, NEW i \in Importer, CommitImport(n, i)
    PROVE  IInv'
<1> DEFINE b == importing[n][i].block
<1>1. /\ Pending(n, i)
      /\ \A m \in Node, j \in Importer :
            IF m = n /\ j = i THEN importing'[m][j] = NoImport
                              ELSE importing'[m][j] = importing[m][j]
  BY DEF CommitImport, Pending, IInv, ForkTypeOK
<1>2. CASE b \in imported[n]
  <2>1. /\ UNCHANGED <<imported, total, best>>
        /\ importing' = [importing EXCEPT ![n][i] = NoImport]
    BY <1>2 DEF CommitImport
  <2>2. ForkTypeOK'
    BY <2>1 DEF IInv, ForkTypeOK
  <2>3. Ancestry' /\ Positive' /\ TotalsAgree'
    BY <2>1 DEF IInv, Ancestry, TotalAt, Positive, TotalsAgree
  <2>4. PendingAncestry' /\ Started'
    BY <1>1, <2>1 DEF IInv, PendingAncestry, Started, Pending
  <2> QED
    BY <2>2, <2>3, <2>4 DEF IInv
<1>3. CASE b \notin imported[n]
  <2> HIDE DEF b
  <2>1. /\ b \in Sealed /\ Parent(b) \in imported[n] /\ Verified(b) /\ TotalAt(n, b) \in U256
        /\ imported'[n] = imported[n] \cup {b}
        /\ total'[n][b] = TotalAt(n, b)
        /\ best'[n] = IF importing[n][i].wins THEN b ELSE best[n]
        /\ \A c \in Block \ {b} : total'[n][c] = total[n][c]
        /\ \A m \in Node \ {n} : /\ imported'[m] = imported[m] /\ total'[m] = total[m]
                                  /\ best'[m] = best[m]
        /\ ForkTypeOK'
    BY <1>3, CommitStep DEF b
  <2>2. b # Genesis /\ imported[n] \subseteq Block /\ b \in Block
    BY <2>1 DEF Sealed, IInv, ForkTypeOK
  <2>3. \A m \in Node : \A c \in imported[m] \ {Genesis} :
            TotalAt(m, c)' = TotalAt(m, c)
    <3> SUFFICES ASSUME NEW m \in Node, NEW c \in imported[m] \ {Genesis}
                 PROVE  TotalAt(m, c)' = TotalAt(m, c)
      OBVIOUS
    <3>1. Parent(c) \in imported[m] /\ imported[m] \subseteq Block
      BY DEF IInv, Ancestry, ForkTypeOK
    <3>2. total'[m][Parent(c)] = total[m][Parent(c)]
      BY <1>3, <2>1, <3>1
    <3> QED
      BY <3>2 DEF TotalAt
  <2>4. SaturatingAdd(total'[n][Parent(b)], NextDifficulty(Parent(b))) = TotalAt(n, b)
    <3>1. Parent(b) \in Block /\ Parent(b) # b
      BY <1>3, <2>1, <2>2
    <3>2. total'[n][Parent(b)] = total[n][Parent(b)]
      BY <2>1, <3>1
    <3> QED
      BY <3>2 DEF TotalAt
  <2>5. Ancestry'
    <3> SUFFICES ASSUME NEW m \in Node
                 PROVE  /\ Genesis \in imported'[m] /\ total'[m][Genesis] = 0
                        /\ best'[m] \in imported'[m]
                        /\ \A c \in imported'[m] \ {Genesis} :
                              /\ Parent(c) \in imported'[m] /\ Verified(c)
                              /\ total'[m][c] = TotalAt(m, c)'
      BY DEF Ancestry
    <3>1. CASE m = n
      <4>1. /\ Genesis \in imported[n] /\ total[n][Genesis] = 0 /\ best[n] \in imported[n]
            /\ \A c \in imported[n] \ {Genesis} :
                  Parent(c) \in imported[n] /\ Verified(c) /\ total[n][c] = TotalAt(n, c)
        BY DEF IInv, Ancestry
      <4>2. total'[n][Genesis] = 0
        BY <2>1, <2>2, <4>1, BlockAssumption
      <4>3. best'[n] \in imported'[n]
        BY <2>1, <4>1
      <4>4. ASSUME NEW c \in imported'[n] \ {Genesis}
            PROVE  Parent(c) \in imported'[n] /\ Verified(c) /\ total'[n][c] = TotalAt(n, c)'
        <5>1. CASE c = b
          BY <2>1, <2>4, <5>1 DEF TotalAt
        <5>2. CASE c # b
          <6>1. c \in imported[n] \ {Genesis}
            BY <2>1, <5>2
          <6>2. total'[n][c] = total[n][c]
            BY <2>1, <2>2, <5>2, <6>1
          <6>3. TotalAt(n, c)' = TotalAt(n, c)
            BY <2>3, <6>1
          <6> QED
            BY <2>1, <4>1, <6>1, <6>2, <6>3
        <5> QED
          BY <5>1, <5>2
      <4>5. Genesis \in imported'[n]
        BY <2>1, <4>1
      <4> QED
        BY <3>1, <4>2, <4>3, <4>4, <4>5
    <3>2. CASE m # n
      BY <2>1, <2>3, <3>2 DEF IInv, Ancestry
    <3> QED
      BY <3>1, <3>2
  <2>6. NextDifficulty(Genesis) > 0
    BY <1>1 DEF IInv, Started
  <2>7. total'[n][b] > 0
    BY <2>1, <2>6, TotalAtPositive
  <2>8. Positive'
    <3> SUFFICES ASSUME NEW m \in Node, NEW c \in imported'[m] \ {Genesis}
                 PROVE  total'[m][c] > 0
      BY DEF Positive
    <3>1. CASE m = n /\ c = b
      BY <2>7, <3>1
    <3>2. CASE ~(m = n /\ c = b)
      <4>1. c \in imported[m] /\ total'[m][c] = total[m][c]
        BY <1>3, <2>1, <2>2, <3>2
      <4> QED
        BY <4>1 DEF IInv, Positive
    <3> QED
      BY <3>1, <3>2
  <2>9. TotalsAgree'
    <3>1. \A m \in Node : b \in imported[m] => total[m][b] = TotalAt(n, b)
      <4> SUFFICES ASSUME NEW m \in Node, b \in imported[m]
                   PROVE  total[m][b] = TotalAt(n, b)
        OBVIOUS
      <4>1. Parent(b) \in imported[m] /\ total[m][b] = TotalAt(m, b)
        BY <2>2 DEF IInv, Ancestry
      <4>2. total[m][Parent(b)] = total[n][Parent(b)]
        BY <2>1, <4>1 DEF IInv, TotalsAgree
      <4> QED
        BY <4>1, <4>2 DEF TotalAt
    <3> SUFFICES ASSUME NEW m \in Node, NEW k \in Node,
                        NEW c \in imported'[m] \cap imported'[k]
                 PROVE  total'[m][c] = total'[k][c]
      BY DEF TotalsAgree
    <3>2. \A l \in Node : imported[l] \subseteq Block
      BY DEF IInv, ForkTypeOK
    <3>3. CASE c = b
      BY <2>1, <3>1, <3>3
    <3>4. CASE c # b
      <4>1. c \in imported[m] \cap imported[k]
        BY <2>1, <3>4
      <4>2. total'[m][c] = total[m][c] /\ total'[k][c] = total[k][c]
        BY <2>1, <3>2, <3>4, <4>1
      <4> QED
        BY <4>1, <4>2 DEF IInv, TotalsAgree
    <3> QED
      BY <3>3, <3>4
  <2>10. PendingAncestry'
    <3> SUFFICES ASSUME NEW m \in Node, NEW j \in Importer, Pending(m, j)'
                 PROVE  /\ Parent(importing'[m][j].block) \in imported'[m]
                        /\ Verified(importing'[m][j].block)
      BY DEF PendingAncestry
    <3>1. importing'[m][j] = importing[m][j] /\ Pending(m, j)
      BY <1>1 DEF Pending
    <3>2. imported[m] \subseteq imported'[m]
      BY <2>1
    <3> QED
      BY <3>1, <3>2 DEF IInv, PendingAncestry
  <2>11. Started'
    <3> SUFFICES ASSUME NEW m \in Node,
                        imported'[m] # {Genesis} \/ \E j \in Importer : Pending(m, j)'
                 PROVE  NextDifficulty(Genesis) > 0
      BY DEF Started
    <3> QED
      BY <2>6
  <2> QED
    BY <2>1, <2>5, <2>8, <2>9, <2>10, <2>11 DEF IInv
<1> QED
  BY <1>2, <1>3

LEMMA InitInv == Init => IInv
<1> SUFFICES ASSUME Init PROVE IInv
  OBVIOUS
<1>1. 0 \in U256
  BY Sha3PowAssumption DEF U256
<1>2. ForkTypeOK
  BY <1>1, BlockAssumption DEF Init, ForkTypeOK
<1>3. Ancestry /\ Positive /\ TotalsAgree
  BY BlockAssumption DEF Init, Ancestry, Positive, TotalsAgree
<1>4. PendingAncestry /\ Started
  BY DEF Init, PendingAncestry, Started, Pending
<1> QED
  BY <1>2, <1>3, <1>4 DEF IInv

LEMMA NextInv == IInv /\ [Next]_forkVars => IInv'
<1> SUFFICES ASSUME IInv, [Next]_forkVars PROVE IInv'
  OBVIOUS
<1>1. ASSUME NEW n \in Node, NEW i \in Importer, CommitImport(n, i) PROVE IInv'
  BY <1>1, CommitEffect
<1>2. ASSUME NEW n \in Node, NEW i \in Importer, NEW b \in Sealed, BeginImport(n, i, b)
      PROVE  IInv'
  BY <1>2, BeginEffect
<1>3. CASE UNCHANGED forkVars
  BY <1>3 DEF forkVars, IInv, ForkTypeOK, Ancestry, TotalAt, PendingAncestry, Pending, Started,
              Positive, TotalsAgree
<1> QED
  BY <1>1, <1>2, <1>3 DEF Next

LEMMA Invariance == Spec => []IInv
BY InitInv, NextInv, PTL DEF Spec

(* A node's records keep their types.                                        *)
THEOREM ForkTypeCorrect == Spec => []ForkTypeOK
<1>1. IInv => ForkTypeOK
  BY DEF IInv
<1> QED
  BY <1>1, Invariance, PTL

-----------------------------------------------------------------------------
(* A node with one importer: no block is compared while another waits to be  *)
(* committed.                                                                *)
OneImporter == \A i, j \in Importer : i = j

(* A pending block is new, and its comparison still stands.                  *)
Decided ==
    \A n \in Node, i \in Importer : Pending(n, i) =>
        /\ importing[n][i].block \notin imported[n]
        /\ importing[n][i].wins <=> Wins(n, importing[n][i].block)

SerialInv == IInv /\ Decided /\ BestIsHeaviest

(* Wins compares as Heavier does, and never says no to both sides.           *)
LEMMA WinsIsHeavier ==
    ASSUME IInv, NEW n \in Node, NEW i \in Importer, Pending(n, i),
           NEW b \in Sealed, b = importing[n][i].block, b \notin imported[n]
    PROVE  LET o == best[n]
           IN  IF Wins(n, b)
               THEN \/ TotalAt(n, b) > total[n][o]
                    \/ TotalAt(n, b) = total[n][o] /\ o # Genesis /\ BreakTie(SealOf(o), SealOf(b))
               ELSE \/ total[n][o] > TotalAt(n, b)
                    \/ total[n][o] = TotalAt(n, b) /\ o # Genesis /\ BreakTie(SealOf(b), SealOf(o))
<1> DEFINE o == best[n]
<1>1. Parent(b) \in imported[n] /\ Verified(b) /\ NextDifficulty(Genesis) > 0
  BY DEF IInv, PendingAncestry, Started
<1>2. TotalAt(n, b) \in U256 /\ TotalAt(n, b) > 0
  BY <1>1, TotalAtInRange, TotalAtPositive DEF IInv
<1>3. o \in imported[n] /\ o \in Block /\ total[n][o] \in U256 /\ total[n][Genesis] = 0
  BY DEF IInv, Ancestry, ForkTypeOK
<1>4. CASE TotalAt(n, b) # total[n][o]
  BY <1>2, <1>3, <1>4 DEF Wins, U256
<1>5. CASE TotalAt(n, b) = total[n][o]
  <2>1. o # Genesis
    BY <1>2, <1>3, <1>5
  <2>2. o \in Sealed /\ Verified(o) /\ o # b
    BY <1>3, <2>1 DEF Sealed, IInv, Ancestry
  <2>3. SealOf(o) # SealOf(b) /\ SealOf(o) \in RawSeal /\ SealOf(b) \in RawSeal
    BY <1>1, <2>2, SealIdentifies, BlockAssumption
  <2>4. /\ Blake2(SealOf(o)) # Blake2(SealOf(b))
        /\ Blake2(SealOf(o)) \in Int /\ Blake2(SealOf(b)) \in Int
    BY <2>3, BlockIdentity, Sha3PowAssumption DEF U256
  <2> QED
    BY <1>2, <1>3, <1>5, <2>1, <2>4 DEF Wins, BreakTie, U256
<1> QED
  BY <1>4, <1>5

LEMMA SerialBegin ==
    ASSUME OneImporter, SerialInv, NEW n \in Node, NEW i \in Importer, NEW b \in Sealed,
           BeginImport(n, i, b)
    PROVE  Decided' /\ BestIsHeaviest'
<1>1. /\ b \notin imported[n]
      /\ importing' = [importing EXCEPT ![n][i] = [block |-> b, wins |-> Wins(n, b)]]
      /\ UNCHANGED <<imported, total, best>>
  BY DEF BeginImport
<1>2. BestIsHeaviest'
  BY <1>1 DEF SerialInv, BestIsHeaviest, Heavier
<1>3. \A m \in Node : \A c : Wins(m, c)' <=> Wins(m, c)
  BY <1>1 DEF Wins, TotalAt
<1>4. \A m \in Node, j \in Importer :
        importing'[m][j] = IF m = n THEN [block |-> b, wins |-> Wins(n, b)] ELSE importing[m][j]
  BY <1>1 DEF OneImporter, SerialInv, IInv, ForkTypeOK
<1>5. Decided'
  <2> SUFFICES ASSUME NEW m \in Node, NEW j \in Importer, Pending(m, j)'
               PROVE  /\ importing'[m][j].block \notin imported'[m]
                      /\ importing'[m][j].wins <=> Wins(m, importing[m][j].block)'
    BY DEF Decided
  <2>1. CASE m = n
    BY <1>1, <1>3, <1>4, <2>1
  <2>2. CASE m # n
    <3>1. importing'[m][j] = importing[m][j] /\ Pending(m, j)
      BY <1>4, <2>2 DEF Pending
    <3> QED
      BY <1>1, <1>3, <3>1 DEF SerialInv, Decided
  <2> QED
    BY <2>1, <2>2
<1> QED
  BY <1>2, <1>5

LEMMA SerialCommit ==
    ASSUME OneImporter, SerialInv, NEW n \in Node, NEW i \in Importer, CommitImport(n, i)
    PROVE  Decided' /\ BestIsHeaviest'
<1> USE DEF SerialInv
<1>1. PICK b : b = importing[n][i].block
  OBVIOUS
<1>2. Pending(n, i) /\ b \notin imported[n] /\ (importing[n][i].wins <=> Wins(n, b))
  BY <1>1 DEF CommitImport, Pending, Decided
<1>3. /\ b \in Sealed /\ Parent(b) \in imported[n] /\ Verified(b) /\ TotalAt(n, b) \in U256
      /\ imported'[n] = imported[n] \cup {b}
      /\ total'[n][b] = TotalAt(n, b)
      /\ best'[n] = IF importing[n][i].wins THEN b ELSE best[n]
      /\ \A c \in Block \ {b} : total'[n][c] = total[n][c]
      /\ \A m \in Node \ {n} : /\ imported'[m] = imported[m] /\ total'[m] = total[m]
                                /\ best'[m] = best[m]
  BY <1>1, <1>2, CommitStep
<1>4. /\ best[n] \in imported[n] /\ imported[n] \subseteq Block /\ b # Genesis
      /\ \A m \in Node : best[m] \in Block /\ (\A c \in Block : total[m][c] \in U256)
  BY <1>3 DEF IInv, Ancestry, ForkTypeOK, Sealed
<1>5. LET o == best[n]
      IN  IF importing[n][i].wins
          THEN \/ TotalAt(n, b) > total[n][o]
               \/ TotalAt(n, b) = total[n][o] /\ o # Genesis /\ BreakTie(SealOf(o), SealOf(b))
          ELSE \/ total[n][o] > TotalAt(n, b)
               \/ total[n][o] = TotalAt(n, b) /\ o # Genesis /\ BreakTie(SealOf(b), SealOf(o))
  BY <1>1, <1>2, <1>3, WinsIsHeavier
<1>6. \A c \in imported[n] : total'[n][c] = total[n][c] /\ c \in Block /\ c # b
  BY <1>2, <1>3, <1>4
<1>7. \A c \in imported[n] \ {best[n]} : Heavier(n, best[n], c)
  BY DEF BestIsHeaviest
<1>8. Decided'
  <2> SUFFICES ASSUME NEW m \in Node, NEW j \in Importer, Pending(m, j)'
               PROVE  /\ importing'[m][j].block \notin imported'[m]
                      /\ importing'[m][j].wins <=> Wins(m, importing[m][j].block)'
    BY DEF Decided
  <2>1. importing' = [importing EXCEPT ![n][i] = NoImport]
    BY DEF CommitImport
  <2>2. m # n
    BY <2>1 DEF Pending, OneImporter, IInv, ForkTypeOK
  <2>3. importing'[m][j] = importing[m][j] /\ Pending(m, j)
    BY <2>1, <2>2 DEF Pending, IInv, ForkTypeOK
  <2>4. ASSUME NEW c PROVE Wins(m, c)' <=> Wins(m, c)
    BY <1>3, <2>2 DEF Wins, TotalAt
  <2>5. Wins(m, importing[m][j].block)' <=> Wins(m, importing[m][j].block)
    BY <2>3, <2>4
  <2> QED
    BY <1>3, <2>2, <2>3, <2>5 DEF Decided
<1>9. \A c \in imported'[n] \ {best'[n]} : Heavier(n, best[n], c)'
  <2> SUFFICES ASSUME NEW c \in imported'[n], c # best'[n]
               PROVE  Heavier(n, best[n], c)'
    OBVIOUS
  <2>1. CASE ~importing[n][i].wins
    <3>1. best'[n] = best[n]
      BY <1>3, <2>1
    <3>2. CASE c = b
      BY <1>3, <1>4, <1>5, <1>6, <2>1, <3>1, <3>2 DEF Heavier
    <3>3. CASE c # b
      BY <1>3, <1>4, <1>6, <1>7, <3>1, <3>3 DEF Heavier
    <3> QED
      BY <3>2, <3>3
  <2>2. CASE importing[n][i].wins
    <3>1. best'[n] = b /\ c \in imported[n]
      BY <1>3, <2>2
    <3>2. CASE c = best[n]
      BY <1>3, <1>4, <1>5, <1>6, <2>2, <3>1, <3>2 DEF Heavier
    <3>3. CASE c # best[n]
      <4>1. Heavier(n, best[n], c)
        BY <1>7, <3>1, <3>3
      <4>2. /\ total[n][best[n]] \in Int /\ total[n][c] \in Int /\ TotalAt(n, b) \in Int
            /\ total'[n][b] = TotalAt(n, b) /\ total'[n][c] = total[n][c]
        BY <1>3, <1>4, <1>6, <3>1 DEF U256
      <4>3. best[n] # Genesis /\ c # Genesis =>
               /\ Blake2(SealOf(best[n])) \in Int /\ Blake2(SealOf(c)) \in Int
               /\ Blake2(SealOf(b)) \in Int
        BY <1>3, <1>4, <1>6, <3>1, SealHashInRange DEF Sealed
      <4> QED
        BY <1>4, <1>5, <2>2, <3>1, <4>1, <4>2, <4>3 DEF Heavier, BreakTie
    <3> QED
      BY <3>2, <3>3
  <2> QED
    BY <2>1, <2>2
<1>10. BestIsHeaviest'
  <2> SUFFICES ASSUME NEW m \in Node
               PROVE  \A c \in imported'[m] \ {best'[m]} : Heavier(m, best[m], c)'
    BY DEF BestIsHeaviest
  <2>1. CASE m = n
    BY <1>9, <2>1
  <2>2. CASE m # n
    BY <1>3, <2>2 DEF BestIsHeaviest, Heavier
  <2> QED
    BY <2>1, <2>2
<1> QED
  BY <1>8, <1>10

LEMMA SerialInit == Init => Decided /\ BestIsHeaviest
BY DEF Init, Decided, Pending, BestIsHeaviest

LEMMA SerialNext ==
    ASSUME OneImporter
    PROVE  SerialInv /\ [Next]_forkVars => Decided' /\ BestIsHeaviest'
<1> SUFFICES ASSUME SerialInv, [Next]_forkVars PROVE Decided' /\ BestIsHeaviest'
  OBVIOUS
<1>1. ASSUME NEW n \in Node, NEW i \in Importer, CommitImport(n, i)
      PROVE  Decided' /\ BestIsHeaviest'
  BY <1>1, SerialCommit
<1>2. ASSUME NEW n \in Node, NEW i \in Importer, NEW b \in Sealed, BeginImport(n, i, b)
      PROVE  Decided' /\ BestIsHeaviest'
  BY <1>2, SerialBegin
<1>3. CASE UNCHANGED forkVars
  BY <1>3 DEF forkVars, SerialInv, Decided, Pending, Wins, TotalAt, BestIsHeaviest, Heavier
<1> QED
  BY <1>1, <1>2, <1>3 DEF Next

LEMMA SerialInvariance ==
    ASSUME OneImporter
    PROVE  Spec => []SerialInv
<1>1. Init => SerialInv
  BY InitInv, SerialInit DEF SerialInv
<1>2. SerialInv /\ [Next]_forkVars => SerialInv'
  <2> SUFFICES ASSUME SerialInv, [Next]_forkVars PROVE SerialInv'
    OBVIOUS
  <2>1. IInv'
    BY NextInv DEF SerialInv
  <2>2. Decided' /\ BestIsHeaviest'
    BY SerialNext
  <2> QED
    BY <2>1, <2>2 DEF SerialInv
<1> QED
  BY <1>1, <1>2, PTL DEF Spec

(* If a node imports one block at a time, comparing each block with the best *)
(* one is enough: whatever the order of arrival, the best block is heavier   *)
(* than every other.                                                         *)
THEOREM ChoiceIsMaximal ==
    ASSUME OneImporter
    PROVE  Spec => []BestIsHeaviest
<1>1. SerialInv => BestIsHeaviest
  BY DEF SerialInv
<1> QED
  BY <1>1, SerialInvariance, PTL

(* Ties are then broken as the proof-of-work algorithm says, by the lowest   *)
(* hash of a seal; the race of two importers is what breaks it.              *)
THEOREM TiesGoToTheLowestHash ==
    ASSUME OneImporter
    PROVE  Spec => []TiesAreBroken
<1>1. SerialInv => TiesAreBroken
  <2> SUFFICES ASSUME SerialInv, NEW n \in Node, NEW b \in imported[n] \ {Genesis},
                      total[n][b] = total[n][best[n]],
                      BreakTie(SealOf(best[n]), SealOf(b))
               PROVE  FALSE
    BY DEF TiesAreBroken
  <2> DEFINE o == best[n]
  <2>1. b \in Sealed /\ o \in Block /\ total[n][b] \in Int
    BY DEF SerialInv, IInv, ForkTypeOK, Sealed, U256
  <2>2. Blake2(SealOf(b)) \in Int
    BY <2>1, SealHashInRange
  <2>3. CASE o = b
    BY <2>2, <2>3 DEF BreakTie
  <2>4. CASE o # b
    <3>1. Heavier(n, o, b)
      BY <2>4 DEF SerialInv, BestIsHeaviest
    <3>2. o # Genesis /\ BreakTie(SealOf(b), SealOf(o))
      BY <2>1, <3>1 DEF Heavier
    <3>3. Blake2(SealOf(o)) \in Int
      BY <2>1, <3>2, SealHashInRange DEF Sealed
    <3> QED
      BY <2>2, <3>2, <3>3 DEF BreakTie
  <2> QED
    BY <2>3, <2>4
<1> QED
  BY <1>1, SerialInvariance, PTL

(* So nodes that have imported the same blocks agree, in whatever order they *)
(* received them.                                                            *)
THEOREM NodesAgree ==
    ASSUME OneImporter
    PROVE  Spec => []SameBlocksSameBest
<1>1. SerialInv => SameBlocksSameBest
  <2> SUFFICES ASSUME SerialInv, NEW m \in Node, NEW n \in Node, imported[m] = imported[n],
                      best[m] # best[n]
               PROVE  FALSE
    BY DEF SameBlocksSameBest
  <2> DEFINE a == best[m]
             z == best[n]
  <2>1. a \in imported[n] /\ z \in imported[n]
    BY DEF SerialInv, IInv, Ancestry
  <2>2. Heavier(m, a, z) /\ Heavier(n, z, a)
    BY <2>1 DEF SerialInv, BestIsHeaviest
  <2>3. /\ a \in Block /\ z \in Block /\ total[n][a] \in Int /\ total[n][z] \in Int
        /\ total[m][a] = total[n][a] /\ total[m][z] = total[n][z]
    BY <2>1 DEF SerialInv, IInv, ForkTypeOK, TotalsAgree, U256
  <2>4. a # Genesis /\ z # Genesis => Blake2(SealOf(a)) \in Int /\ Blake2(SealOf(z)) \in Int
    BY <2>3, SealHashInRange DEF Sealed
  <2> HIDE DEF a, z
  <2> QED
    BY <2>2, <2>3, <2>4 DEF Heavier, BreakTie
<1> QED
  BY <1>1, SerialInvariance, PTL

=============================================================================
