--------------------------- MODULE UtxoChainProofs ---------------------------
(***************************************************************************)
(* What holds of UtxoChain for every genesis, every set of transactions    *)
(* and every issuance, proved with TLAPS.                                  *)
(***************************************************************************)
EXTENDS UtxoChain, DataLemmas

(* Every outpoint that is or was in the store comes from genesis, from the   *)
(* reward of a finalized block or from a dispatched transaction.             *)
Provenance ==
    DOMAIN utxoStore \cup Spent
        \subseteq GenesisKeys \cup (UNION {RewardKeys(n) : n \in Finalized}) \cup MadeBy(log)

LogHasInputs == \A i \in DOMAIN log : Outpoints(log[i]) # {}

(* Every output that was ever made is unspent or spent.                      *)
Accounted == MadeBy(log) \subseteq DOMAIN utxoStore \cup Spent

(* The inductive invariant.                                                  *)
IInv ==
    TypeOK /\ Provenance /\ Accounted /\ LogHasInputs /\ SpentStaysSpent /\ NoDoubleSpend

-----------------------------------------------------------------------------
(* The transactions of a longer log.                                         *)
LEMMA AppendLog ==
    ASSUME NEW txs \in Seq(Transactions), NEW tx \in Transactions
    PROVE  /\ Append(txs, tx) \in Seq(Transactions)
           /\ SpentBy(Append(txs, tx)) = SpentBy(txs) \cup Outpoints(tx)
           /\ MadeBy(Append(txs, tx)) = MadeBy(txs) \cup OutputKeys(tx)
<1> DEFINE longer == Append(txs, tx)
<1>1. /\ longer \in Seq(Transactions)
      /\ DOMAIN longer = DOMAIN txs \cup {Len(txs) + 1}
      /\ longer[Len(txs) + 1] = tx
      /\ \A i \in DOMAIN txs : longer[i] = txs[i]
  OBVIOUS
<1> HIDE DEF longer
<1>2. SpentBy(longer) = SpentBy(txs) \cup Outpoints(tx)
  BY <1>1 DEF SpentBy
<1>3. MadeBy(longer) = MadeBy(txs) \cup OutputKeys(tx)
  BY <1>1 DEF MadeBy
<1> QED
  BY <1>1, <1>2, <1>3 DEF longer

(* What dispatch knows of a transaction it is about to apply.                *)
LEMMA ReadyInputs ==
    ASSUME NEW tx \in Transactions, ValidateTransaction(tx), Missing(tx) = {}
    PROVE  /\ Outpoints(tx) # {}
           /\ Outpoints(tx) \subseteq DOMAIN utxoStore
           /\ OutputKeys(tx) # {}
           /\ OutputKeys(tx) \cap DOMAIN utxoStore = {}
<1>1. tx.inputs \in Seq(TransactionInput) /\ tx.outputs \in Seq(TransactionOutput)
  BY DataAssumption DEF Transaction
<1>2. tx.inputs # <<>> /\ tx.outputs # <<>>
  BY DEF ValidateTransaction
<1>3. 1 \in DOMAIN tx.inputs /\ 1 \in DOMAIN tx.outputs
  BY <1>1, <1>2
<1> QED
  BY <1>3 DEF Outpoints, OutputKeys, Missing, ValidateTransaction

(* A transaction with an output that is or was in the store was dispatched:  *)
(* no other transaction, no reward and no genesis makes its keys.            *)
LEMMA KnownOutputs ==
    ASSUME IInv, NEW tx \in Transactions, OutputKeys(tx) \cap (DOMAIN utxoStore \cup Spent) # {}
    PROVE  Outpoints(tx) # {} /\ Outpoints(tx) \subseteq Spent
<1> PICK i \in DOMAIN tx.outputs : OutputKey(tx, i) \in DOMAIN utxoStore \cup Spent
  BY DEF OutputKeys
<1>1. OutputKey(tx, i) \in OutputKeys(tx)
  BY DEF OutputKeys
<1>2. OutputKey(tx, i) \notin GenesisKeys
  BY <1>1, CollisionFree
<1>3. ASSUME NEW n \in Finalized PROVE OutputKey(tx, i) \notin RewardKeys(n)
  <2>1. n \in BlockNumber
    BY SizeAssumption DEF IInv, TypeOK, Finalized, BlockNumber
  <2> QED
    BY <1>1, <2>1, CollisionFree
<1>4. OutputKey(tx, i) \in MadeBy(log)
  BY <1>2, <1>3 DEF IInv, Provenance
<1>5. PICK k \in DOMAIN log : OutputKey(tx, i) \in OutputKeys(log[k])
  BY <1>4 DEF MadeBy
<1>6. log[k] \in Transactions
  BY <1>5 DEF IInv, TypeOK
<1>7. tx = log[k]
  BY <1>5, <1>6, CollisionFree DEF OutputKeys
<1>8. Outpoints(tx) \subseteq Spent
  BY <1>7 DEF Spent, SpentBy
<1> QED
  BY <1>5, <1>7, <1>8 DEF IInv, LogHasInputs

(* The outputs of a transaction that dispatch applies have keys that never   *)
(* were in the store: the store lookup of validate_transaction sees only the *)
(* present, so this needs the whole history.                                 *)
LEMMA FreshOutputs ==
    ASSUME IInv, NEW tx \in Transactions, ValidateTransaction(tx), Missing(tx) = {}
    PROVE  OutputKeys(tx) \cap (DOMAIN utxoStore \cup Spent) = {}
BY KnownOutputs, ReadyInputs DEF IInv, SpentStaysSpent

(* The outpoint a block pays its author with never was in the store.         *)
LEMMA FreshReward ==
    ASSUME IInv, phase = "open", NEW key \in Key
    PROVE  /\ number \in BlockNumber
           /\ RewardOutput(key, number) \in TransactionOutput
           /\ RewardOutpoint(key, number) \in RewardKeys(number)
           /\ RewardOutpoint(key, number) \notin DOMAIN utxoStore \cup Spent
<1>1. number \in BlockNumber
  BY SizeAssumption DEF IInv, TypeOK, BlockNumber
<1>2. Payout(number) \in Value
  <2>1. rewardTotal + Issuance(number) \in Nat /\ MaxValue + 1 \in Nat \ {0}
    BY <1>1, SizeAssumption, DataAssumption DEF IInv, TypeOK, UtxoTypeOK, Value
  <2> QED
    BY <2>1, SizeAssumption DEF Payout, Value
<1>3. key \in Pubkey
  BY AuthorAssumption
<1>4. RewardOutput(key, number) \in TransactionOutput
  BY <1>2, <1>3 DEF RewardOutput, TransactionOutput
<1>5. RewardOutpoint(key, number) \in RewardKeys(number)
  BY <1>2, <1>3 DEF RewardOutpoint, RewardOutput, RewardKeys
<1>6. RewardOutpoint(key, number) \notin GenesisKeys
  BY <1>1, <1>5, CollisionFree
<1>7. ASSUME NEW n \in Finalized PROVE RewardOutpoint(key, number) \notin RewardKeys(n)
  <2>1. n \in BlockNumber /\ n # number
    BY SizeAssumption DEF IInv, TypeOK, Finalized, BlockNumber
  <2> QED
    BY <1>1, <1>5, <2>1, CollisionFree
<1>8. RewardOutpoint(key, number) \notin MadeBy(log)
  <2>1. ASSUME NEW k \in DOMAIN log PROVE RewardOutpoint(key, number) \notin OutputKeys(log[k])
    <3>1. log[k] \in Transactions
      BY DEF IInv, TypeOK
    <3> QED
      BY <1>1, <1>5, <3>1, CollisionFree
  <2> QED
    BY <2>1 DEF MadeBy
<1> QED
  BY <1>1, <1>4, <1>5, <1>6, <1>7, <1>8 DEF IInv, Provenance

-----------------------------------------------------------------------------
(* The store after update_storage.                                           *)
LEMMA SpendEffect ==
    ASSUME NEW tx \in Transactions, UtxoTypeOK, UpdateStorage(tx, Priority(tx))
    PROVE  /\ UtxoTypeOK'
           /\ DOMAIN utxoStore' = (DOMAIN utxoStore \ Outpoints(tx)) \cup OutputKeys(tx)
           /\ \A op \in DOMAIN utxoStore' \ OutputKeys(tx) : utxoStore'[op] = utxoStore[op]
<1>1. ASSUME NEW op \in OutputKeys(tx) PROVE NewOutput(tx, op) \in TransactionOutput
  <2>1. tx.outputs \in Seq(TransactionOutput)
    BY DataAssumption DEF Transaction
  <2>2. \E i \in DOMAIN tx.outputs : OutputKey(tx, i) = op
    BY DEF OutputKeys
  <2> QED
    BY <2>1, <2>2 DEF NewOutput
<1>2. OutputKeys(tx) \subseteq H256
  BY HashesAreOutpoints
<1> QED
  BY <1>1, <1>2 DEF UtxoTypeOK, UpdateStorage

(* One lemma for each action: it preserves the inductive invariant.          *)
LEMMA SpendStep ==
    ASSUME IInv, NEW tx \in Transactions, ApplySpend(tx)
    PROVE  IInv'
<1>1. /\ ValidateTransaction(tx) /\ Missing(tx) = {} /\ UpdateStorage(tx, Priority(tx))
      /\ log' = Append(log, tx)
      /\ UNCHANGED <<author, number, phase, authorSetAt>>
  BY DEF ApplySpend, Spend
<1>2. /\ UtxoTypeOK'
      /\ DOMAIN utxoStore' = (DOMAIN utxoStore \ Outpoints(tx)) \cup OutputKeys(tx)
  BY <1>1, SpendEffect DEF IInv, TypeOK
<1>3. /\ log' \in Seq(Transactions)
      /\ Spent' = Spent \cup Outpoints(tx)
      /\ MadeBy(log') = MadeBy(log) \cup OutputKeys(tx)
  BY <1>1, AppendLog DEF IInv, TypeOK, Spent
<1>4. /\ Outpoints(tx) # {} /\ Outpoints(tx) \subseteq DOMAIN utxoStore
      /\ OutputKeys(tx) \cap (DOMAIN utxoStore \cup Spent) = {}
  BY <1>1, ReadyInputs, FreshOutputs
<1>5. log \in Seq(Transactions)
  BY DEF IInv, TypeOK
<1>6. /\ DOMAIN log' = DOMAIN log \cup {Len(log) + 1}
      /\ Len(log) + 1 \notin DOMAIN log
      /\ log'[Len(log) + 1] = tx
      /\ \A i \in DOMAIN log : log'[i] = log[i]
  BY <1>1, <1>5
<1>7. TypeOK'
  BY <1>1, <1>2, <1>3 DEF IInv, TypeOK, AuthorTypeOK
<1>8. Provenance' /\ Accounted'
  BY <1>1, <1>2, <1>3, <1>4 DEF IInv, Provenance, Accounted, Finalized
<1>9. LogHasInputs'
  BY <1>4, <1>6 DEF IInv, LogHasInputs
<1>10. SpentStaysSpent'
  BY <1>2, <1>3, <1>4 DEF IInv, SpentStaysSpent
<1>11. NoDoubleSpend'
  <2>1. \A i \in DOMAIN log : Outpoints(log[i]) \cap Outpoints(tx) = {}
    BY <1>4 DEF IInv, SpentStaysSpent, Spent, SpentBy
  <2> QED
    BY <1>6, <2>1 DEF IInv, NoDoubleSpend
<1> QED
  BY <1>7, <1>8, <1>9, <1>10, <1>11 DEF IInv

(* The store after on_finalize.                                              *)
LEMMA FinalizeEffect ==
    ASSUME IInv, FinalizeBlock
    PROVE  /\ UtxoTypeOK'
           /\ \/ utxoStore' = utxoStore
              \/ \E op \in RewardKeys(number) :
                    /\ op \notin DOMAIN utxoStore \cup Spent
                    /\ DOMAIN utxoStore' = DOMAIN utxoStore \cup {op}
           /\ \A op \in DOMAIN utxoStore : utxoStore'[op] = utxoStore[op]
<1>1. CASE author = NoKey
  BY <1>1 DEF FinalizeBlock, BlockAuthorOf, WasteReward, IInv, TypeOK, UtxoTypeOK
<1>2. CASE author # NoKey
  <2>1. author \in Key /\ phase = "open" /\ DisperseReward(author, number)
    BY <1>2 DEF FinalizeBlock, BlockAuthorOf, IInv, TypeOK, AuthorTypeOK
  <2> DEFINE op == RewardOutpoint(author, number)
  <2>2. /\ number \in BlockNumber
        /\ RewardOutput(author, number) \in TransactionOutput
        /\ op \in RewardKeys(number)
        /\ op \notin DOMAIN utxoStore \cup Spent
    BY <2>1, FreshReward
  <2>3. op \in H256
    BY <2>2, HashesAreOutpoints
  <2>4. /\ DOMAIN utxoStore' = DOMAIN utxoStore \cup {op}
        /\ utxoStore'[op] = RewardOutput(author, number)
        /\ \A other \in DOMAIN utxoStore : utxoStore'[other] = utxoStore[other]
        /\ rewardTotal' = 0
    BY <2>1, <2>2 DEF DisperseReward
  <2>5. 0 \in Value
    BY SizeAssumption DEF Value
  <2>6. UtxoTypeOK'
    BY <2>2, <2>3, <2>4, <2>5 DEF IInv, TypeOK, UtxoTypeOK
  <2> QED
    BY <2>2, <2>4, <2>6
<1> QED
  BY <1>1, <1>2

LEMMA FinalizeStep ==
    ASSUME IInv, FinalizeBlock
    PROVE  IInv'
<1>1. /\ phase = "open" /\ phase' = "idle"
      /\ UNCHANGED <<author, number, log, authorSetAt>>
  BY DEF FinalizeBlock
<1>2. Spent' = Spent /\ MadeBy(log') = MadeBy(log)
  BY <1>1 DEF Spent
<1>3. TypeOK'
  BY <1>1, FinalizeEffect DEF IInv, TypeOK, AuthorTypeOK
<1>4. number \in Finalized' /\ Finalized \subseteq Finalized'
  BY <1>1, SizeAssumption DEF IInv, TypeOK, Finalized
<1>5. Provenance' /\ Accounted'
  BY <1>2, <1>4, FinalizeEffect DEF IInv, Provenance, Accounted
<1>6. SpentStaysSpent'
  BY <1>2, FinalizeEffect DEF IInv, SpentStaysSpent
<1>7. LogHasInputs' /\ NoDoubleSpend'
  BY <1>1 DEF IInv, LogHasInputs, NoDoubleSpend
<1> QED
  BY <1>3, <1>5, <1>6, <1>7 DEF IInv

LEMMA InitializeStep ==
    ASSUME IInv, InitializeBlock
    PROVE  IInv'
<1>1. /\ phase = "idle" /\ phase' = "open" /\ number < MaxBlock /\ number' = number + 1
      /\ author' = NoKey
      /\ UNCHANGED <<utxoStore, rewardTotal, log, authorSetAt>>
  BY DEF InitializeBlock, ResetAuthor
<1>2. TypeOK'
  BY <1>1, SizeAssumption DEF IInv, TypeOK, AuthorTypeOK, UtxoTypeOK
<1>3. Finalized' = Finalized
  BY <1>1, SizeAssumption DEF IInv, TypeOK, Finalized
<1>4. Provenance' /\ Accounted'
  BY <1>1, <1>3 DEF IInv, Provenance, Accounted, Spent
<1> QED
  BY <1>1, <1>2, <1>4 DEF IInv, LogHasInputs, SpentStaysSpent, Spent, NoDoubleSpend

LEMMA SetAuthorStep ==
    ASSUME IInv, NEW origin \in Origin, NEW key \in InherentAuthors, ApplySetAuthor(origin, key)
    PROVE  IInv'
<1>1. /\ author' = key /\ authorSetAt' = number
      /\ UNCHANGED <<utxoStore, rewardTotal, number, phase, log>>
  BY DEF ApplySetAuthor, SetAuthor
<1>2. key \in Key
  BY AuthorAssumption
<1>3. TypeOK'
  BY <1>1, <1>2 DEF IInv, TypeOK, AuthorTypeOK, UtxoTypeOK
<1> QED
  BY <1>1, <1>3 DEF IInv, Provenance, Accounted, Finalized, LogHasInputs, SpentStaysSpent, Spent,
                   NoDoubleSpend

(* The genesis state has it.                                                 *)
LEMMA InitInv == Init => IInv
<1> SUFFICES ASSUME Init PROVE IInv
  OBVIOUS
<1>1. /\ log = <<>> /\ number = 0 /\ phase = "idle" /\ authorSetAt = 0 /\ author = NoKey
      /\ rewardTotal = 0 /\ DOMAIN utxoStore = GenesisKeys
  BY DEF Init, AuthorInit, UtxoInit
<1>2. ASSUME NEW op \in GenesisKeys PROVE utxoStore[op] \in TransactionOutput
  <2>1. utxoStore[op] = CHOOSE out \in GenesisUtxos : HashGenesis(out) = op
    BY DEF Init, UtxoInit
  <2>2. \E out \in GenesisUtxos : HashGenesis(out) = op
    BY DEF GenesisKeys
  <2> QED
    BY <2>1, <2>2, DataAssumption
<1>3. 0 \in Value
  BY SizeAssumption DEF Value
<1>4. TypeOK
  BY <1>1, <1>2, <1>3, HashesAreOutpoints, SizeAssumption DEF TypeOK, AuthorTypeOK, UtxoTypeOK
<1>5. Spent = {} /\ MadeBy(log) = {} /\ DOMAIN log = {}
  BY <1>1 DEF Spent, SpentBy, MadeBy
<1> QED
  BY <1>1, <1>4, <1>5 DEF IInv, Provenance, Accounted, LogHasInputs, SpentStaysSpent,
                           NoDoubleSpend

LEMMA NextInv == IInv /\ [Next]_chainVars => IInv'
<1> SUFFICES ASSUME IInv, [Next]_chainVars PROVE IInv'
  OBVIOUS
<1>1. CASE InitializeBlock
  BY <1>1, InitializeStep
<1>2. ASSUME NEW origin \in Origin, NEW key \in InherentAuthors, ApplySetAuthor(origin, key)
      PROVE  IInv'
  BY <1>2, SetAuthorStep
<1>3. ASSUME NEW tx \in Transactions, ApplySpend(tx) PROVE IInv'
  BY <1>3, SpendStep
<1>4. CASE FinalizeBlock
  BY <1>4, FinalizeStep
<1>5. CASE UNCHANGED chainVars
  BY <1>5 DEF chainVars, IInv, TypeOK, AuthorTypeOK, UtxoTypeOK, Provenance, Accounted,
              Finalized, LogHasInputs, SpentStaysSpent, Spent, NoDoubleSpend
<1> QED
  BY <1>1, <1>2, <1>3, <1>4, <1>5 DEF Next

LEMMA Invariance == Spec => []IInv
BY InitInv, NextInv, PTL DEF Spec

-----------------------------------------------------------------------------
(* The pallets' storage keeps its types: an author or none, outpoints with   *)
(* outputs, a pot within the range of a Value.                               *)
THEOREM TypeCorrect == Spec => []TypeOK
<1>1. IInv => TypeOK
  BY DEF IInv
<1> QED
  BY <1>1, Invariance, PTL

(* No outpoint is consumed twice over the history of the chain.              *)
THEOREM NeverSpentTwice == Spec => []NoDoubleSpend
<1>1. IInv => NoDoubleSpend
  BY DEF IInv
<1> QED
  BY <1>1, Invariance, PTL

(* A consumed outpoint never comes back.                                     *)
THEOREM NeverRevived == Spec => []SpentStaysSpent
<1>1. IInv => SpentStaysSpent
  BY DEF IInv
<1> QED
  BY <1>1, Invariance, PTL

-----------------------------------------------------------------------------
(* What every step of the chain does to the store.                           *)
LEMMA StoreStep ==
    ASSUME IInv, [Next]_chainVars
    PROVE  /\ \A op \in DOMAIN utxoStore : op \in DOMAIN utxoStore' => utxoStore'[op] = utxoStore[op]
           /\ DOMAIN utxoStore \subseteq DOMAIN utxoStore' \cup Spent'
           /\ \/ DOMAIN utxoStore' = DOMAIN utxoStore
              \/ \E n \in BlockNumber : \E op \in RewardKeys(n) :
                    DOMAIN utxoStore' = DOMAIN utxoStore \cup {op}
              \/ \E tx \in Transactions :
                    /\ Outpoints(tx) # {} /\ Outpoints(tx) \subseteq DOMAIN utxoStore
                    /\ OutputKeys(tx) \cap DOMAIN utxoStore = {}
                    /\ DOMAIN utxoStore' = (DOMAIN utxoStore \ Outpoints(tx)) \cup OutputKeys(tx)
<1>1. CASE utxoStore' = utxoStore
  BY <1>1
<1>2. ASSUME NEW tx \in Transactions, ApplySpend(tx)
      PROVE  /\ \A op \in DOMAIN utxoStore' \ OutputKeys(tx) : utxoStore'[op] = utxoStore[op]
             /\ Outpoints(tx) # {} /\ Outpoints(tx) \subseteq DOMAIN utxoStore
             /\ OutputKeys(tx) \cap DOMAIN utxoStore = {}
             /\ DOMAIN utxoStore' = (DOMAIN utxoStore \ Outpoints(tx)) \cup OutputKeys(tx)
             /\ Spent' = Spent \cup Outpoints(tx)
  <2>1. /\ ValidateTransaction(tx) /\ Missing(tx) = {} /\ UpdateStorage(tx, Priority(tx))
        /\ log' = Append(log, tx)
    BY <1>2 DEF ApplySpend, Spend
  <2> QED
    BY <2>1, ReadyInputs, SpendEffect, AppendLog DEF IInv, TypeOK, Spent
<1>3. ASSUME FinalizeBlock PROVE number \in BlockNumber
  BY <1>3, SizeAssumption DEF FinalizeBlock, IInv, TypeOK, BlockNumber
<1>4. CASE FinalizeBlock
  BY <1>3, <1>4, FinalizeEffect
<1>5. CASE InitializeBlock
  BY <1>1, <1>5 DEF InitializeBlock
<1>6. CASE \E origin \in Origin, key \in InherentAuthors : ApplySetAuthor(origin, key)
  BY <1>1, <1>6 DEF ApplySetAuthor
<1>7. CASE \E tx \in Transactions : ApplySpend(tx)
  BY <1>2, <1>7
<1> QED
  BY <1>1, <1>4, <1>5, <1>6, <1>7 DEF Next, chainVars

(* No insertion ever replaces an output, whatever the transactions.          *)
THEOREM NeverOverwritten == Spec => OutputsImmutable
<1>1. IInv /\ [Next]_chainVars =>
        [\A op \in DOMAIN utxoStore : op \in DOMAIN utxoStore' =>
            utxoStore'[op] = utxoStore[op]]_chainVars
  BY StoreStep
<1> QED
  BY <1>1, Invariance, PTL DEF Spec, OutputsImmutable

(* No step loses an output.                                                  *)
THEOREM NeverLost == Spec => NothingVanishes
<1>1. IInv /\ [Next]_chainVars =>
        [DOMAIN utxoStore \cup MadeBy(log') \subseteq DOMAIN utxoStore' \cup Spent']_chainVars
  BY StoreStep, NextInv DEF IInv, Accounted
<1> QED
  BY <1>1, Invariance, PTL DEF Spec, NothingVanishes

(* A block only ever pays the author it named itself.                        *)
THEOREM PaysItsOwnAuthor == Spec => []AuthorIsCurrent
<1>1. Init => AuthorIsCurrent
  BY DEF Init, AuthorIsCurrent
<1>2. AuthorIsCurrent /\ [Next]_chainVars => AuthorIsCurrent'
  BY DEF AuthorIsCurrent, Next, chainVars, InitializeBlock, ResetAuthor, ApplySetAuthor,
         SetAuthor, ApplySpend, FinalizeBlock
<1> QED
  BY <1>1, <1>2, PTL DEF Spec

-----------------------------------------------------------------------------
(* Validation reads the store only at the transaction's own inputs and       *)
(* outputs.                                                                  *)
LEMMA StableStep ==
    ASSUME IInv, [Next]_chainVars, NEW tx \in Transactions,
           Ready(tx), Outpoints(tx) \subseteq DOMAIN utxoStore'
    PROVE  Ready(tx)' /\ Priority(tx)' = Priority(tx)
<1>1. /\ ValidateTransaction(tx) /\ Missing(tx) = {}
      /\ Outpoints(tx) # {} /\ Outpoints(tx) \subseteq DOMAIN utxoStore
      /\ OutputKeys(tx) \cap DOMAIN utxoStore = {}
  BY ReadyInputs DEF Ready
<1>2. \A i \in DOMAIN tx.inputs :
        /\ tx.inputs[i].outpoint \in DOMAIN utxoStore
        /\ tx.inputs[i].outpoint \in DOMAIN utxoStore'
        /\ utxoStore'[tx.inputs[i].outpoint] = utxoStore[tx.inputs[i].outpoint]
  BY <1>1, StoreStep DEF Outpoints
<1>3. Missing(tx)' = {}
  BY DEF Missing
<1>4. Found(tx) = DOMAIN tx.inputs /\ Found(tx)' = Found(tx)
  BY <1>2 DEF Found
<1>5. TotalInput(tx)' = TotalInput(tx)
  <2>1. [i \in Found(tx)' |-> utxoStore'[tx.inputs[i].outpoint].value]
          = [i \in Found(tx) |-> utxoStore[tx.inputs[i].outpoint].value]
    BY <1>2, <1>4
  <2> QED
    BY <2>1 DEF TotalInput
<1>6. SignaturesValid(tx)'
  BY <1>1, <1>2, <1>4 DEF ValidateTransaction, SignaturesValid
<1>7. OutputKeys(tx) \cap DOMAIN utxoStore' = {}
  <2>1. CASE DOMAIN utxoStore' = DOMAIN utxoStore
    BY <1>1, <2>1
  <2>2. ASSUME NEW n \in BlockNumber, NEW op \in RewardKeys(n),
               DOMAIN utxoStore' = DOMAIN utxoStore \cup {op}
        PROVE  OutputKeys(tx) \cap DOMAIN utxoStore' = {}
    BY <1>1, <2>2, CollisionFree
  <2>3. ASSUME NEW other \in Transactions,
               Outpoints(other) # {}, Outpoints(other) \subseteq DOMAIN utxoStore,
               OutputKeys(other) \cap DOMAIN utxoStore = {},
               DOMAIN utxoStore' = (DOMAIN utxoStore \ Outpoints(other)) \cup OutputKeys(other)
        PROVE  OutputKeys(tx) \cap DOMAIN utxoStore' = {}
    <3>1. other # tx
      BY <1>1, <2>3
    <3>2. OutputKeys(tx) \cap OutputKeys(other) = {}
      BY <3>1, CollisionFree DEF OutputKeys
    <3> QED
      BY <1>1, <2>3, <3>2
  <2> QED
    BY <2>1, <2>2, <2>3, StoreStep
<1>8. TotalOutput(tx)' = TotalOutput(tx)
  BY DEF TotalOutput
<1>9. ValidateTransaction(tx)'
  BY <1>1, <1>3, <1>5, <1>6, <1>7, <1>8 DEF ValidateTransaction
<1>10. Priority(tx)' = Priority(tx)
  BY <1>1, <1>3, <1>5, <1>8 DEF Priority, Fee
<1> QED
  BY <1>3, <1>9, <1>10 DEF Ready

(* A validated transaction stays valid, and worth the same, while its inputs *)
(* are unspent: the pool need not validate it again.                         *)
THEOREM ValidityLasts == Spec => ValidityIsStable
<1>1. IInv /\ [Next]_chainVars =>
        [\A tx \in Transactions :
            Ready(tx) /\ Outpoints(tx) \subseteq DOMAIN utxoStore' =>
                Ready(tx)' /\ Priority(tx)' = Priority(tx)]_chainVars
  BY StableStep
<1> QED
  BY <1>1, Invariance, PTL DEF Spec, ValidityIsStable

-----------------------------------------------------------------------------
(* The converse: what validation refuses is refused for good.  A transaction *)
(* is doomed once an input is spent or it is invalid; more blocks bring its  *)
(* missing inputs, never the repair of what was wrong.                       *)
Doomed(tx) == Outpoints(tx) \cap Spent # {} \/ ~ValidateTransaction(tx)

(* A transaction is finite, and its sums are naturals.                       *)
LEMMA TransactionFinite ==
    ASSUME NEW tx \in Transactions
    PROVE  /\ tx.inputs \in Seq(TransactionInput) /\ tx.outputs \in Seq(TransactionOutput)
           /\ IsFiniteSet(DOMAIN tx.inputs) /\ IsFiniteSet(DOMAIN tx.outputs)
           /\ IsFiniteSet(Outpoints(tx)) /\ IsFiniteSet(OutputKeys(tx))
           /\ \A i \in DOMAIN tx.outputs : tx.outputs[i].value \in Nat
<1>1. tx.inputs \in Seq(TransactionInput) /\ tx.outputs \in Seq(TransactionOutput)
  BY DataAssumption DEF Transaction
<1>2. IsFiniteSet(DOMAIN tx.inputs) /\ IsFiniteSet(DOMAIN tx.outputs)
  BY <1>1, FS_Interval
<1>3. IsFiniteSet(Outpoints(tx))
  <2> DEFINE b == [i \in DOMAIN tx.inputs |-> tx.inputs[i].outpoint]
  <2>1. Outpoints(tx) = {b[i] : i \in DOMAIN tx.inputs}
    BY DEF Outpoints
  <2> HIDE DEF b
  <2> QED
    BY <1>2, <2>1, ImageFinite
<1>4. IsFiniteSet(OutputKeys(tx))
  <2> DEFINE b == [i \in DOMAIN tx.outputs |-> OutputKey(tx, i)]
  <2>1. OutputKeys(tx) = {b[i] : i \in DOMAIN tx.outputs}
    BY DEF OutputKeys
  <2> HIDE DEF b
  <2> QED
    BY <1>2, <2>1, ImageFinite
<1>5. ASSUME NEW i \in DOMAIN tx.outputs PROVE tx.outputs[i].value \in Nat
  <2>1. tx.outputs[i] \in TransactionOutput
    BY <1>1
  <2> QED
    BY <2>1, SizeAssumption DEF TransactionOutput, Value
<1> QED
  BY <1>1, <1>2, <1>3, <1>4, <1>5

LEMMA SumsOfTransaction ==
    ASSUME UtxoTypeOK, NEW tx \in Transactions
    PROVE  TotalOutput(tx) \in Nat /\ TotalInput(tx) \in Nat /\ IsFiniteSet(Found(tx))
<1>1. IsFiniteSet(Found(tx))
  BY TransactionFinite, FS_Subset DEF Found
<1> DEFINE in == [i \in Found(tx) |-> utxoStore[tx.inputs[i].outpoint].value]
           out == [i \in DOMAIN tx.outputs |-> tx.outputs[i].value]
<1>2. \A i \in Found(tx) : in[i] \in Nat
  BY SizeAssumption DEF Found, UtxoTypeOK, TransactionOutput, Value
<1>3. \A i \in DOMAIN tx.outputs : out[i] \in Nat
  BY TransactionFinite
<1>4. TotalInput(tx) = SumFunctionOnSet(in, Found(tx))
  BY DEF TotalInput, SumFunction
<1>5. TotalOutput(tx) = SumFunctionOnSet(out, DOMAIN tx.outputs)
  BY DEF TotalOutput, SumFunction
<1> HIDE DEF in, out
<1> QED
  BY <1>1, <1>2, <1>3, <1>4, <1>5, SumOfNaturals, TransactionFinite

LEMMA SpentGrows == ASSUME IInv, [Next]_chainVars PROVE Spent \subseteq Spent'
<1>1. CASE log' = log
  BY <1>1 DEF Spent
<1>2. ASSUME NEW tx \in Transactions, ApplySpend(tx) PROVE Spent \subseteq Spent'
  BY <1>2, AppendLog DEF ApplySpend, IInv, TypeOK, Spent
<1> QED
  BY <1>1, <1>2
     DEF Next, chainVars, InitializeBlock, ApplySetAuthor, FinalizeBlock

(* While no input is spent, the inputs that are found stay as they are.      *)
LEMMA FoundStay ==
    ASSUME IInv, [Next]_chainVars, NEW tx \in Transactions, Outpoints(tx) \cap Spent' = {}
    PROVE  /\ Found(tx) \subseteq Found(tx)'
           /\ \A i \in Found(tx) :
                utxoStore'[tx.inputs[i].outpoint] = utxoStore[tx.inputs[i].outpoint]
           /\ Missing(tx)' \subseteq Missing(tx)
           /\ TotalInput(tx) <= TotalInput(tx)'
           /\ Missing(tx) = {} => TotalInput(tx)' = TotalInput(tx)
           /\ TotalInput(tx) \in Nat
<1>1. \A op \in Outpoints(tx) \cap DOMAIN utxoStore :
        op \in DOMAIN utxoStore' /\ utxoStore'[op] = utxoStore[op]
  BY StoreStep
<1>2. \A i \in DOMAIN tx.inputs : tx.inputs[i].outpoint \in Outpoints(tx)
  BY DEF Outpoints
<1>3. /\ Found(tx) \subseteq Found(tx)'
      /\ \A i \in Found(tx) :
            utxoStore'[tx.inputs[i].outpoint] = utxoStore[tx.inputs[i].outpoint]
  BY <1>1, <1>2 DEF Found
<1>4. Missing(tx)' \subseteq Missing(tx)
  BY <1>1 DEF Missing
<1> DEFINE before == [i \in Found(tx) |-> utxoStore[tx.inputs[i].outpoint].value]
           after == [i \in Found(tx)' |-> utxoStore'[tx.inputs[i].outpoint].value]
<1>5. UtxoTypeOK /\ UtxoTypeOK'
  BY NextInv DEF IInv, TypeOK
<1>6. /\ \A i \in Found(tx) : before[i] \in Nat /\ before[i] \in Int /\ after[i] = before[i]
      /\ \A i \in Found(tx)' : after[i] \in Nat
  BY <1>3, <1>5, SizeAssumption DEF Found, UtxoTypeOK, TransactionOutput, Value
<1>7. TotalInput(tx) = SumFunctionOnSet(before, Found(tx))
  BY DEF TotalInput, SumFunction
<1>8. TotalInput(tx)' = SumFunctionOnSet(after, Found(tx)')
  BY DEF TotalInput, SumFunction
<1>9. IsFiniteSet(Found(tx)) /\ IsFiniteSet(Found(tx)')
  BY TransactionFinite, FS_Subset DEF Found
<1> HIDE DEF before, after
<1>10. SumFunctionOnSet(after, Found(tx)) = SumFunctionOnSet(before, Found(tx))
  BY <1>6, <1>9, SumAgrees
<1>11. SumFunctionOnSet(after, Found(tx)) <= SumFunctionOnSet(after, Found(tx)')
  BY <1>3, <1>6, <1>9, SumOverSubset
<1>12. Missing(tx) = {} => Found(tx)' = Found(tx)
  BY <1>2, <1>3 DEF Found, Missing
<1>13. TotalInput(tx) \in Nat
  BY <1>5, SumsOfTransaction
<1> QED
  BY <1>3, <1>4, <1>7, <1>8, <1>10, <1>11, <1>12, <1>13

LEMMA DoomStep ==
    ASSUME IInv, [Next]_chainVars, NEW tx \in Transactions, Doomed(tx)
    PROVE  Doomed(tx)'
<1> SUFFICES ASSUME Outpoints(tx) \cap Spent' = {}, ValidateTransaction(tx)'
             PROVE  Outpoints(tx) \cap Spent = {} /\ ValidateTransaction(tx)
  BY DEF Doomed
<1>1. Outpoints(tx) \cap Spent = {}
  BY SpentGrows
<1>2. OutputKeys(tx) \cap DOMAIN utxoStore = {}
  BY <1>1, KnownOutputs
<1>3. SignaturesValid(tx)
  BY FoundStay DEF ValidateTransaction, SignaturesValid
<1>4. TotalInput(tx) \in Value
  <2>1. TotalInput(tx)' \in Value /\ TotalInput(tx) <= TotalInput(tx)' /\ TotalInput(tx) \in Nat
    BY FoundStay DEF ValidateTransaction
  <2> QED
    BY <2>1, SizeAssumption DEF Value
<1>5. TotalOutput(tx)' = TotalOutput(tx)
  BY DEF TotalOutput
<1>6. Missing(tx) = {} => TotalInput(tx) >= TotalOutput(tx)
  BY <1>5, FoundStay DEF ValidateTransaction
<1> QED
  BY <1>1, <1>2, <1>3, <1>4, <1>5, <1>6 DEF ValidateTransaction

(* A transaction that validate_transaction refuses, or whose input is gone,  *)
(* can be forgotten: no block to come accepts it, whatever is dispatched.    *)
THEOREM RefusedForGood == Spec => [][\A tx \in Transactions : Doomed(tx) => Doomed(tx)']_chainVars
<1>1. IInv /\ [Next]_chainVars => [\A tx \in Transactions : Doomed(tx) => Doomed(tx)']_chainVars
  BY DoomStep
<1> QED
  BY <1>1, Invariance, PTL DEF Spec

-----------------------------------------------------------------------------
(* As long as no inherent names an author, which is how this node provides   *)
(* its inherents, fees only ever enter the pot: on_finalize takes its branch *)
(* without an author in every block, and no block pays them out.             *)
THEOREM FeesOnlyEnter ==
    ASSUME InherentAuthors = {}
    PROVE  Spec => [][rewardTotal <= rewardTotal']_chainVars
<1> DEFINE Inv == IInv /\ author = NoKey
           Grows == rewardTotal <= rewardTotal'
<1>1. Init => Inv
  BY InitInv DEF Init, AuthorInit
<1>2. ASSUME Inv, [Next]_chainVars PROVE Inv' /\ [Grows]_chainVars
  <2>1. IInv' /\ rewardTotal \in Nat
    BY <1>2, NextInv, SizeAssumption DEF IInv, TypeOK, UtxoTypeOK, Value
  <2>2. ASSUME InitializeBlock PROVE author' = NoKey /\ Grows
    BY <1>2, <2>1, <2>2 DEF InitializeBlock, ResetAuthor
  <2>3. ASSUME NEW tx \in Transactions, ApplySpend(tx) PROVE author' = NoKey /\ Grows
    <3>1. UtxoTypeOK /\ ValidateTransaction(tx) /\ Missing(tx) = {}
      BY <1>2, <2>3 DEF IInv, TypeOK, ApplySpend, Spend
    <3>2. Priority(tx) \in Nat
      <4>1. TotalInput(tx) - TotalOutput(tx) \in Int
        BY <3>1, SumsOfTransaction
      <4> QED
        BY <4>1, SizeAssumption DEF Priority, Fee
    <3> QED
      BY <1>2, <2>1, <2>3, <3>2 DEF ApplySpend, Spend, UpdateStorage
  <2>4. ASSUME FinalizeBlock PROVE author' = NoKey /\ Grows
    BY <1>2, <2>1, <2>4 DEF FinalizeBlock, BlockAuthorOf, WasteReward
  <2>5. ASSUME UNCHANGED chainVars PROVE author' = NoKey /\ Grows
    BY <1>2, <2>1, <2>5 DEF chainVars
  <2>6. author' = NoKey /\ Grows
    <3> HIDE DEF Grows
    <3> QED
      BY <1>2, <2>2, <2>3, <2>4, <2>5 DEF Next
  <2> QED
    BY <2>1, <2>6
<1> QED
  BY <1>1, <1>2, PTL DEF Spec

-----------------------------------------------------------------------------
(* The refinement of OutpointLifecycle.                                      *)
LEMMA LifecycleInit == Init => Lifecycle!Init
<1> SUFFICES ASSUME Init PROVE Lifecycle!Init
  OBVIOUS
<1>1. Spent = {} /\ phase = "idle"
  BY DEF Init, Spent, SpentBy
<1> QED
  BY <1>1 DEF Lifecycle!Init

(* A dispatched transaction is a transfer.                                   *)
LEMMA LifecycleTransfer ==
    ASSUME IInv, NEW tx \in Transactions, ApplySpend(tx)
    PROVE  Lifecycle!Transfer
<1>1. /\ ValidateTransaction(tx) /\ Missing(tx) = {} /\ UpdateStorage(tx, Priority(tx))
      /\ log' = Append(log, tx) /\ phase = "open" /\ phase' = phase
  BY DEF ApplySpend, Spend
<1>2. /\ Outpoints(tx) # {} /\ Outpoints(tx) \subseteq DOMAIN utxoStore
      /\ OutputKeys(tx) # {} /\ OutputKeys(tx) \subseteq H256
      /\ OutputKeys(tx) \cap (DOMAIN utxoStore \cup Spent) = {}
  BY <1>1, ReadyInputs, FreshOutputs, HashesAreOutpoints
<1>3. /\ DOMAIN utxoStore' = (DOMAIN utxoStore \ Outpoints(tx)) \cup OutputKeys(tx)
      /\ Spent' = Spent \cup Outpoints(tx)
  BY <1>1, SpendEffect, AppendLog DEF IInv, TypeOK, Spent
<1>4. Outpoints(tx) \cap Spent = {}
  BY <1>2 DEF IInv, SpentStaysSpent
<1>5. Lifecycle!Consumed = Outpoints(tx) /\ Lifecycle!Created = OutputKeys(tx)
  BY <1>2, <1>3, <1>4 DEF Lifecycle!Consumed, Lifecycle!Created
<1>6. Lifecycle!Forward
  BY <1>2, <1>3, <1>5 DEF Lifecycle!Forward
<1> QED
  BY <1>1, <1>2, <1>5, <1>6 DEF Lifecycle!Transfer

(* Finalizing a block closes it, with at most one outpoint minted.           *)
LEMMA LifecycleClose ==
    ASSUME IInv, FinalizeBlock
    PROVE  Lifecycle!Close
<1>1. phase = "open" /\ phase' = "idle" /\ Spent' = Spent
  BY DEF FinalizeBlock, Spent
<1>2. PICK minted \in SUBSET H256 :
        /\ minted \cap (DOMAIN utxoStore \cup Spent) = {}
        /\ \A op, other \in minted : op = other
        /\ DOMAIN utxoStore' = DOMAIN utxoStore \cup minted
  <2>1. CASE utxoStore' = utxoStore
    <3>1. {} \in SUBSET H256 /\ {} \cap (DOMAIN utxoStore \cup Spent) = {}
      OBVIOUS
    <3> QED
      BY <2>1, <3>1
  <2>2. ASSUME NEW op \in RewardKeys(number), op \notin DOMAIN utxoStore \cup Spent,
               DOMAIN utxoStore' = DOMAIN utxoStore \cup {op}
        PROVE  \E minted \in SUBSET H256 :
                  /\ minted \cap (DOMAIN utxoStore \cup Spent) = {}
                  /\ \A p, q \in minted : p = q
                  /\ DOMAIN utxoStore' = DOMAIN utxoStore \cup minted
    <3>1. number \in BlockNumber
      BY SizeAssumption DEF FinalizeBlock, IInv, TypeOK, BlockNumber
    <3>2. {op} \in SUBSET H256
      BY <2>2, <3>1, HashesAreOutpoints
    <3> QED
      BY <2>2, <3>2
  <2> QED
    BY <2>1, <2>2, FinalizeEffect
<1>3. Lifecycle!Created = minted /\ Lifecycle!Consumed = {}
  BY <1>1, <1>2 DEF Lifecycle!Consumed, Lifecycle!Created
<1>4. Lifecycle!Forward
  BY <1>1, <1>2, <1>3 DEF Lifecycle!Forward
<1> QED
  BY <1>1, <1>2, <1>3, <1>4 DEF Lifecycle!Close

LEMMA LifecycleStep == IInv /\ [Next]_chainVars => [Lifecycle!Next]_(Lifecycle!lifeVars)
<1> SUFFICES ASSUME IInv, [Next]_chainVars
             PROVE  [Lifecycle!Next]_(Lifecycle!lifeVars)
  OBVIOUS
<1>1. CASE InitializeBlock
  <2>1. UNCHANGED <<utxoStore, log>> /\ phase = "idle" /\ phase' = "open"
    BY <1>1 DEF InitializeBlock
  <2> QED
    BY <2>1 DEF Spent, Lifecycle!Begin, Lifecycle!Next
<1>2. ASSUME UNCHANGED <<utxoStore, log, phase>> PROVE UNCHANGED Lifecycle!lifeVars
  BY <1>2 DEF Spent, Lifecycle!lifeVars
<1>3. CASE \E origin \in Origin, key \in InherentAuthors : ApplySetAuthor(origin, key)
  BY <1>2, <1>3 DEF ApplySetAuthor
<1>4. CASE \E tx \in Transactions : ApplySpend(tx)
  BY <1>4, LifecycleTransfer DEF Lifecycle!Next
<1>5. CASE FinalizeBlock
  BY <1>5, LifecycleClose DEF Lifecycle!Next
<1>6. CASE UNCHANGED chainVars
  BY <1>2, <1>6 DEF chainVars
<1> QED
  BY <1>1, <1>3, <1>4, <1>5, <1>6 DEF Next

(* The chain implements the life cycle of outpoints, for every genesis,      *)
(* every catalogue of transactions and every issuance.                       *)
THEOREM ChainRefinesLifecycle == Spec => ImplementsLifecycle
BY LifecycleInit, LifecycleStep, Invariance, PTL DEF Spec, ImplementsLifecycle, Lifecycle!Spec

==============================================================================
