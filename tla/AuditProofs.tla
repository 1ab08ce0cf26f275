----------------------------- MODULE AuditProofs -----------------------------
(***************************************************************************)
(* The books of the chain, for every set of transactions and any values:   *)
(* what the store is worth is what was issued, less what was lost, plus    *)
(* what was doubled.  The proof follows the sums through a spend, where    *)
(* the outputs that are new move value and those that are not lose it, and *)
(* through the payout at the end of a block.                               *)
(***************************************************************************)
EXTENDS UtxoAudit, UtxoChainProofs

(* A payout and a spend keep the store finite.                               *)
AuditTypeOK ==
    /\ IsFiniteSet(DOMAIN utxoStore)
    /\ issued \in Nat /\ lost \in Nat /\ doubled \in Int

AuditInv == IInv /\ AuditTypeOK /\ BooksBalance

ValueOf(store) == [op \in DOMAIN store |-> store[op].value]

LEMMA WorthIsSum ==
    ASSUME UtxoTypeOK, IsFiniteSet(DOMAIN utxoStore)
    PROVE  /\ Worth = SumFunctionOnSet(ValueOf(utxoStore), DOMAIN utxoStore)
           /\ Worth \in Nat
           /\ \A op \in DOMAIN utxoStore : ValueOf(utxoStore)[op] \in Nat /\ ValueOf(utxoStore)[op] \in Int
<1>1. Worth = SumFunctionOnSet(ValueOf(utxoStore), DOMAIN utxoStore)
  BY DEF Worth, SumFunction, ValueOf
<1>2. ASSUME NEW op \in DOMAIN utxoStore PROVE ValueOf(utxoStore)[op] \in Nat
  BY SizeAssumption DEF UtxoTypeOK, ValueOf, TransactionOutput, Value
<1> QED
  BY <1>1, <1>2, SumOfNaturals

LEMMA GenesisIsWorth ==
    ASSUME Init
    PROVE  IsFiniteSet(DOMAIN utxoStore) /\ Worth = GenesisWorth /\ GenesisWorth \in Nat
<1> DEFINE G == GenesisUtxos
           b == [out \in G |-> HashGenesis(out)]
           e == [out \in G |-> out.value]
<1>1. IsFiniteSet(G) /\ \A out \in G : out.value \in Nat /\ out.value \in Int
  BY DataAssumption, SizeAssumption DEF TransactionOutput, Value
<1>2. DOMAIN utxoStore = {b[out] : out \in G}
  BY DEF Init, UtxoInit, GenesisKeys
<1>3. ASSUME NEW out \in G PROVE utxoStore[b[out]] = out
  <2>1. b[out] = HashGenesis(out) /\ HashGenesis(out) \in GenesisKeys
    BY DEF GenesisKeys
  <2>2. utxoStore[b[out]] = CHOOSE other \in GenesisUtxos : HashGenesis(other) = HashGenesis(out)
    BY <2>1 DEF Init, UtxoInit
  <2> QED
    BY <2>2, CollisionFree
<1>4. \A out, other \in G : b[out] = b[other] => out = other
  BY CollisionFree
<1>5. \A out \in G : e[out] \in Int /\ e[out] \in Nat /\ ValueOf(utxoStore)[b[out]] = e[out]
  BY <1>1, <1>2, <1>3 DEF ValueOf
<1>6. SumFunctionOnSet(ValueOf(utxoStore), {b[out] : out \in G}) = SumFunctionOnSet(e, G)
  <2> HIDE DEF b, e, G
  <2> QED BY <1>1, <1>4, <1>5, SumReindexed
<1>7. Worth = SumFunctionOnSet(ValueOf(utxoStore), DOMAIN utxoStore)
  BY DEF Worth, SumFunction, ValueOf
<1>8. GenesisWorth = SumFunctionOnSet(e, G)
  BY DEF GenesisWorth, SumFunction
<1>9. SumFunctionOnSet(e, G) \in Nat
  <2> HIDE DEF e, G
  <2> QED BY <1>1, <1>5, SumOfNaturals
<1>10. IsFiniteSet({b[out] : out \in G})
  BY <1>1, ImageFinite
<1> QED
  BY <1>2, <1>6, <1>7, <1>8, <1>9, <1>10

LEMMA SpendMovesValue ==
    ASSUME IInv, IsFiniteSet(DOMAIN utxoStore), NEW tx \in Transactions, ApplySpend(tx)
    PROVE  /\ IsFiniteSet(DOMAIN utxoStore')
           /\ DistinctInput(tx) \in Nat
           /\ Worth' = Worth - DistinctInput(tx) + TotalOutput(tx)
<1> DEFINE D == DOMAIN utxoStore
           O == Outpoints(tx)
           K == OutputKeys(tx)
           f == ValueOf(utxoStore)
           g == ValueOf(utxoStore')
<1>1. ValidateTransaction(tx) /\ Missing(tx) = {} /\ UpdateStorage(tx, Priority(tx))
  BY DEF ApplySpend, Spend
<1>2. UtxoTypeOK /\ UtxoTypeOK' /\ DOMAIN utxoStore' = (D \ O) \cup K
  BY <1>1, SpendEffect DEF IInv, TypeOK
<1>3. O \subseteq D /\ K \cap D = {}
  BY <1>1, ReadyInputs
<1>4. IsFiniteSet(O) /\ IsFiniteSet(K) /\ IsFiniteSet(D \ O)
  BY TransactionFinite, FS_Subset
<1>5. IsFiniteSet(DOMAIN utxoStore')
  <2> HIDE DEF D, O, K
  <2> QED BY <1>2, <1>4, FS_Union
<1>6. /\ Worth = SumFunctionOnSet(f, D) /\ Worth \in Nat
      /\ \A op \in D : f[op] \in Int /\ f[op] \in Nat
  BY <1>2, WorthIsSum
<1>7. /\ Worth' = SumFunctionOnSet(g, (D \ O) \cup K)
      /\ \A op \in (D \ O) \cup K : g[op] \in Int
  <2>1. /\ Worth' = SumFunctionOnSet(g, DOMAIN utxoStore')
        /\ \A op \in DOMAIN utxoStore' : g[op] \in Int
    <3>1. Worth' = SumFunctionOnSet(g, DOMAIN utxoStore')
      BY DEF Worth, SumFunction, ValueOf
    <3>2. ASSUME NEW op \in DOMAIN utxoStore' PROVE g[op] \in Int
      BY <1>2, SizeAssumption DEF UtxoTypeOK, ValueOf, TransactionOutput, Value
    <3> QED
      BY <3>1, <3>2
  <2> QED
    BY <1>2, <2>1
<1>8. \A op \in D \ O : g[op] = f[op]
  BY <1>1, <1>2, <1>3, SpendEffect DEF IInv, TypeOK, ValueOf
<1>9. SumFunctionOnSet(f, D) = SumFunctionOnSet(f, D \ O) + SumFunctionOnSet(f, O)
  <2>1. (D \ O) \cup O = D
    BY <1>3
  <2> HIDE DEF D, O, f
  <2>2. SumFunctionOnSet(f, (D \ O) \cup O) = SumFunctionOnSet(f, D \ O) + SumFunctionOnSet(f, O)
    BY <1>3, <1>4, <1>6, SumDisjoint
  <2> QED
    BY <2>1, <2>2
<1>10. SumFunctionOnSet(g, (D \ O) \cup K) = SumFunctionOnSet(g, D \ O) + SumFunctionOnSet(g, K)
  <2> HIDE DEF D, O, K, g
  <2> QED BY <1>3, <1>4, <1>7, SumDisjoint
<1>11. SumFunctionOnSet(g, D \ O) = SumFunctionOnSet(f, D \ O)
  <2> HIDE DEF D, O, K, f, g
  <2> QED BY <1>4, <1>6, <1>8, SumAgrees
<1>12. DistinctInput(tx) = SumFunctionOnSet(f, O)
  <2> DEFINE d == [op \in O |-> utxoStore[op].value]
  <2>1. DistinctInput(tx) = SumFunctionOnSet(d, O)
    BY DEF DistinctInput, SumFunction
  <2>2. \A op \in O : f[op] \in Int /\ d[op] = f[op]
    BY <1>3, <1>6 DEF ValueOf
  <2> HIDE DEF O, d, f
  <2> QED
    BY <1>4, <2>1, <2>2, SumAgrees
<1>13. SumFunctionOnSet(g, K) = TotalOutput(tx)
  <2> DEFINE I == DOMAIN tx.outputs
             b == [i \in I |-> OutputKey(tx, i)]
             e == [i \in I |-> tx.outputs[i].value]
  <2>1. IsFiniteSet(I) /\ \A i \in I : e[i] \in Int
    BY TransactionFinite
  <2>2. \A i, j \in I : b[i] = b[j] => i = j
    BY CollisionFree
  <2>3. ASSUME NEW i \in I PROVE g[b[i]] = e[i]
    <3>1. b[i] = OutputKey(tx, i) /\ b[i] \in K
      BY DEF OutputKeys
    <3>2. NewOutput(tx, b[i]) = tx.outputs[i]
      <4>1. \A j \in I : OutputKey(tx, j) = b[i] => j = i
        BY CollisionFree
      <4> QED
        BY <3>1, <4>1 DEF NewOutput
    <3>3. utxoStore'[b[i]] = NewOutput(tx, b[i])
      BY <1>1, <3>1 DEF UpdateStorage
    <3> QED
      BY <1>2, <3>1, <3>2, <3>3 DEF ValueOf
  <2>4. K = {b[i] : i \in I}
    BY DEF OutputKeys
  <2>5. TotalOutput(tx) = SumFunctionOnSet(e, I)
    BY DEF TotalOutput, SumFunction
  <2> HIDE DEF I, b, e, g, K
  <2> QED
    BY <2>1, <2>2, <2>3, <2>4, <2>5, SumReindexed
<1>14. SumFunctionOnSet(f, O) \in Nat /\ SumFunctionOnSet(f, D \ O) \in Nat
  <2> HIDE DEF D, O, f
  <2> QED BY <1>3, <1>4, <1>6, SumOfNaturals
<1>15. TotalOutput(tx) \in Nat
  BY <1>2, SumsOfTransaction
<1> HIDE DEF D, O, K, f, g
<1> QED
  BY <1>5, <1>6, <1>7, <1>9, <1>10, <1>11, <1>12, <1>13, <1>14, <1>15

LEMMA GenesisWorthType == GenesisWorth \in Nat
<1> DEFINE e == [out \in GenesisUtxos |-> out.value]
<1>1. IsFiniteSet(GenesisUtxos) /\ \A out \in GenesisUtxos : e[out] \in Nat
  BY DataAssumption, SizeAssumption DEF TransactionOutput, Value
<1>2. GenesisWorth = SumFunctionOnSet(e, GenesisUtxos)
  BY DEF GenesisWorth, SumFunction
<1> HIDE DEF e
<1> QED
  BY <1>1, <1>2, SumOfNaturals

LEMMA SmallerRemainder ==
    ASSUME NEW n \in Nat, NEW m \in Nat \ {0}
    PROVE  n % m \in Nat /\ n % m <= n
<1>1. n = m * (n \div m) + (n % m) /\ n % m \in 0 .. m - 1
  OBVIOUS
<1>2. n \div m \in Nat
  OBVIOUS
<1>3. m * (n \div m) \in Nat
  BY <1>2
<1> QED
  BY <1>1, <1>3

(* A payout adds its value to the store.                                     *)
LEMMA FinalizeMovesValue ==
    ASSUME IInv, IsFiniteSet(DOMAIN utxoStore), FinalizeBlock
    PROVE  /\ IsFiniteSet(DOMAIN utxoStore')
           /\ author = NoKey => Worth' = Worth /\ rewardTotal' = rewardTotal
           /\ author # NoKey => Worth' = Worth + Payout(number) /\ rewardTotal' = 0
<1>1. CASE author = NoKey
  BY <1>1 DEF FinalizeBlock, BlockAuthorOf, WasteReward, Worth
<1>2. CASE author # NoKey
  <2> DEFINE D == DOMAIN utxoStore
             op == RewardOutpoint(author, number)
             f == ValueOf(utxoStore)
             g == ValueOf(utxoStore')
  <2>1. phase = "open" /\ DisperseReward(author, number) /\ author \in Key
    BY <1>2 DEF FinalizeBlock, BlockAuthorOf, IInv, TypeOK, AuthorTypeOK
  <2>2. op \notin D /\ RewardOutput(author, number).value = Payout(number)
    BY <2>1, FreshReward DEF RewardOutput
  <2>3. UtxoTypeOK /\ UtxoTypeOK' /\ rewardTotal' = 0
    BY <2>1, FinalizeEffect DEF IInv, TypeOK, DisperseReward
  <2>4. DOMAIN utxoStore' = D \cup {op} /\ utxoStore'[op] = RewardOutput(author, number)
    BY <2>1 DEF DisperseReward
  <2>5. IsFiniteSet(DOMAIN utxoStore')
    BY <2>4, FS_AddElement
  <2>6. \A x \in D : g[x] = f[x] /\ f[x] \in Int
    BY <2>1, <2>2, <2>3, <2>4, WorthIsSum DEF DisperseReward, ValueOf
  <2>7. g[op] = Payout(number)
    BY <2>2, <2>4 DEF ValueOf
  <2>8. ASSUME NEW x \in D \cup {op} PROVE g[x] \in Int
    BY <2>3, <2>4, SizeAssumption DEF UtxoTypeOK, ValueOf, TransactionOutput, Value
  <2>9. Worth' = SumFunctionOnSet(g, D \cup {op})
    BY <2>4 DEF Worth, SumFunction, ValueOf
  <2>10. Worth = SumFunctionOnSet(f, D) /\ Worth \in Nat
    BY <2>3, WorthIsSum
  <2>11. (D \cup {op}) \ {op} = D
    BY <2>2
  <2>12. SumFunctionOnSet(g, D \cup {op}) = g[op] + SumFunctionOnSet(g, D)
    <3> HIDE DEF D, op, g
    <3> QED BY <2>4, <2>5, <2>8, <2>11, SumLaws
  <2>13. SumFunctionOnSet(g, D) = SumFunctionOnSet(f, D)
    <3> HIDE DEF D, f, g
    <3>1. IsFiniteSet(D)
      BY DEF D
    <3> QED
      BY <2>6, <3>1, SumAgrees
  <2>14. g[op] \in Int
    BY <2>8
  <2> HIDE DEF D, op, f, g
  <2> QED
    BY <1>2, <2>3, <2>5, <2>7, <2>9, <2>10, <2>12, <2>13, <2>14
<1> QED
  BY <1>1, <1>2

(* The books after each step.                                                *)
LEMMA AuditSpendStep ==
    ASSUME AuditInv, NEW tx \in Transactions, AuditSpend(tx)
    PROVE  AuditInv'
<1>1. /\ ValidateTransaction(tx) /\ Missing(tx) = {} /\ ApplySpend(tx)
      /\ rewardTotal' = rewardTotal + Priority(tx)
      /\ lost' = lost + Fee(tx) - Priority(tx)
      /\ doubled' = doubled + TotalInput(tx) - DistinctInput(tx) /\ issued' = issued
  BY DEF AuditSpend, ApplySpend, Spend, UpdateStorage
<1>2. IInv'
  BY <1>1, SpendStep DEF AuditInv
<1>3. /\ IsFiniteSet(DOMAIN utxoStore') /\ DistinctInput(tx) \in Nat
      /\ Worth' = Worth - DistinctInput(tx) + TotalOutput(tx)
  BY <1>1, SpendMovesValue DEF AuditInv, AuditTypeOK
<1>4. UtxoTypeOK /\ rewardTotal \in Nat
  BY SizeAssumption DEF AuditInv, IInv, TypeOK, UtxoTypeOK, Value
<1>5. TotalInput(tx) \in Nat /\ TotalOutput(tx) \in Nat /\ TotalInput(tx) >= TotalOutput(tx)
  BY <1>1, <1>4, SumsOfTransaction DEF ValidateTransaction
<1>6. Fee(tx) = TotalInput(tx) - TotalOutput(tx) /\ Fee(tx) \in Nat
  BY <1>1, <1>5 DEF Fee
<1>7. Priority(tx) \in Nat /\ Priority(tx) <= Fee(tx)
  BY <1>6, SizeAssumption, SmallerRemainder DEF Priority
<1>8. Worth \in Nat
  BY <1>4, WorthIsSum DEF AuditInv, AuditTypeOK
<1>9. GenesisWorth \in Int
  BY GenesisWorthType
<1>10. AuditTypeOK'
  BY <1>1, <1>3, <1>5, <1>6, <1>7 DEF AuditInv, AuditTypeOK
<1>11. BooksBalance'
  <2>1. Worth + rewardTotal + lost = GenesisWorth + issued + doubled
    BY DEF AuditInv, BooksBalance
  <2>2. issued \in Nat /\ lost \in Nat /\ doubled \in Int
    BY DEF AuditInv, AuditTypeOK
  <2>3. Worth' + rewardTotal' + lost' = GenesisWorth + issued' + doubled'
    BY <1>1, <1>3, <1>4, <1>5, <1>6, <1>7, <1>8, <1>9, <2>1, <2>2
  <2> QED
    BY <2>3 DEF BooksBalance, GenesisWorth
<1> QED
  BY <1>2, <1>10, <1>11 DEF AuditInv

LEMMA AuditFinalizeStep ==
    ASSUME AuditInv, AuditFinalize
    PROVE  AuditInv'
<1>1. FinalizeBlock /\ doubled' = doubled /\ phase = "open"
  BY DEF AuditFinalize, FinalizeBlock
<1>2. IInv'
  BY <1>1, FinalizeStep DEF AuditInv
<1>3. /\ IsFiniteSet(DOMAIN utxoStore')
      /\ author = NoKey => Worth' = Worth /\ rewardTotal' = rewardTotal
      /\ author # NoKey => Worth' = Worth + Payout(number) /\ rewardTotal' = 0
  BY <1>1, FinalizeMovesValue DEF AuditInv, AuditTypeOK
<1>4. UtxoTypeOK /\ rewardTotal \in Nat
  BY SizeAssumption DEF AuditInv, IInv, TypeOK, UtxoTypeOK, Value
<1>5. Worth \in Nat
  BY <1>4, WorthIsSum DEF AuditInv, AuditTypeOK
<1>6. GenesisWorth \in Int
  BY GenesisWorthType
<1>7. /\ Worth + rewardTotal + lost = GenesisWorth + issued + doubled
      /\ issued \in Nat /\ lost \in Nat /\ doubled \in Int
  BY DEF AuditInv, BooksBalance, AuditTypeOK
<1>8. CASE author = NoKey
  <2>1. UNCHANGED <<issued, lost>>
    BY <1>8 DEF AuditFinalize
  <2> QED
    BY <1>1, <1>2, <1>3, <1>7, <1>8, <2>1 DEF AuditInv, AuditTypeOK, BooksBalance, GenesisWorth
<1>9. CASE author # NoKey
  <2>1. /\ issued' = issued + Issuance(number)
        /\ lost' = lost + rewardTotal + Issuance(number) - Payout(number)
    BY <1>9 DEF AuditFinalize
  <2>2. Issuance(number) \in Nat
    BY <1>1, SizeAssumption, DataAssumption DEF AuditInv, IInv, TypeOK, BlockNumber, Value
  <2>3. Payout(number) \in Nat /\ Payout(number) <= rewardTotal + Issuance(number)
    <3>1. rewardTotal + Issuance(number) \in Nat /\ MaxValue + 1 \in Nat \ {0}
      BY <1>4, <2>2, SizeAssumption
    <3> QED
      BY <3>1, SmallerRemainder DEF Payout
  <2>4. Worth' + rewardTotal' + lost' = GenesisWorth + issued' + doubled'
    BY <1>1, <1>3, <1>4, <1>5, <1>6, <1>7, <1>9, <2>1, <2>2, <2>3
  <2>5. issued' \in Nat /\ lost' \in Nat /\ doubled' \in Int
    BY <1>1, <1>4, <1>7, <2>1, <2>2, <2>3
  <2> QED
    BY <1>2, <1>3, <2>4, <2>5 DEF AuditInv, AuditTypeOK, BooksBalance, GenesisWorth
<1> QED
  BY <1>8, <1>9

LEMMA AuditOtherStep ==
    ASSUME AuditInv, AuditOther
    PROVE  AuditInv'
<1>1. UNCHANGED <<utxoStore, rewardTotal, issued, lost, doubled>>
  BY DEF AuditOther, InitializeBlock, ApplySetAuthor
<1>2. IInv'
  BY InitializeStep, SetAuthorStep DEF AuditOther, AuditInv
<1> QED
  BY <1>1, <1>2 DEF AuditInv, AuditTypeOK, BooksBalance, Worth, GenesisWorth

LEMMA AuditInitInv == AuditInit => AuditInv
BY InitInv, GenesisIsWorth DEF AuditInit, Init, UtxoInit, AuditInv, AuditTypeOK, BooksBalance

LEMMA AuditNextInv == AuditInv /\ [AuditNext]_auditVars => AuditInv'
<1> SUFFICES ASSUME AuditInv, [AuditNext]_auditVars PROVE AuditInv'
  OBVIOUS
<1>1. CASE UNCHANGED auditVars
  <2>1. UNCHANGED <<chainVars, issued, lost, doubled>>
        /\ UNCHANGED utxoStore /\ UNCHANGED rewardTotal
    BY <1>1 DEF auditVars, chainVars
  <2>2. IInv'
    BY <2>1, NextInv DEF AuditInv
  <2> QED
    BY <2>1, <2>2 DEF AuditInv, AuditTypeOK, BooksBalance, Worth, GenesisWorth
<1> QED
  BY <1>1, AuditFinalizeStep, AuditOtherStep, AuditSpendStep DEF AuditNext

(* For every genesis, every issuance and every transaction: spending and     *)
(* paying out neither make nor lose value beyond what the audit names.       *)
THEOREM BooksAlwaysBalance == AuditSpec => []BooksBalance
<1>1. AuditInv => BooksBalance
  BY DEF AuditInv
<1> QED
  BY <1>1, AuditInitInv, AuditNextInv, PTL DEF AuditSpec

(* No transaction lists an outpoint twice: what validate_transaction means   *)
(* to ensure.                                                                *)
DistinctOutpoints ==
    \A tx \in Transactions : \A i, j \in DOMAIN tx.inputs :
        tx.inputs[i].outpoint = tx.inputs[j].outpoint => i = j

LEMMA NothingCountedTwice ==
    ASSUME DistinctOutpoints, UtxoTypeOK, NEW tx \in Transactions, Missing(tx) = {}
    PROVE  TotalInput(tx) = DistinctInput(tx)
<1> DEFINE I == DOMAIN tx.inputs
           b == [i \in I |-> tx.inputs[i].outpoint]
           e == [i \in I |-> utxoStore[tx.inputs[i].outpoint].value]
           f == [op \in Outpoints(tx) |-> utxoStore[op].value]
<1>1. \A i \in I : b[i] \in Outpoints(tx) /\ b[i] \in DOMAIN utxoStore
  BY DEF Missing, Outpoints
<1>2. Found(tx) = I
  BY <1>1 DEF Found
<1>3. TotalInput(tx) = SumFunctionOnSet(e, I)
  BY <1>2 DEF TotalInput, SumFunction
<1>4. DistinctInput(tx) = SumFunctionOnSet(f, Outpoints(tx))
  BY DEF DistinctInput, SumFunction
<1>5. Outpoints(tx) = {b[i] : i \in I}
  BY DEF Outpoints
<1>6. IsFiniteSet(I) /\ \A i, j \in I : b[i] = b[j] => i = j
  BY TransactionFinite DEF DistinctOutpoints
<1>7. ASSUME NEW i \in I PROVE e[i] \in Int /\ f[b[i]] = e[i]
  <2>1. b[i] \in Outpoints(tx) /\ b[i] \in DOMAIN utxoStore
    BY <1>1
  <2>2. utxoStore[b[i]].value \in Int
    BY <2>1, SizeAssumption DEF UtxoTypeOK, TransactionOutput, Value
  <2>3. b[i] = tx.inputs[i].outpoint
    OBVIOUS
  <2>4. f[b[i]] = utxoStore[b[i]].value
    <3> HIDE DEF b
    <3> QED BY <2>1
  <2> HIDE DEF b, f
  <2> QED
    BY <2>2, <2>3, <2>4
<1> HIDE DEF I, b, e, f
<1> QED
  BY <1>3, <1>4, <1>5, <1>6, <1>7, SumReindexed

(* Where every outpoint is listed once, nothing but issuance adds value: the *)
(* duplicate check that compares signatures too is the only way to more.     *)
THEOREM OnlyDuplicatesAddValue ==
    ASSUME DistinctOutpoints
    PROVE  AuditSpec => []OnlyIssuanceAddsValue
<1> DEFINE Inv == AuditInv /\ doubled = 0
<1>1. AuditInit => Inv
  BY AuditInitInv DEF AuditInit
<1>2. Inv /\ [AuditNext]_auditVars => Inv'
  <2> SUFFICES ASSUME Inv, [AuditNext]_auditVars PROVE doubled' = 0
    BY AuditNextInv
  <2>1. ASSUME NEW tx \in Transactions, AuditSpend(tx) PROVE doubled' = 0
    <3>1. Missing(tx) = {} /\ doubled' = doubled + TotalInput(tx) - DistinctInput(tx)
      BY <2>1 DEF AuditSpend, ApplySpend, Spend
    <3>2. UtxoTypeOK
      BY DEF AuditInv, IInv, TypeOK
    <3>3. TotalInput(tx) \in Nat /\ TotalInput(tx) = DistinctInput(tx)
      BY <3>1, <3>2, SumsOfTransaction, NothingCountedTwice
    <3> QED
      BY <3>1, <3>3
  <2> QED
    BY <2>1 DEF AuditNext, AuditFinalize, AuditOther, auditVars
<1>3. Inv => OnlyIssuanceAddsValue
  <2> SUFFICES ASSUME Inv PROVE OnlyIssuanceAddsValue
    OBVIOUS
  <2>1. UtxoTypeOK /\ rewardTotal \in Nat
    BY SizeAssumption DEF AuditInv, IInv, TypeOK, UtxoTypeOK, Value
  <2>2. Worth \in Nat /\ GenesisWorth \in Nat
    BY <2>1, WorthIsSum, GenesisWorthType DEF AuditInv, AuditTypeOK
  <2>3. issued \in Nat /\ lost \in Nat /\ Worth + rewardTotal + lost = GenesisWorth + issued
    BY <2>2 DEF AuditInv, AuditTypeOK, BooksBalance
  <2> QED
    BY <2>1, <2>2, <2>3 DEF OnlyIssuanceAddsValue
<1> QED
  BY <1>1, <1>2, <1>3, PTL DEF AuditSpec

==============================================================================
