------------------------ MODULE PublicNetworkProofs ------------------------
(***************************************************************************)
(* What the two wallet paths may rely on, whatever the network does: mined *)
(* blocks stay, each nonce of the wallet is mined once, and a transfer     *)
(* that succeeded took its amount off the balance before it.               *)
(***************************************************************************)
EXTENDS PublicNetwork, FiniteSetTheorems, TLAPS

\* Amounts and balances are numbers of tokens.
Counted ==
    /\ \E S : blocks \in Seq(S)
    /\ \A i \in DOMAIN blocks : blocks[i].left \in Nat
    /\ \A tx \in pool : tx.amount \in Nat

\* Mined in the order of their nonces, none twice.
NoncesOnce ==
    /\ \A i \in MinedNonces : blocks[i].tx.nonce \in 0 .. LatestNonce - 1
    /\ \A i, j \in MinedNonces : blocks[i].tx.nonce = blocks[j].tx.nonce => i = j

\* What a successful transfer of the wallet leaves.
Deducted ==
    \A i \in MinedNonces :
        blocks[i].ok => blocks[i].left = BalanceAt(i - 1) - blocks[i].tx.amount

NetworkInv == Counted /\ NoncesOnce /\ Deducted

\* Nothing that was mined is undone.
Extended ==
    /\ Len(blocks) <= Len(blocks')
    /\ \A i \in DOMAIN blocks : i \in DOMAIN blocks' /\ blocks'[i] = blocks[i]

LEMMA NetworkStarts == NetworkInit => NetworkInv
  <1> SUFFICES ASSUME NetworkInit PROVE NetworkInv
    OBVIOUS
  <1>1. blocks \in Seq({}) /\ blocks = <<>> /\ pool = {}
    BY DEF NetworkInit
  <1>2. MinedNonces = {}
    BY <1>1 DEF MinedNonces
  <1> QED
    BY <1>1, <1>2 DEF NetworkInv, Counted, NoncesOnce, Deducted

LEMMA BlocksForm ==
    ASSUME Counted
    PROVE  /\ Len(blocks) \in Nat /\ DOMAIN blocks = 1 .. Len(blocks)
           /\ IsFiniteSet(MinedNonces) /\ MinedNonces \subseteq 1 .. Len(blocks)
           /\ LatestNonce \in Nat
           /\ \A i \in 0 .. Len(blocks) : BalanceAt(i) \in Nat
  <1>1. Len(blocks) \in Nat /\ DOMAIN blocks = 1 .. Len(blocks)
    BY DEF Counted
  <1>2. MinedNonces \subseteq 1 .. Len(blocks)
    BY <1>1 DEF MinedNonces
  <1>3. IsFiniteSet(MinedNonces) /\ LatestNonce \in Nat
    <2>1. IsFiniteSet(1 .. Len(blocks))
      BY <1>1, FS_Interval
    <2>2. IsFiniteSet(MinedNonces)
      BY <1>2, <2>1, FS_Subset
    <2> QED
      BY <2>2, FS_CardinalityType DEF LatestNonce
  <1>4. \A i \in 0 .. Len(blocks) : BalanceAt(i) \in Nat
    BY <1>1, NetworkAssumption DEF Counted, BalanceAt
  <1> QED
    BY <1>1, <1>2, <1>3, <1>4

\* A block more.
LEMMA BlockAdded ==
    ASSUME Counted, NEW tx, NEW ok, NEW left \in Nat, AddBlock(tx, ok, left),
           pool' \subseteq pool
    PROVE  /\ Counted' /\ Extended
           /\ Len(blocks') = Len(blocks) + 1
           /\ blocks'[Len(blocks) + 1] = [tx |-> tx, ok |-> ok, left |-> left]
           /\ \A i \in 0 .. Len(blocks) : BalanceAt(i)' = BalanceAt(i)
           /\ MinedNonces' = MinedNonces \cup
                  (IF tx # Others THEN {Len(blocks) + 1} ELSE {})
  <1> DEFINE b == [tx |-> tx, ok |-> ok, left |-> left]
  <1>1. PICK S : blocks \in Seq(S)
    BY DEF Counted
  <1>2. blocks \in Seq(S \cup {b})
    BY <1>1
  <1>3. /\ blocks' = Append(blocks, b) /\ blocks' \in Seq(S \cup {b})
        /\ Len(blocks) \in Nat /\ DOMAIN blocks = 1 .. Len(blocks)
        /\ Len(blocks') = Len(blocks) + 1 /\ DOMAIN blocks' = 1 .. Len(blocks) + 1
        /\ \A i \in 1 .. Len(blocks) : blocks'[i] = blocks[i]
        /\ blocks'[Len(blocks) + 1] = b
    BY <1>2 DEF AddBlock
  <1>4. b.tx = tx /\ b.ok = ok /\ b.left = left
    OBVIOUS
  <1> HIDE DEF b
  <1>5. Counted'
    BY <1>3, <1>4 DEF Counted
  <1>6. Extended
    BY <1>3 DEF Extended
  <1>7. \A i \in 0 .. Len(blocks) : BalanceAt(i)' = BalanceAt(i)
    BY <1>3 DEF BalanceAt
  <1>8. MinedNonces' = MinedNonces \cup (IF tx # Others THEN {Len(blocks) + 1} ELSE {})
    <2>1. \A i : i \in MinedNonces' <=>
                     i \in 1 .. Len(blocks) + 1 /\ blocks'[i].tx # Others
      BY <1>3 DEF MinedNonces
    <2>2. \A i : i \in MinedNonces <=>
                     i \in 1 .. Len(blocks) /\ blocks[i].tx # Others
      BY <1>3 DEF MinedNonces
    <2>3. \A i \in 1 .. Len(blocks) + 1 : i \in 1 .. Len(blocks) \/ i = Len(blocks) + 1
      BY <1>3
    <2>4. Len(blocks) + 1 \in 1 .. Len(blocks) + 1
      BY <1>3
    <2> QED
      BY <1>3, <1>4, <2>1, <2>2, <2>3, <2>4
  <1> QED
    BY <1>3, <1>5, <1>6, <1>7, <1>8 DEF b

\* A block somebody else is the cause of.
LEMMA OthersBlock ==
    ASSUME NetworkInv, NEW ok, NEW left \in Nat, AddBlock(Others, ok, left),
           UNCHANGED pool
    PROVE  NetworkInv' /\ Extended
  <1>1. /\ Counted' /\ Extended /\ MinedNonces' = MinedNonces
        /\ \A i \in 0 .. Len(blocks) : BalanceAt(i)' = BalanceAt(i)
    BY BlockAdded DEF NetworkInv
  <1>2. LatestNonce' = LatestNonce
    BY <1>1 DEF LatestNonce
  <1>3. /\ MinedNonces \subseteq 1 .. Len(blocks) /\ Len(blocks) \in Nat
        /\ \A i \in MinedNonces : blocks'[i] = blocks[i] /\ BalanceAt(i - 1)' = BalanceAt(i - 1)
    BY <1>1, BlocksForm DEF NetworkInv, Extended
  <1>4. NoncesOnce'
    BY <1>1, <1>2, <1>3 DEF NetworkInv, NoncesOnce
  <1>5. Deducted'
    BY <1>1, <1>3 DEF NetworkInv, Deducted
  <1> QED
    BY <1>1, <1>4, <1>5 DEF NetworkInv

\* A transaction of the wallet is mined when its nonce is due.
LEMMA MineKeepsNetwork ==
    ASSUME NetworkInv, MineTx
    PROVE  NetworkInv' /\ Extended
  <1>1. PICK tx \in pool, ok \in BOOLEAN :
            /\ tx.nonce = LatestNonce
            /\ ok => TransferWorks(tx.amount)
            /\ AddBlock(tx, ok, IF ok THEN Balance - tx.amount ELSE Balance)
            /\ pool' = pool \ {tx}
    BY DEF MineTx
  <1> DEFINE left == IF ok THEN Balance - tx.amount ELSE Balance
             n == Len(blocks) + 1
  <1>2. /\ Len(blocks) \in Nat /\ LatestNonce \in Nat /\ IsFiniteSet(MinedNonces)
        /\ MinedNonces \subseteq 1 .. Len(blocks) /\ Balance \in Nat
        /\ DOMAIN blocks = 1 .. Len(blocks)
    BY BlocksForm DEF NetworkInv, Balance
  <1>3. left \in Nat
    BY <1>1, <1>2 DEF TransferWorks, NetworkInv, Counted
  <1>4. ok => left = BalanceAt(Len(blocks)) - tx.amount
    BY DEF Balance
  <1> HIDE DEF left
  <1>5. /\ Counted' /\ Extended
        /\ blocks'[n] = [tx |-> tx, ok |-> ok, left |-> left]
        /\ \A i \in 0 .. Len(blocks) : BalanceAt(i)' = BalanceAt(i)
        /\ MinedNonces' = MinedNonces \cup (IF tx # Others THEN {n} ELSE {})
    BY <1>1, <1>3, BlockAdded DEF NetworkInv, left
  <1>6. blocks'[n].tx = tx /\ blocks'[n].ok = ok /\ blocks'[n].left = left
    BY <1>5
  <1>7. \A i \in MinedNonces : blocks'[i] = blocks[i] /\ BalanceAt(i - 1)' = BalanceAt(i - 1)
    BY <1>2, <1>5 DEF Extended
  <1>8. CASE tx = Others
    <2>1. MinedNonces' = MinedNonces /\ LatestNonce' = LatestNonce
      BY <1>5, <1>8 DEF LatestNonce
    <2>2. NoncesOnce'
      BY <1>7, <2>1 DEF NetworkInv, NoncesOnce
    <2>3. Deducted'
      BY <1>7, <2>1 DEF NetworkInv, Deducted
    <2> QED
      BY <1>5, <2>2, <2>3 DEF NetworkInv
  <1>9. CASE tx # Others
    <2>1. MinedNonces' = MinedNonces \cup {n} /\ n \notin MinedNonces
      BY <1>2, <1>5, <1>9
    <2>2. LatestNonce' = LatestNonce + 1
      BY <1>2, <2>1, FS_AddElement DEF LatestNonce
    <2>3. \A i \in MinedNonces : blocks[i].tx.nonce \in 0 .. LatestNonce - 1
      BY DEF NetworkInv, NoncesOnce
    <2>4. \A i \in MinedNonces' : blocks'[i].tx.nonce \in 0 .. LatestNonce' - 1
      BY <1>1, <1>2, <1>6, <1>7, <2>1, <2>2, <2>3
    <2>5. \A i, j \in MinedNonces' : blocks'[i].tx.nonce = blocks'[j].tx.nonce => i = j
      <3>1. \A i \in MinedNonces : blocks'[i].tx.nonce # blocks'[n].tx.nonce
        BY <1>1, <1>2, <1>6, <1>7, <2>3
      <3>2. \A i, j \in MinedNonces : blocks'[i].tx.nonce = blocks'[j].tx.nonce => i = j
        BY <1>7 DEF NetworkInv, NoncesOnce
      <3> QED
        BY <2>1, <3>1, <3>2
    <2>6. NoncesOnce'
      BY <2>4, <2>5 DEF NoncesOnce
    <2>7. ASSUME NEW i \in MinedNonces', blocks'[i].ok
          PROVE  blocks'[i].left = BalanceAt(i - 1)' - blocks'[i].tx.amount
      <3>1. CASE i \in MinedNonces
        BY <1>7, <2>7, <3>1 DEF NetworkInv, Deducted
      <3>2. CASE i = n
        <4>1. i - 1 = Len(blocks) /\ i - 1 \in 0 .. Len(blocks)
          BY <1>2, <3>2
        <4>2. BalanceAt(i - 1)' = BalanceAt(i - 1)
          BY <1>5, <4>1
        <4> QED
          BY <1>4, <1>6, <2>7, <3>2, <4>1, <4>2
      <3> QED
        BY <2>1, <3>1, <3>2
    <2>8. Deducted'
      BY <2>7 DEF Deducted
    <2> QED
      BY <1>5, <2>6, <2>8 DEF NetworkInv
  <1> QED
    BY <1>8, <1>9

\* The pool changes, the blocks do not.
LEMMA PoolStep ==
    ASSUME NetworkInv, UNCHANGED blocks, \A tx \in pool' : tx.amount \in Nat
    PROVE  NetworkInv' /\ Extended
  <1>1. MinedNonces' = MinedNonces /\ LatestNonce' = LatestNonce
    BY DEF MinedNonces, LatestNonce
  <1>2. \A i : BalanceAt(i)' = BalanceAt(i)
    BY DEF BalanceAt
  <1>3. Counted' /\ Extended
    BY BlocksForm DEF NetworkInv, Counted, Extended
  <1>4. NoncesOnce'
    BY <1>1 DEF NetworkInv, NoncesOnce
  <1>5. Deducted'
    BY <1>1, <1>2 DEF NetworkInv, Deducted
  <1> QED
    BY <1>3, <1>4, <1>5 DEF NetworkInv

LEMMA PooledKeepsNetwork ==
    ASSUME NetworkInv, NEW tx, tx.amount \in Nat, Pooled(tx)
    PROVE  NetworkInv' /\ Extended
  BY PoolStep DEF Pooled, NetworkInv, Counted

LEMMA EventKeepsNetwork ==
    ASSUME NetworkInv, NEW kind, NetworkEvent(kind)
    PROVE  NetworkInv' /\ Extended
  <1>0. Balance \in Nat /\ EventAmount \in Nat
    BY BlocksForm, NetworkAssumption DEF NetworkInv, Balance
  <1>1. CASE AllowanceSpend
    <2>1. Balance >= EventAmount /\ AddBlock(Others, TRUE, Balance - EventAmount)
      BY <1>1, Zenon DEF AllowanceSpend
    <2>2. Balance - EventAmount \in Nat
      BY <1>0, <2>1
    <2> QED
      BY <1>1, <2>1, <2>2, OthersBlock DEF AllowanceSpend
  <1>2. CASE Incoming
    <2>1. AddBlock(Others, TRUE, Balance + EventAmount)
      BY <1>2, Zenon DEF Incoming
    <2>2. Balance + EventAmount \in Nat
      BY <1>0
    <2> QED
      BY <1>2, <2>1, <2>2, OthersBlock DEF Incoming
  <1>3. CASE OwnTransfer
    <2> DEFINE tx == [nonce |-> PendingNonce, amount |-> EventAmount, own |-> TRUE,
                      network |-> "policy"]
    <2>1. tx.amount \in Nat /\ Pooled(tx)
      BY <1>0, <1>3 DEF OwnTransfer
    <2> HIDE DEF tx
    <2> QED
      BY <2>1, PooledKeepsNetwork
  <1>4. CASE Replace
    <2>1. PICK tx \in pool :
              pool' = (pool \ {tx}) \cup {[tx EXCEPT !.amount = 0, !.own = TRUE]}
      BY <1>4 DEF Replace
    <2> DEFINE new == [tx EXCEPT !.amount = 0, !.own = TRUE]
    <2>2. new.amount \in Nat \/ new.amount = tx.amount
      OBVIOUS
    <2>3. \A p \in pool' : p.amount \in Nat
      BY <2>1, <2>2 DEF NetworkInv, Counted
    <2> QED
      BY <1>4, <2>3, PoolStep DEF Replace
  <1>5. CASE Drop
    BY <1>5, PoolStep DEF Drop, NetworkInv, Counted
  <1> QED
    BY <1>1, <1>2, <1>3, <1>4, <1>5 DEF NetworkEvent

\* The balance and the receipt of a mined block do not change any more.
LEMMA MinedStays ==
    ASSUME NetworkInv, NetworkInv', Extended
    PROVE  /\ \A tx : BlocksOf(tx) \subseteq BlocksOf(tx)'
           /\ \A i \in 0 .. Len(blocks) : i \in 0 .. Len(blocks)'
                                          /\ BalanceAt(i)' = BalanceAt(i)
  <1>1. /\ Len(blocks) \in Nat /\ Len(blocks)' \in Nat
        /\ DOMAIN blocks = 1 .. Len(blocks)
    BY BlocksForm DEF NetworkInv, Counted
  <1> QED
    BY <1>1 DEF Extended, BlocksOf, BalanceAt

\* The wallet held that balance after the block look.
Held(look, balance) == look \in 0 .. Len(blocks) /\ BalanceAt(look) = balance

LEMMA HeldStays ==
    ASSUME NetworkInv, NetworkInv', Extended
    PROVE  \A look, balance : Held(look, balance) => Held(look, balance)'
  BY MinedStays DEF Held

\* A transaction of the wallet is in one block at most, and so are two of the
\* same nonce.
LEMMA OneBlockPerNonce ==
    ASSUME NetworkInv, NEW tx, NEW ty, tx.nonce = ty.nonce, tx # Others, ty # Others,
           NEW i \in BlocksOf(tx), NEW j \in BlocksOf(ty)
    PROVE  i = j
  <1>1. i \in MinedNonces /\ j \in MinedNonces
    BY DEF BlocksOf, MinedNonces
  <1> QED
    BY <1>1 DEF NetworkInv, NoncesOnce, BlocksOf

\* There is a smallest number.
LEMMA SmallestOf ==
    ASSUME NEW S \in SUBSET Nat, S # {}
    PROVE  \E n \in S : \A m \in S : n <= m
  <1> DEFINE Below == {0 .. n : n \in S}
  <1>1. Below \subseteq FiniteSubsetsOf(Nat)
    <2>1. \A n \in S : IsFiniteSet(0 .. n)
      BY FS_Interval
    <2>2. \A n \in S : 0 .. n \in FiniteSubsetsOf(Nat)
      BY <2>1 DEF FiniteSubsetsOf
    <2> QED
      BY <2>2
  <1>2. Below # {}
    OBVIOUS
  <1>3. IsWellFoundedOn(StrictSubsetOrdering(Nat), FiniteSubsetsOf(Nat))
    BY FS_StrictSubsetOrderingWellFounded
  <1>4. \E X \in Below : \A Y \in Below : <<Y, X>> \notin StrictSubsetOrdering(Nat)
    BY <1>1, <1>2, <1>3, WFMin
  <1>5. PICK n \in S : \A m \in S : <<0 .. m, 0 .. n>> \notin StrictSubsetOrdering(Nat)
    BY <1>4
  <1>6. ASSUME NEW m \in S, m < n PROVE FALSE
    <2>1. 0 .. m \in SUBSET Nat /\ 0 .. n \in SUBSET Nat
      OBVIOUS
    <2>2. 0 .. m \subseteq 0 .. n /\ 0 .. m # 0 .. n
      BY <1>6
    <2> QED
      BY <1>5, <2>1, <2>2 DEF StrictSubsetOrdering
  <1> QED
    BY <1>6

\* The pool is finite and well formed.
NetworkTypes == NetworkTypeOK /\ IsFiniteSet(pool)

LEMMA TypesCount == NetworkTypes => Counted
  <1> SUFFICES ASSUME NetworkTypes PROVE Counted
    OBVIOUS
  <1>1. blocks \in Seq(Block) /\ pool \subseteq Tx
    BY DEF NetworkTypes, NetworkTypeOK
  <1>2. \A i \in DOMAIN blocks : blocks[i] \in Block
    BY <1>1
  <1>3. \A i \in DOMAIN blocks : blocks[i].left \in Nat
    BY <1>2 DEF Block
  <1>4. \A tx \in pool : tx.amount \in Nat
    BY <1>1 DEF Tx
  <1> QED
    BY <1>1, <1>3, <1>4 DEF Counted

\* The pending count is defined: fewer transactions wait than there are
\* candidates for the next nonce.
LEMMA PendingNonceDefined ==
    ASSUME NetworkTypes
    PROVE  /\ PendingNonce \in Nat /\ PendingNonce >= LatestNonce
           /\ \A tx \in pool : tx.nonce # PendingNonce
  <1> DEFINE k == Cardinality(pool)
             R == LatestNonce .. LatestNonce + k
             Free == {n \in R : \A tx \in pool : tx.nonce # n}
  <1>1. LatestNonce \in Nat
    BY TypesCount, BlocksForm
  <1>2. k \in Nat /\ IsFiniteSet(pool)
    BY FS_CardinalityType DEF NetworkTypes
  <1> HIDE DEF k
  <1>3. IsFiniteSet(R) /\ Cardinality(R) = k + 1 /\ R \subseteq Nat
    <2>1. LatestNonce \in Int /\ LatestNonce + k \in Int /\ ~(LatestNonce > LatestNonce + k)
      BY <1>1, <1>2
    <2>2. IsFiniteSet(R)
      BY <2>1, FS_Interval
    <2>3. \A a, b \in Int : Cardinality(a .. b) = IF a > b THEN 0 ELSE b - a + 1
      BY FS_Interval
    <2>4. Cardinality(R) = k + 1
      BY <1>1, <1>2, <2>1, <2>3
    <2> QED
      BY <1>1, <1>2, <2>2, <2>4
  <1>4. Free # {}
    <2> SUFFICES ASSUME \A n \in R : \E tx \in pool : tx.nonce = n PROVE FALSE
      OBVIOUS
    <2> DEFINE f == [n \in R |-> CHOOSE tx \in pool : tx.nonce = n]
    <2>1. f \in [R -> pool] /\ \A n \in R : f[n].nonce = n
      OBVIOUS
    <2> HIDE DEF f, R
    <2>2. Cardinality(pool) < Cardinality(R)
      BY <1>2, <1>3 DEF k
    <2>3. IsFiniteSet(pool) /\ IsFiniteSet(R) /\ f \in [R -> pool]
      BY <1>2, <1>3, <2>1
    <2>4. \E n, m \in R : n # m /\ f[n] = f[m]
      BY <2>2, <2>3, FS_PigeonHole
    <2> QED
      BY <2>1, <2>4
  <1>5. PICK n \in Free : \A m \in Free : n <= m
    BY <1>3, <1>4, SmallestOf
  <1>6. \A m \in LatestNonce .. n - 1 : \E tx \in pool : tx.nonce = m
    <2> SUFFICES ASSUME NEW m \in LatestNonce .. n - 1 PROVE \E tx \in pool : tx.nonce = m
      OBVIOUS
    <2>1. m \in R /\ ~(n <= m)
      BY <1>1, <1>2, <1>5
    <2>2. m \notin Free
      BY <1>5, <2>1
    <2> QED
      BY <2>1, <2>2
  <1>7. PendingNonce \in R /\ \A tx \in pool : tx.nonce # PendingNonce
    BY <1>5, <1>6 DEF PendingNonce, k
  <1>8. PendingNonce >= LatestNonce
    BY <1>1, <1>2, <1>7
  <1> QED
    BY <1>3, <1>7, <1>8

LEMMA TypesStart == NetworkInit => NetworkTypes
  BY FS_EmptySet DEF NetworkInit, NetworkTypes, NetworkTypeOK

LEMMA NetworkUnchanged ==
    ASSUME NetworkInv, NetworkTypes, UNCHANGED networkVars
    PROVE  NetworkInv' /\ Extended /\ NetworkTypes'
  <1>1. UNCHANGED blocks /\ UNCHANGED pool
    BY DEF networkVars
  <1>2. \A tx \in pool' : tx.amount \in Nat
    BY <1>1 DEF NetworkInv, Counted
  <1>3. NetworkTypes'
    BY <1>1 DEF NetworkTypes, NetworkTypeOK
  <1> QED
    BY <1>1, <1>2, <1>3, PoolStep

\* The pool and the blocks keep their types.
LEMMA BlockTypes ==
    ASSUME NetworkTypes, NEW tx \in Tx, NEW ok \in BOOLEAN, NEW left \in Nat,
           AddBlock(tx, ok, left), pool' \subseteq pool
    PROVE  NetworkTypes'
  <1>1. [tx |-> tx, ok |-> ok, left |-> left] \in Block
    BY DEF Block
  <1>2. blocks' \in Seq(Block)
    BY <1>1 DEF AddBlock, NetworkTypes, NetworkTypeOK
  <1>3. IsFiniteSet(pool')
    BY FS_Subset DEF NetworkTypes
  <1> QED
    BY <1>2, <1>3 DEF NetworkTypes, NetworkTypeOK

LEMMA PoolTypes ==
    ASSUME NetworkTypes, UNCHANGED blocks, NEW P \in SUBSET pool, NEW tx \in Tx,
           pool' = P \cup {tx}
    PROVE  NetworkTypes'
  <1>1. IsFiniteSet(P)
    BY FS_Subset DEF NetworkTypes
  <1>2. IsFiniteSet(pool')
    BY <1>1, FS_AddElement
  <1> QED
    BY <1>2 DEF NetworkTypes, NetworkTypeOK

LEMMA PooledKeepsTypes ==
    ASSUME NetworkTypes, NEW tx \in Tx, Pooled(tx)
    PROVE  NetworkTypes'
  BY PoolTypes DEF Pooled

LEMMA MineKeepsTypes ==
    ASSUME NetworkTypes, MineTx
    PROVE  NetworkTypes'
  <1>1. PICK tx \in pool, ok \in BOOLEAN :
            /\ ok => TransferWorks(tx.amount)
            /\ AddBlock(tx, ok, IF ok THEN Balance - tx.amount ELSE Balance)
            /\ pool' = pool \ {tx}
    BY DEF MineTx
  <1>2. Balance \in Nat /\ tx \in Tx /\ tx.amount \in Nat
    BY TypesCount, BlocksForm DEF Balance, NetworkTypes, NetworkTypeOK, Counted
  <1> DEFINE left == IF ok THEN Balance - tx.amount ELSE Balance
  <1>3. left \in Nat
    BY <1>1, <1>2 DEF TransferWorks
  <1> HIDE DEF left
  <1>4. AddBlock(tx, ok, left) /\ pool' \subseteq pool
    BY <1>1 DEF left
  <1> QED
    BY <1>2, <1>3, <1>4, BlockTypes

LEMMA EventKeepsTypes ==
    ASSUME NetworkTypes, NEW kind, NetworkEvent(kind)
    PROVE  NetworkTypes'
  <1>0. Balance \in Nat /\ EventAmount \in Nat /\ Others \in Tx
    BY TypesCount, BlocksForm, NetworkAssumption DEF Balance, Others, Tx
  <1>1. CASE AllowanceSpend
    <2>1. /\ Balance >= EventAmount /\ AddBlock(Others, TRUE, Balance - EventAmount)
          /\ UNCHANGED pool
      BY <1>1, Zenon DEF AllowanceSpend
    <2>2. Balance - EventAmount \in Nat
      BY <1>0, <2>1
    <2> QED
      BY <1>0, <2>1, <2>2, BlockTypes
  <1>2. CASE Incoming
    <2>1. AddBlock(Others, TRUE, Balance + EventAmount) /\ UNCHANGED pool
      BY <1>2, Zenon DEF Incoming
    <2>2. Balance + EventAmount \in Nat
      BY <1>0
    <2> QED
      BY <1>0, <2>1, <2>2, BlockTypes
  <1>3. CASE OwnTransfer
    <2>1. [nonce |-> PendingNonce, amount |-> EventAmount, own |-> TRUE,
           network |-> "policy"] \in Tx
      BY <1>0, PendingNonceDefined DEF Tx
    <2> QED
      BY <1>3, <2>1, PooledKeepsTypes DEF OwnTransfer
  <1>4. CASE Replace
    <2>1. PICK tx \in pool :
              /\ pool' = (pool \ {tx}) \cup {[tx EXCEPT !.amount = 0, !.own = TRUE]}
              /\ UNCHANGED blocks
      BY <1>4 DEF Replace
    <2>2. tx \in Tx
      BY DEF NetworkTypes, NetworkTypeOK
    <2>3. [tx EXCEPT !.amount = 0, !.own = TRUE] \in Tx
      BY <2>2 DEF Tx
    <2>4. pool \ {tx} \in SUBSET pool
      OBVIOUS
    <2> QED
      BY <2>1, <2>3, <2>4, PoolTypes
  <1>5. CASE Drop
    <2>1. UNCHANGED blocks /\ pool' \subseteq pool
      BY <1>5 DEF Drop
    <2>2. IsFiniteSet(pool')
      BY <2>1, FS_Subset DEF NetworkTypes
    <2> QED
      BY <2>1, <2>2 DEF NetworkTypes, NetworkTypeOK
  <1> QED
    BY <1>1, <1>2, <1>3, <1>4, <1>5 DEF NetworkEvent

-----------------------------------------------------------------------------
(* The pool. *)

\* The wallet's pending transactions have nonces of their own, none of them mined.
PoolApart ==
    /\ \A tx \in pool : tx.nonce >= LatestNonce
    /\ \A tx, ty \in pool : tx.nonce = ty.nonce => tx = ty

LEMMA PoolStartsApart == NetworkInit => PoolApart
  BY DEF NetworkInit, PoolApart

\* Blocks are added; a transaction leaves the pool for the one with its nonce.
LEMMA MineKeepsApart ==
    ASSUME NetworkTypes, PoolApart, MineTx
    PROVE  PoolApart'
  <1>1. PICK tx \in pool, ok \in BOOLEAN :
            /\ tx.nonce = LatestNonce
            /\ ok => TransferWorks(tx.amount)
            /\ AddBlock(tx, ok, IF ok THEN Balance - tx.amount ELSE Balance)
            /\ pool' = pool \ {tx}
    BY DEF MineTx
  <1> DEFINE left == IF ok THEN Balance - tx.amount ELSE Balance
  <1>2. /\ Counted /\ Balance \in Nat /\ LatestNonce \in Nat /\ IsFiniteSet(MinedNonces)
        /\ Len(blocks) \in Nat /\ MinedNonces \subseteq 1 .. Len(blocks)
        /\ \A p \in pool : p.nonce \in Nat /\ p.amount \in Nat
    BY TypesCount, BlocksForm DEF Balance, NetworkTypes, NetworkTypeOK, Tx
  <1>3. left \in Nat /\ AddBlock(tx, ok, left) /\ pool' \subseteq pool
    BY <1>1, <1>2 DEF TransferWorks
  <1> HIDE DEF left
  <1>4. MinedNonces' = MinedNonces \cup (IF tx # Others THEN {Len(blocks) + 1} ELSE {})
    BY <1>2, <1>3, BlockAdded
  <1>5. LatestNonce' \in Nat /\ LatestNonce' <= LatestNonce + 1
    <2>1. CASE tx # Others
      <3>1. MinedNonces' = MinedNonces \cup {Len(blocks) + 1}
        BY <1>4, <2>1
      <3>2. Len(blocks) + 1 \notin MinedNonces
        BY <1>2
      <3>3. LatestNonce' = LatestNonce + 1
        BY <1>2, <3>1, <3>2, FS_AddElement DEF LatestNonce
      <3> QED
        BY <1>2, <3>3
    <2>2. CASE tx = Others
      <3>1. MinedNonces' = MinedNonces
        BY <1>4, <2>2
      <3>2. LatestNonce' = LatestNonce
        BY <3>1 DEF LatestNonce
      <3> QED
        BY <1>2, <3>2
    <2> QED
      BY <2>1, <2>2
  <1>6. \A p \in pool' : p.nonce >= LatestNonce'
    BY <1>1, <1>2, <1>5 DEF PoolApart
  <1> QED
    BY <1>1, <1>6 DEF PoolApart

LEMMA OthersKeepApart ==
    ASSUME NetworkTypes, PoolApart, NEW left \in Nat, AddBlock(Others, TRUE, left),
           UNCHANGED pool
    PROVE  PoolApart'
  <1>1. MinedNonces' = MinedNonces
    BY TypesCount, BlockAdded
  <1> QED
    BY <1>1 DEF PoolApart, LatestNonce

LEMMA PooledKeepsApart ==
    ASSUME NetworkTypes, PoolApart, NEW tx, Takes(tx), Pooled(tx)
    PROVE  PoolApart'
  <1>1. LatestNonce' = LatestNonce
    BY DEF Pooled, LatestNonce, MinedNonces
  <1> QED
    BY <1>1 DEF Pooled, Takes, PoolApart

LEMMA EventKeepsApart ==
    ASSUME NetworkTypes, PoolApart, NEW kind, NetworkEvent(kind)
    PROVE  PoolApart'
  <1>0. Balance \in Nat /\ EventAmount \in Nat
    BY TypesCount, BlocksForm, NetworkAssumption DEF Balance
  <1>1. CASE AllowanceSpend
    <2>1. /\ Balance >= EventAmount /\ AddBlock(Others, TRUE, Balance - EventAmount)
          /\ UNCHANGED pool
      BY <1>1, Zenon DEF AllowanceSpend
    <2>2. Balance - EventAmount \in Nat
      BY <1>0, <2>1
    <2> QED
      BY <2>1, <2>2, OthersKeepApart
  <1>2. CASE Incoming
    <2>1. AddBlock(Others, TRUE, Balance + EventAmount) /\ UNCHANGED pool
      BY <1>2, Zenon DEF Incoming
    <2>2. Balance + EventAmount \in Nat
      BY <1>0
    <2> QED
      BY <2>1, <2>2, OthersKeepApart
  <1>3. CASE OwnTransfer
    <2> DEFINE tx == [nonce |-> PendingNonce, amount |-> EventAmount, own |-> TRUE,
                      network |-> "policy"]
    <2>1. Takes(tx) /\ Pooled(tx)
      BY <1>3, PendingNonceDefined DEF OwnTransfer, Takes
    <2> HIDE DEF tx
    <2> QED
      BY <2>1, PooledKeepsApart
  <1>4. CASE Replace
    <2>1. PICK tx \in pool :
              /\ pool' = (pool \ {tx}) \cup {[tx EXCEPT !.amount = 0, !.own = TRUE]}
              /\ UNCHANGED blocks
      BY <1>4 DEF Replace
    <2>2. tx \in Tx
      BY DEF NetworkTypes, NetworkTypeOK
    <2> DEFINE new == [tx EXCEPT !.amount = 0, !.own = TRUE]
    <2>3. new.nonce = tx.nonce
      BY <2>2 DEF Tx
    <2>4. LatestNonce' = LatestNonce
      BY <2>1 DEF LatestNonce, MinedNonces
    <2>5. pool' = (pool \ {tx}) \cup {new}
      BY <2>1
    <2> HIDE DEF new
    <2> QED
      BY <2>3, <2>4, <2>5 DEF PoolApart
  <1>5. CASE Drop
    <2>1. pool' \subseteq pool /\ LatestNonce' = LatestNonce
      BY <1>5 DEF Drop, LatestNonce, MinedNonces
    <2> QED
      BY <2>1 DEF PoolApart
  <1> QED
    BY <1>1, <1>2, <1>3, <1>4, <1>5 DEF NetworkEvent

LEMMA UnchangedKeepsApart ==
    ASSUME PoolApart, UNCHANGED networkVars
    PROVE  PoolApart'
  BY DEF PoolApart, networkVars, LatestNonce, MinedNonces

\* A transaction in the pool was not mined, nor was another with its nonce.
LEMMA PendingNotMined ==
    ASSUME NetworkInv, PoolApart, NEW tx \in pool, NEW i \in MinedNonces
    PROVE  blocks[i].tx.nonce # tx.nonce
  <1>1. LatestNonce \in Nat
    BY BlocksForm DEF NetworkInv
  <1> QED
    BY <1>1 DEF NetworkInv, NoncesOnce, PoolApart

=============================================================================
