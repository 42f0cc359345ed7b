--------------------------- MODULE PublicNetwork ---------------------------
(***************************************************************************)
(* The public network behind MetaMask and the Agent Wallet, as far as the  *)
(* two execution paths read it: blocks, the guarded wallet's token balance *)
(* and nonce, and a pool of transactions that may be mined later, be       *)
(* replaced, or never be mined.  The network and the wallet are not part   *)
(* of the repository: they are modelled from how ui/app.js and             *)
(* chain/src/agent-wallet-*.ts use them.                                   *)
(*                                                                         *)
(* A block holds one transaction that matters.  A transaction hash stands  *)
(* for the transaction.                                                    *)
(***************************************************************************)
EXTENDS Integers, Sequences, FiniteSets

CONSTANTS
    StartBalance,   \* what the guarded wallet holds at first
    EventAmount,    \* how many tokens move when somebody else moves them
    MaxBalance      \* bound: the balances considered

ASSUME NetworkAssumption ==
    /\ MaxBalance \in Nat
    /\ StartBalance \in 0 .. MaxBalance /\ EventAmount \in 1 .. MaxBalance

VARIABLES
    blocks,     \* [tx, ok, left]: left is the wallet's balance after the block
    pool        \* signed transactions of the wallet that are not mined yet

networkVars == <<blocks, pool>>

\* An ERC-20 transfer signed by the wallet: own tells that the user made it in
\* the wallet itself, past the guarded paths.
Tx == [nonce : Nat, amount : Nat, own : BOOLEAN, network : {"policy", "other"}]

\* A block in which somebody else moved the wallet's tokens.
Others == [nonce |-> 0, amount |-> 0, own |-> FALSE, network |-> "other"]

Block == [tx : Tx, ok : BOOLEAN, left : Nat]

-----------------------------------------------------------------------------
(* What eth_call and eth_getTransactionCount answer. *)

BalanceAt(i) == IF i = 0 THEN StartBalance ELSE blocks[i].left
Balance == BalanceAt(Len(blocks))

MinedNonces == {i \in DOMAIN blocks : blocks[i].tx # Others}
LatestNonce == Cardinality(MinedNonces)

\* The pending count includes the transactions that can follow at once.
PendingNonce ==
    CHOOSE n \in LatestNonce .. LatestNonce + Cardinality(pool) :
        /\ \A tx \in pool : tx.nonce # n
        /\ \A m \in LatestNonce .. n - 1 : \E tx \in pool : tx.nonce = m

\* A token transfer that is called now returns true.
TransferWorks(amount) == amount <= Balance

BlocksOf(tx) == {i \in DOMAIN blocks : blocks[i].tx = tx}

-----------------------------------------------------------------------------
(* What happens there. *)

AddBlock(tx, ok, left) ==
    blocks' = Append(blocks, [tx |-> tx, ok |-> ok, left |-> left])

\* A node takes a transaction whose nonce is neither used nor in the pool.
Takes(tx) ==
    /\ tx.nonce >= LatestNonce
    /\ \A p \in pool : p.nonce # tx.nonce
Pooled(tx) == pool' = pool \cup {tx} /\ UNCHANGED blocks

\* A transaction is mined; it fails without enough tokens, or gas.
MineTx ==
    \E tx \in pool, ok \in BOOLEAN :
        /\ tx.nonce = LatestNonce
        /\ ok => TransferWorks(tx.amount)
        /\ AddBlock(tx, ok, IF ok THEN Balance - tx.amount ELSE Balance)
        /\ pool' = pool \ {tx}

\* The spender of an allowance takes tokens; somebody sends tokens.
AllowanceSpend ==
    /\ Balance >= EventAmount
    /\ AddBlock(Others, TRUE, Balance - EventAmount)
    /\ UNCHANGED pool
Incoming ==
    /\ Balance + EventAmount <= MaxBalance
    /\ AddBlock(Others, TRUE, Balance + EventAmount)
    /\ UNCHANGED pool

\* The user sends tokens from the wallet itself.
OwnTransfer ==
    Pooled([nonce |-> PendingNonce, amount |-> EventAmount, own |-> TRUE,
            network |-> "policy"])

\* The user cancels a pending transaction by one with the same nonce and a
\* higher fee, or the pool forgets it.
Replace ==
    \E tx \in pool :
        /\ pool' = (pool \ {tx})
                     \cup {[tx EXCEPT !.amount = 0, !.own = TRUE]}
        /\ UNCHANGED blocks
Drop == (\E tx \in pool : pool' = pool \ {tx}) /\ UNCHANGED blocks

NetworkEvent(kind) ==
    \/ kind = "spend" /\ AllowanceSpend
    \/ kind = "incoming" /\ Incoming
    \/ kind = "own" /\ OwnTransfer
    \/ kind = "replace" /\ Replace
    \/ kind = "drop" /\ Drop

NetworkInit == blocks = <<>> /\ pool = {}

NetworkTypeOK ==
    /\ blocks \in Seq(Block)
    /\ pool \subseteq Tx

=============================================================================
