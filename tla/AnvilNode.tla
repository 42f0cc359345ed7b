----------------------------- MODULE AnvilNode -----------------------------
(***************************************************************************)
(* The local Anvil node the controlled runtime talks to, as far as its     *)
(* JSON-RPC answers matter: an automining chain with one guarded wallet,   *)
(* numbered state snapshots, and a queue for transactions whose nonce is   *)
(* ahead.  The node is not part of the repository: it is modelled from how *)
(* core/rpc_simulator.py and core/execution_service.py use it.             *)
(*                                                                         *)
(* A block hash is content-addressed, so it is modelled by the sequence of *)
(* block bodies up to that block.  Mining the same transaction again after *)
(* a revert may give the same hash or another one: the stamp decides.      *)
(***************************************************************************)
EXTENDS FloorEvaluator, Sequences

CONSTANTS
    Wallet,         \* the wallet the policies are about
    Token,          \* the ERC-20 token the policies are about
    Recipients,     \* other token holders
    NodeChain,      \* the chain id the node reports
    Stamps,         \* block timestamps a re-mined block can carry
    TransferGas,    \* the gas an ERC-20 transfer needs
    StartBalance    \* the wallet's and the recipients' first balance

ASSUME NodeAssumption ==
    /\ Wallet \notin Recipients
    /\ Stamps # {}
    /\ TransferGas \in UInt \ {0}
    /\ StartBalance \in UInt

VARIABLES
    chain,      \* the canonical chain and the state at its head
    snapshots,  \* live snapshots: [id, chain]
    nextId,     \* the id the next evm_snapshot returns
    queue       \* accepted transactions whose nonce is not due yet

nodeVars == <<chain, snapshots, nextId, queue>>

Account == {Wallet} \cup Recipients

\* Who made the node mine a block, kept for the properties only: run is the
\* execution it belongs to, floor the floor that execution was approved under,
\* drained that an allowance spend hit the wallet behind the gate's last look.
Origin == [kind : {"simulation", "broadcast", "external"}, run : Nat,
           floor : Nat, drained : BOOLEAN]
External == [kind |-> "external", run |-> 0, floor |-> 0, drained |-> FALSE]

BlockBody == [tx : Transaction, ok : BOOLEAN, stamp : Stamps]

\* balances is the ERC-20 balance per holder, nonce the wallet's next nonce,
\* left what the wallet held after each block.
ChainState == [blocks : Seq(BlockBody), by : Seq(Origin), left : Seq(Nat),
               balances : [Account -> Nat], nonce : Nat]

Genesis == [blocks |-> <<>>, by |-> <<>>, left |-> <<>>,
            balances |-> [a \in Account |-> StartBalance], nonce |-> 0]

-----------------------------------------------------------------------------
(* What mining one transaction does. *)

\* transfer moves the sender's tokens, any other call here is a transferFrom
\* that spends the wallet's allowance.
Payer(tx) == IF tx.data.selector = "transfer" THEN tx.fromAddress ELSE Wallet

Executes(c, tx) ==
    /\ tx.gasLimit >= TransferGas
    /\ tx.data.amount <= c.balances[Payer(tx)]

Moved(balances, from, to, amount) ==
    [a \in Account |->
        balances[a] - (IF a = from THEN amount ELSE 0)
                    + (IF a = to THEN amount ELSE 0)]

Mined(c, tx, origin, stamp) ==
    LET ok == Executes(c, tx)
        after == IF ok
                 THEN Moved(c.balances, Payer(tx), tx.data.recipient, tx.data.amount)
                 ELSE c.balances
    IN  [blocks |-> Append(c.blocks, [tx |-> tx, ok |-> ok, stamp |-> stamp]),
         by |-> Append(c.by, origin),
         left |-> Append(c.left, after[Wallet]),
         balances |-> after,
         nonce |-> IF tx.fromAddress = Wallet THEN c.nonce + 1 ELSE c.nonce]

-----------------------------------------------------------------------------
(* The JSON-RPC calls that change the node. *)

NodeInit ==
    /\ chain = Genesis
    /\ snapshots = {}
    /\ nextId = 0
    /\ queue = {}

\* eth_sendTransaction for the wallet: refused when the nonce is used, mined at
\* once when it is due, queued when it is ahead.
Refuses(tx) == tx.nonce < chain.nonce \/ \E q \in queue : q.tx = tx

eth_sendTransaction(tx, origin) ==
    /\ ~Refuses(tx)
    /\ \/ /\ tx.nonce = chain.nonce
          /\ \E s \in Stamps : chain' = Mined(chain, tx, origin, s)
          /\ UNCHANGED queue
       \/ /\ tx.nonce > chain.nonce
          /\ queue' = queue \cup {[tx |-> tx, origin |-> origin]}
          /\ UNCHANGED chain
    /\ UNCHANGED <<snapshots, nextId>>

\* A queued transaction is mined once its nonce is due.
MineQueued ==
    \E q \in queue :
        /\ q.tx.nonce = chain.nonce
        /\ \E s \in Stamps : chain' = Mined(chain, q.tx, q.origin, s)
        /\ queue' = queue \ {q}
        /\ UNCHANGED <<snapshots, nextId>>

evm_snapshot ==
    /\ snapshots' = snapshots \cup {[id |-> nextId, chain |-> chain]}
    /\ nextId' = nextId + 1
    /\ UNCHANGED <<chain, queue>>

Live(id) == \E s \in snapshots : s.id = id

\* evm_revert on a live snapshot restores it and forgets it and every later
\* one; on a forgotten snapshot it answers false and changes nothing.
evm_revert(id) ==
    /\ \E s \in snapshots : s.id = id /\ chain' = s.chain
    /\ snapshots' = {s \in snapshots : s.id < id}
    /\ UNCHANGED <<nextId, queue>>

\* eth_getTransactionReceipt: a transaction hash is determined by its fields.
Receipts(tx) == {i \in DOMAIN chain.blocks : chain.blocks[i].tx = tx}

=============================================================================
