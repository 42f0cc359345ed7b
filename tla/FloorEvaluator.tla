--------------------------- MODULE FloorEvaluator ---------------------------
(***************************************************************************)
(* The pure part of the controlled runtime: how simulation evidence        *)
(* becomes a candidate (core/candidate_binding.py) and how a candidate is  *)
(* judged against an approval (core/evaluator.py).                         *)
(*                                                                         *)
(* A canonical SHA-256 is injective as far as the program is concerned, so *)
(* the hash of a value is modelled by the value itself.  Addresses are     *)
(* values that were already lower-cased.  The history ledger is left out:  *)
(* every caller in the runtime passes the empty one.                       *)
(***************************************************************************)
EXTENDS Integers

CONSTANTS
    Address,    \* 20-byte addresses, after lower-casing
    Chain,      \* chain ids
    Block,      \* block identities: the hash stands for number and hash
    MaxUint,    \* the largest amount, balance, nonce or gas (UINT256_MAX)
    Proposal    \* canonical hashes of the proposals a user may approve

ASSUME MaxUintAssumption == MaxUint \in Nat \ {0}

UInt == 0 .. MaxUint

-----------------------------------------------------------------------------
(* The contracts of core/models.py. *)

Policy == [chainId : Chain, walletAddress : Address, tokenAddress : Address,
           assetBalanceFloor : UInt]

\* An approval binds one exact proposal and, through it, one policy.
Approval == [proposalSha256 : Proposal, policy : Policy]

ChainContext == [chainId : Chain, block : Block, walletAddress : Address,
                 senderNonce : UInt, tokenAddress : Address,
                 assetBalance : UInt]

\* transfer(address,uint256) calldata, or calldata that does not decode as one.
TransferCall(to, amount) ==
    [selector |-> "transfer", recipient |-> to, amount |-> amount]
CallData == [selector : {"transfer", "other"}, recipient : Address, amount : UInt]

Transaction == [chainId : Chain, fromAddress : Address, toAddress : Address,
                nonce : UInt, gasLimit : UInt, data : CallData]

Simulation == [status : {"success", "reverted", "unknown"}, chainId : Chain,
               tokenAddress : Address, senderAddress : Address,
               recipientAddress : Address, transferAmount : UInt,
               senderNonce : UInt, gasLimit : UInt, gasUsed : UInt,
               beforeAssetBalance : UInt, afterAssetBalance : UInt,
               beforeRecipientBalance : UInt, afterRecipientBalance : UInt]

\* The id of a candidate is the hash of its execution plan; gas 0: not supplied.
CandidateId == [approval : Approval, recipient : Address, amount : UInt, gas : UInt]

Candidate == [candidateId : CandidateId,
              approvalSha256 : Approval, policySha256 : Policy,
              context : ChainContext, transaction : Transaction,
              simulation : Simulation]

\* The validators of Simulation, Erc20TransferTransaction and
\* ExecutionCandidate: no candidate that fails them can be built.
WellFormed(c) ==
    /\ c.transaction.gasLimit > 0
    /\ c.simulation.gasUsed \in 1 .. c.simulation.gasLimit
    /\ c.transaction.chainId = c.context.chainId
    /\ c.transaction.fromAddress = c.context.walletAddress
    /\ c.transaction.nonce = c.context.senderNonce

-----------------------------------------------------------------------------
(* core/candidate_binding.py *)

\* What ControlledErc20Simulator observed for one request.
Evidence == [request : [token : Address, sender : Address,
                        recipient : Address, amount : UInt],
             chainId : Chain, block : Block, senderNonce : UInt,
             transaction : Transaction, gasLimit : UInt, gasUsed : UInt,
             senderBefore : UInt, senderAfter : UInt,
             recipientBefore : UInt, recipientAfter : UInt,
             reverted : BOOLEAN]

verify_evidence(e) ==
    LET r == e.request
        t == e.transaction
    IN  /\ e.reverted
        /\ r.sender # r.recipient
        /\ t.fromAddress = r.sender /\ t.toAddress = r.token
        /\ t.data = TransferCall(r.recipient, r.amount)
        /\ t.nonce = e.senderNonce
        /\ t.gasLimit = e.gasLimit
        /\ e.gasUsed \in 1 .. e.gasLimit
        /\ e.senderBefore - e.senderAfter = r.amount
        /\ e.recipientAfter - e.recipientBefore = r.amount

chain_context_from_evidence(e) ==
    [chainId |-> e.chainId, block |-> e.block,
     walletAddress |-> e.request.sender, senderNonce |-> e.senderNonce,
     tokenAddress |-> e.request.token, assetBalance |-> e.senderBefore]

\* Faulty: the amount is added to the sender's balance.
simulation_from_evidence_WrongSign(e) ==
    [status |-> "success", chainId |-> e.chainId,
     tokenAddress |-> e.request.token, senderAddress |-> e.request.sender,
     recipientAddress |-> e.request.recipient,
     transferAmount |-> e.request.amount, senderNonce |-> e.senderNonce,
     gasLimit |-> e.gasLimit, gasUsed |-> e.gasUsed,
     beforeAssetBalance |-> e.senderBefore,
     afterAssetBalance |-> e.senderBefore + e.request.amount,
     beforeRecipientBalance |-> e.recipientBefore,
     afterRecipientBalance |-> e.recipientAfter]

simulation_from_evidence(e) ==
    [status |-> "success", chainId |-> e.chainId,
     tokenAddress |-> e.request.token, senderAddress |-> e.request.sender,
     recipientAddress |-> e.request.recipient,
     transferAmount |-> e.request.amount, senderNonce |-> e.senderNonce,
     gasLimit |-> e.gasLimit, gasUsed |-> e.gasUsed,
     beforeAssetBalance |-> e.senderBefore, afterAssetBalance |-> e.senderAfter,
     beforeRecipientBalance |-> e.recipientBefore,
     afterRecipientBalance |-> e.recipientAfter]

transaction_from_evidence(e) ==
    [chainId |-> e.chainId, fromAddress |-> e.request.sender,
     toAddress |-> e.request.token, nonce |-> e.senderNonce,
     gasLimit |-> e.gasLimit, data |-> e.transaction.data]

\* Defined only for evidence that passes verify_evidence.
candidate_from_evidence(a, e, id) ==
    [candidateId |-> id, approvalSha256 |-> a, policySha256 |-> a.policy,
     context |-> chain_context_from_evidence(e),
     transaction |-> transaction_from_evidence(e),
     simulation |-> simulation_from_evidence(e)]

-----------------------------------------------------------------------------
(* core/evaluator.py *)

decode_erc20_transfer(data) ==
    IF data.selector = "transfer"
    THEN {[recipient |-> data.recipient, amount |-> data.amount]}
    ELSE {}

\* The transaction of c is not the transfer that was simulated.
NotAsSimulated(c) ==
    LET s == c.simulation
        t == c.transaction
    IN  [SIMULATION_NOT_SUCCESSFUL |-> s.status # "success",
         SIMULATION_CHAIN_MISMATCH |-> s.chainId # c.context.chainId,
         SIMULATION_TOKEN_MISMATCH |-> s.tokenAddress # t.toAddress,
         SIMULATION_SENDER_MISMATCH |-> s.senderAddress # t.fromAddress,
         SIMULATION_NONCE_MISMATCH |-> s.senderNonce # t.nonce,
         SIMULATION_GAS_LIMIT_MISMATCH |-> s.gasLimit # t.gasLimit,
         SIMULATION_SELF_TRANSFER |-> s.senderAddress = s.recipientAddress,
         SIMULATION_RECIPIENT_MISMATCH |->
             \E d \in decode_erc20_transfer(t.data) : d.recipient # s.recipientAddress,
         SIMULATION_AMOUNT_MISMATCH |->
             \E d \in decode_erc20_transfer(t.data) : d.amount # s.transferAmount]

\* The simulated balances disagree with the transfer or with the context.
NotSelfConsistent(c) ==
    LET s == c.simulation
    IN  [SIMULATION_BEFORE_BALANCE_MISMATCH |->
             s.beforeAssetBalance # c.context.assetBalance,
         SIMULATION_PREDICTED_BALANCE_MISMATCH |->
             s.beforeAssetBalance - s.afterAssetBalance # s.transferAmount,
         SIMULATION_RECIPIENT_BALANCE_MISMATCH |->
             s.afterRecipientBalance - s.beforeRecipientBalance # s.transferAmount]

\* The candidate is not one the approved policy is about, or breaks it.
NotUnderPolicy(a, c) ==
    LET t == c.transaction
    IN  [APPROVAL_HASH_MISMATCH |-> c.approvalSha256 # a,
         POLICY_HASH_MISMATCH |-> c.policySha256 # a.policy,
         POLICY_CHAIN_MISMATCH |-> c.context.chainId # a.policy.chainId,
         POLICY_WALLET_MISMATCH |-> c.context.walletAddress # a.policy.walletAddress,
         POLICY_TOKEN_MISMATCH |-> c.context.tokenAddress # a.policy.tokenAddress,
         TRANSACTION_TOKEN_MISMATCH |-> t.toAddress # a.policy.tokenAddress,
         INVALID_ERC20_TRANSFER_CALLDATA |-> decode_erc20_transfer(t.data) = {},
         ZERO_TRANSFER_AMOUNT |->
             \E d \in decode_erc20_transfer(t.data) : d.amount = 0,
         ASSET_BALANCE_FLOOR_VIOLATION |->
             c.simulation.afterAssetBalance < a.policy.assetBalanceFloor]

Raised(checks) == {code \in DOMAIN checks : checks[code]}

\* Faulty: the predicted balance alone decides.
reasonCodes_WithoutSimulation(a, c) ==
    Raised(NotUnderPolicy(a, c)) \cup Raised(NotSelfConsistent(c))

\* Faulty: the floor is not compared.
reasonCodes_WithoutFloor(a, c) ==
    (Raised(NotUnderPolicy(a, c)) \ {"ASSET_BALANCE_FLOOR_VIOLATION"})
        \cup Raised(NotAsSimulated(c)) \cup Raised(NotSelfConsistent(c))

\* Faulty: a balance at the floor is refused.
reasonCodes_AboveFloor(a, c) ==
    Raised(NotUnderPolicy(a, c)) \cup Raised(NotAsSimulated(c))
        \cup Raised(NotSelfConsistent(c))
        \cup Raised([ASSET_BALANCE_FLOOR_VIOLATION |->
                        c.simulation.afterAssetBalance <= a.policy.assetBalanceFloor])

reasonCodes(a, c) ==
    Raised(NotUnderPolicy(a, c)) \cup Raised(NotAsSimulated(c))
        \cup Raised(NotSelfConsistent(c))

accepted(a, c) == reasonCodes(a, c) = {}

\* The FinalDecision: its hash determines, and is determined by, the approval
\* and the candidate (the verdict is a function of the two).
evaluate(a, c) ==
    [approvalSha256 |-> a, candidateSha256 |-> c, accepted |-> accepted(a, c)]

Decision == [approvalSha256 : Approval, candidateSha256 : Candidate,
             accepted : BOOLEAN]

-----------------------------------------------------------------------------
\* What an accepted candidate promises: the calldata moves a positive amount
\* of the approved token out of the approved wallet, and the captured balance
\* less that amount is not below the approved floor.
KeepsFloor(a, c) ==
    LET t == c.transaction
    IN  /\ t.toAddress = a.policy.tokenAddress
        /\ t.fromAddress = a.policy.walletAddress
        /\ t.chainId = a.policy.chainId
        /\ t.data.selector = "transfer"
        /\ t.data.amount > 0
        /\ c.context.assetBalance - t.data.amount >= a.policy.assetBalanceFloor

=============================================================================
