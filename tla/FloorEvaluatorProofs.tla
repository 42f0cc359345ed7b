------------------------ MODULE FloorEvaluatorProofs ------------------------
(***************************************************************************)
(* What an accepted verdict of core/evaluator.py guarantees, for every     *)
(* address, chain, amount and gas limit.                                   *)
(***************************************************************************)
EXTENDS FloorEvaluator, TLAPS

\* An empty set of raised codes means that no check fired.
LEMMA NoneRaised ==
    ASSUME NEW a, NEW c, accepted(a, c)
    PROVE  /\ \A k \in DOMAIN NotUnderPolicy(a, c) : ~NotUnderPolicy(a, c)[k]
           /\ \A k \in DOMAIN NotAsSimulated(c) : ~NotAsSimulated(c)[k]
           /\ \A k \in DOMAIN NotSelfConsistent(c) : ~NotSelfConsistent(c)[k]
  BY DEF accepted, reasonCodes, Raised

\* The checks of NotUnderPolicy, one by one.
LEMMA UnderPolicy ==
    ASSUME NEW a, NEW c, accepted(a, c)
    PROVE  /\ c.context.chainId = a.policy.chainId
           /\ c.context.walletAddress = a.policy.walletAddress
           /\ c.transaction.toAddress = a.policy.tokenAddress
           /\ c.transaction.data.selector = "transfer"
           /\ c.transaction.data.amount # 0
           /\ ~(c.simulation.afterAssetBalance < a.policy.assetBalanceFloor)
  <1> DEFINE checks == NotUnderPolicy(a, c)
  <1>1. \A k \in DOMAIN checks : ~checks[k]
    BY NoneRaised
  <1>2. DOMAIN checks =
            {"APPROVAL_HASH_MISMATCH", "POLICY_HASH_MISMATCH",
             "POLICY_CHAIN_MISMATCH", "POLICY_WALLET_MISMATCH",
             "POLICY_TOKEN_MISMATCH", "TRANSACTION_TOKEN_MISMATCH",
             "INVALID_ERC20_TRANSFER_CALLDATA", "ZERO_TRANSFER_AMOUNT",
             "ASSET_BALANCE_FLOOR_VIOLATION"}
    BY DEF NotUnderPolicy
  <1>3. /\ ~checks.POLICY_CHAIN_MISMATCH
        /\ ~checks.POLICY_WALLET_MISMATCH
        /\ ~checks.TRANSACTION_TOKEN_MISMATCH
        /\ ~checks.INVALID_ERC20_TRANSFER_CALLDATA
        /\ ~checks.ZERO_TRANSFER_AMOUNT
        /\ ~checks.ASSET_BALANCE_FLOOR_VIOLATION
    BY <1>1, <1>2
  <1>4. c.transaction.data.selector = "transfer"
    BY <1>3 DEF NotUnderPolicy, decode_erc20_transfer
  <1> QED
    BY <1>3, <1>4 DEF NotUnderPolicy, decode_erc20_transfer

\* The checks of NotAsSimulated that tie the calldata to the simulation.
LEMMA AsSimulated ==
    ASSUME NEW a, NEW c, accepted(a, c)
    PROVE  /\ c.simulation.chainId = c.context.chainId
           /\ c.simulation.tokenAddress = c.transaction.toAddress
           /\ c.simulation.senderAddress = c.transaction.fromAddress
           /\ c.simulation.senderNonce = c.transaction.nonce
           /\ c.simulation.gasLimit = c.transaction.gasLimit
           /\ c.simulation.recipientAddress = c.transaction.data.recipient
           /\ c.simulation.transferAmount = c.transaction.data.amount
  <1> DEFINE checks == NotAsSimulated(c)
  <1>1. \A k \in DOMAIN checks : ~checks[k]
    BY NoneRaised
  <1>2. DOMAIN checks =
            {"SIMULATION_NOT_SUCCESSFUL", "SIMULATION_CHAIN_MISMATCH",
             "SIMULATION_TOKEN_MISMATCH", "SIMULATION_SENDER_MISMATCH",
             "SIMULATION_NONCE_MISMATCH", "SIMULATION_GAS_LIMIT_MISMATCH",
             "SIMULATION_SELF_TRANSFER", "SIMULATION_RECIPIENT_MISMATCH",
             "SIMULATION_AMOUNT_MISMATCH"}
    BY DEF NotAsSimulated
  <1>3. /\ ~checks.SIMULATION_CHAIN_MISMATCH
        /\ ~checks.SIMULATION_TOKEN_MISMATCH
        /\ ~checks.SIMULATION_SENDER_MISMATCH
        /\ ~checks.SIMULATION_NONCE_MISMATCH
        /\ ~checks.SIMULATION_GAS_LIMIT_MISMATCH
        /\ ~checks.SIMULATION_RECIPIENT_MISMATCH
        /\ ~checks.SIMULATION_AMOUNT_MISMATCH
    BY <1>1, <1>2
  <1>4. c.transaction.data.selector = "transfer"
    BY UnderPolicy
  <1> QED
    BY <1>3, <1>4 DEF NotAsSimulated, decode_erc20_transfer

\* The checks of NotSelfConsistent on the sender's balance.
LEMMA SelfConsistent ==
    ASSUME NEW a, NEW c, accepted(a, c)
    PROVE  /\ c.simulation.beforeAssetBalance = c.context.assetBalance
           /\ c.simulation.beforeAssetBalance - c.simulation.afterAssetBalance
                  = c.simulation.transferAmount
  <1> DEFINE checks == NotSelfConsistent(c)
  <1>1. \A k \in DOMAIN checks : ~checks[k]
    BY NoneRaised
  <1>2. /\ "SIMULATION_BEFORE_BALANCE_MISMATCH" \in DOMAIN checks
        /\ "SIMULATION_PREDICTED_BALANCE_MISMATCH" \in DOMAIN checks
    BY DEF NotSelfConsistent
  <1>3. /\ ~checks.SIMULATION_BEFORE_BALANCE_MISMATCH
        /\ ~checks.SIMULATION_PREDICTED_BALANCE_MISMATCH
    BY <1>1, <1>2
  <1> QED
    BY <1>3 DEF NotSelfConsistent

\* The fields of a candidate the arithmetic below needs.
LEMMA CandidateNumbers ==
    ASSUME NEW a \in Approval, NEW c \in Candidate
    PROVE  /\ c.context.assetBalance \in Nat
           /\ c.simulation.beforeAssetBalance \in Nat
           /\ c.simulation.afterAssetBalance \in Nat
           /\ c.simulation.transferAmount \in Nat
           /\ c.transaction.data.amount \in Nat
           /\ a.policy.assetBalanceFloor \in Nat
  BY MaxUintAssumption
     DEF Candidate, ChainContext, Simulation, Transaction, CallData, Approval,
         Policy, UInt

\* An accepted candidate keeps the approved floor: evaluate never compares the
\* calldata with the floor directly, it follows through the simulation
\* (core/evaluator.py:66-96 with the validators of core/models.py:392-404).
THEOREM AcceptedCandidateKeepsFloor ==
    ASSUME NEW a \in Approval, NEW c \in Candidate,
           WellFormed(c), accepted(a, c)
    PROVE  KeepsFloor(a, c)
  <1>1. /\ c.transaction.fromAddress = c.context.walletAddress
        /\ c.transaction.chainId = c.context.chainId
    BY DEF WellFormed
  <1>2. c.context.assetBalance - c.transaction.data.amount
            = c.simulation.afterAssetBalance
    BY AsSimulated, SelfConsistent, CandidateNumbers
  <1>3. c.context.assetBalance - c.transaction.data.amount
            >= a.policy.assetBalanceFloor
    BY <1>2, UnderPolicy, CandidateNumbers
  <1>4. c.transaction.data.amount > 0
    BY UnderPolicy, CandidateNumbers
  <1> QED
    BY <1>1, <1>3, <1>4, UnderPolicy DEF KeepsFloor

\* The candidate Erc20ExecutionService.run builds from evidence keeps the floor
\* once it is accepted.  The nonces and hashes in it may be anything, only the
\* amounts have to be numbers (core/execution_service.py:154-161).
LEMMA AcceptedEvidenceKeepsFloor ==
    ASSUME NEW a, NEW e, NEW id, NEW c,
           c = candidate_from_evidence(a, e, id),
           a.policy.assetBalanceFloor \in Int,
           e.senderBefore \in Int, e.senderAfter \in Int,
           e.transaction.data.amount \in Nat,
           e.request.amount = e.transaction.data.amount,
           accepted(a, c)
    PROVE  KeepsFloor(a, c)
  <1>1. /\ c.transaction.fromAddress = c.context.walletAddress
        /\ c.transaction.chainId = c.context.chainId
        /\ c.transaction.data.amount = e.transaction.data.amount
        /\ c.context.assetBalance = e.senderBefore
        /\ c.simulation.afterAssetBalance = e.senderAfter
        /\ c.simulation.beforeAssetBalance = e.senderBefore
        /\ c.simulation.transferAmount = e.transaction.data.amount
    BY DEF candidate_from_evidence, chain_context_from_evidence,
       transaction_from_evidence, simulation_from_evidence
  <1>2. c.context.assetBalance - c.transaction.data.amount
            >= a.policy.assetBalanceFloor
    BY <1>1, UnderPolicy, SelfConsistent
  <1>3. c.transaction.data.amount > 0
    BY <1>1, UnderPolicy
  <1> QED
    BY <1>1, <1>2, <1>3, UnderPolicy DEF KeepsFloor

\* Two accepted candidates under one approval that carry the same simulation
\* carry the same transaction: nothing about the broadcast is left open.
THEOREM SimulationPinsTransaction ==
    ASSUME NEW a \in Approval, NEW b \in Approval,
           NEW c \in Candidate, NEW d \in Candidate,
           WellFormed(c), WellFormed(d),
           accepted(a, c), accepted(b, d), c.simulation = d.simulation
    PROVE  c.transaction = d.transaction
  <1>1. /\ c.transaction.chainId = d.transaction.chainId
        /\ c.transaction.fromAddress = d.transaction.fromAddress
        /\ c.transaction.toAddress = d.transaction.toAddress
        /\ c.transaction.nonce = d.transaction.nonce
        /\ c.transaction.gasLimit = d.transaction.gasLimit
    BY AsSimulated DEF WellFormed
  <1>2. /\ c.transaction.data.selector = d.transaction.data.selector
        /\ c.transaction.data.recipient = d.transaction.data.recipient
        /\ c.transaction.data.amount = d.transaction.data.amount
    BY AsSimulated, UnderPolicy
  <1>3. /\ c.transaction \in Transaction /\ d.transaction \in Transaction
        /\ c.transaction.data \in CallData /\ d.transaction.data \in CallData
    BY DEF Candidate, Transaction
  <1>4. c.transaction.data = d.transaction.data
    BY <1>2, <1>3 DEF CallData
  <1> QED
    BY <1>1, <1>3, <1>4 DEF Transaction

\* Evidence that binds makes a well-formed candidate.
LEMMA BoundCandidate ==
    ASSUME NEW a \in Approval, NEW e \in Evidence, NEW id \in CandidateId, verify_evidence(e),
           e.transaction.gasLimit = e.gasLimit
    PROVE  /\ candidate_from_evidence(a, e, id) \in Candidate
           /\ WellFormed(candidate_from_evidence(a, e, id))
  <1> DEFINE c == candidate_from_evidence(a, e, id)
  <1>1. /\ e.gasLimit \in UInt /\ e.gasUsed \in UInt /\ e.senderNonce \in UInt
        /\ e.senderBefore \in UInt /\ e.senderAfter \in UInt
        /\ e.recipientBefore \in UInt /\ e.recipientAfter \in UInt
        /\ e.chainId \in Chain /\ e.block \in Block
        /\ e.request.token \in Address /\ e.request.sender \in Address
        /\ e.request.recipient \in Address /\ e.request.amount \in UInt
        /\ e.transaction.data \in CallData
        /\ a.policy \in Policy
    BY DEF Evidence, Transaction, Approval
  <1>2. c.context \in ChainContext
    BY <1>1 DEF ChainContext, candidate_from_evidence, chain_context_from_evidence
  <1>3. c.transaction \in Transaction
    BY <1>1 DEF Transaction, candidate_from_evidence, transaction_from_evidence
  <1>4. c.simulation \in Simulation
    BY <1>1 DEF Simulation, candidate_from_evidence, simulation_from_evidence
  <1>5. c \in Candidate
    <2>1. c = [candidateId |-> id, approvalSha256 |-> a, policySha256 |-> a.policy,
               context |-> c.context, transaction |-> c.transaction,
               simulation |-> c.simulation]
      BY DEF candidate_from_evidence
    <2> HIDE DEF c
    <2> QED
      BY <1>1, <1>2, <1>3, <1>4, <2>1 DEF Candidate
  <1>6. e.gasUsed \in 1 .. e.gasLimit /\ e.gasLimit > 0
    BY <1>1, MaxUintAssumption DEF verify_evidence, UInt
  <1>7. WellFormed(c)
    BY <1>6 DEF WellFormed, candidate_from_evidence, chain_context_from_evidence,
       transaction_from_evidence, simulation_from_evidence
  <1> QED
    BY <1>5, <1>7

=============================================================================
