----------------------- MODULE CandidateReviewProofs -----------------------
(***************************************************************************)
(* The reviewer's properties for every set of approvals, every bound on    *)
(* the amounts and every number of substitutions.                          *)
(***************************************************************************)
EXTENDS CandidateReview, FloorEvaluatorProofs, TLAPS

\* What every step keeps: the values are typed and no validator is violated.
ReviewInv == TypeOK /\ WellFormed(candidate)

LEMMA ReviewInit == Init => ReviewInv
  <1> SUFFICES ASSUME Init PROVE ReviewInv
    OBVIOUS
  <1>1. evidence \in Evidence /\ verify_evidence(evidence)
    BY DEF Init
  <1>2. approval \in Approval /\ edits \in 0 .. MaxEdits
    BY ReviewAssumption DEF Init
  <1>3. evidence.transaction.gasLimit = evidence.gasLimit
    BY <1>1 DEF verify_evidence
  <1>4. evidence.request.recipient \in Address /\ evidence.request.amount \in UInt
    BY <1>1 DEF Evidence
  <1>5. PlanOf(approval, evidence) \in CandidateId
    BY <1>2, <1>4, MaxUintAssumption DEF PlanOf, CandidateId, UInt
  <1> QED
    BY <1>1, <1>2, <1>3, <1>5, BoundCandidate DEF Init, ReviewInv, TypeOK

\* One replaced field leaves a candidate a candidate.
LEMMA Substituted ==
    ASSUME NEW c \in Candidate
    PROVE  /\ \A to \in Address : [c EXCEPT !.transaction.toAddress = to] \in Candidate
           /\ \A d \in CallData : [c EXCEPT !.transaction.data = d] \in Candidate
           /\ \A to \in Address :
                  [c EXCEPT !.simulation.recipientAddress = to] \in Candidate
           /\ [c EXCEPT !.simulation.status = "reverted"] \in Candidate
           /\ \A n \in UInt :
                /\ [c EXCEPT !.transaction.gasLimit = n] \in Candidate
                /\ [c EXCEPT !.simulation.transferAmount = n] \in Candidate
                /\ [c EXCEPT !.simulation.afterAssetBalance = n] \in Candidate
                /\ [c EXCEPT !.simulation.beforeAssetBalance = n] \in Candidate
                /\ [c EXCEPT !.simulation.afterRecipientBalance = n] \in Candidate
                /\ [c EXCEPT !.context.assetBalance = n] \in Candidate
  <1>1. /\ c.transaction \in Transaction /\ c.simulation \in Simulation
        /\ c.context \in ChainContext
    BY DEF Candidate
  <1>2. \A t \in Transaction : [c EXCEPT !.transaction = t] \in Candidate
    BY DEF Candidate
  <1>3. \A s \in Simulation : [c EXCEPT !.simulation = s] \in Candidate
    BY DEF Candidate
  <1>4. \A x \in ChainContext : [c EXCEPT !.context = x] \in Candidate
    BY DEF Candidate
  <1>5. /\ \A to \in Address : [c.transaction EXCEPT !.toAddress = to] \in Transaction
        /\ \A d \in CallData : [c.transaction EXCEPT !.data = d] \in Transaction
        /\ \A n \in UInt : [c.transaction EXCEPT !.gasLimit = n] \in Transaction
    BY <1>1 DEF Transaction
  <1>6. /\ \A to \in Address :
               [c.simulation EXCEPT !.recipientAddress = to] \in Simulation
        /\ [c.simulation EXCEPT !.status = "reverted"] \in Simulation
        /\ \A n \in UInt :
             /\ [c.simulation EXCEPT !.transferAmount = n] \in Simulation
             /\ [c.simulation EXCEPT !.afterAssetBalance = n] \in Simulation
             /\ [c.simulation EXCEPT !.beforeAssetBalance = n] \in Simulation
             /\ [c.simulation EXCEPT !.afterRecipientBalance = n] \in Simulation
    BY <1>1 DEF Simulation
  <1>7. \A n \in UInt : [c.context EXCEPT !.assetBalance = n] \in ChainContext
    BY <1>1 DEF ChainContext
  <1> QED
    BY <1>2, <1>3, <1>4, <1>5, <1>6, <1>7

LEMMA ReviewStep == ReviewInv /\ [Next]_vars => ReviewInv'
  <1> SUFFICES ASSUME ReviewInv, [Next]_vars
               PROVE  ReviewInv'
    OBVIOUS
  <1>1. ASSUME NEW c \in Candidate, Rebuild(c)
        PROVE  ReviewInv'
    BY <1>1, ReviewAssumption DEF ReviewInv, TypeOK, Rebuild
  <1>2. CASE SubstituteTransaction \/ SubstituteSimulation \/ SubstituteContext
    <2>1. \E c \in Candidate : Rebuild(c)
      BY <1>2, Substituted DEF SubstituteTransaction, SubstituteSimulation,
         SubstituteContext, ReviewInv, TypeOK
    <2> QED
      BY <1>1, <2>1
  <1>3. CASE PresentOtherApproval
    BY <1>3, ReviewAssumption DEF PresentOtherApproval, ReviewInv, TypeOK
  <1>4. CASE UNCHANGED vars
    BY <1>4 DEF vars, ReviewInv, TypeOK
  <1> QED
    BY <1>2, <1>3, <1>4 DEF Next

\* Every value the reviewer handles keeps to the contracts of core/models.py.
THEOREM ReviewTypes == Spec => []TypeOK
  <1>1. Spec => []ReviewInv
    BY ReviewInit, ReviewStep, PTL DEF Spec
  <1>2. ReviewInv => TypeOK
    BY DEF ReviewInv
  <1> QED
    BY <1>1, <1>2, PTL

\* Whatever is substituted, an accepted candidate keeps the floor of the
\* approval it is presented under (core/evaluator.py:36-96).
THEOREM ReviewKeepsFloor == Spec => []AcceptedKeepsFloor
  <1>1. Spec => []ReviewInv
    BY ReviewInit, ReviewStep, PTL DEF Spec
  <1>2. ReviewInv => AcceptedKeepsFloor
    BY AcceptedCandidateKeepsFloor DEF ReviewInv, TypeOK, AcceptedKeepsFloor
  <1> QED
    BY <1>1, <1>2, PTL

\* Once accepted, no other transaction fits the same simulation, even when the
\* approval presented changes in the same breath (core/evaluator.py:66-84).
THEOREM ReviewPinsTransaction == Spec => NoSubstitutionSurvives
  <1>1. Spec => []ReviewInv
    BY ReviewInit, ReviewStep, PTL DEF Spec
  <1>2. ASSUME ReviewInv, ReviewInv', accepted(approval, candidate),
               candidate'.simulation = candidate.simulation,
               accepted(approval', candidate')
        PROVE  candidate'.transaction = candidate.transaction
    BY <1>2, SimulationPinsTransaction DEF ReviewInv, TypeOK
  <1>3. ReviewInv /\ ReviewInv' =>
            (accepted(approval, candidate)
               /\ candidate'.transaction # candidate.transaction
               /\ candidate'.simulation = candidate.simulation
               => ~accepted(approval', candidate'))
    BY <1>2
  <1> QED
    BY <1>1, <1>3, PTL DEF NoSubstitutionSurvives

-----------------------------------------------------------------------------
(* Binding loses nothing: what evaluate says of an unedited candidate is   *)
(* what the request, the policy and the simulated balance say.             *)

\* What has to hold of the evidence itself.
Deserves(a, e) ==
    /\ e.request.amount > 0
    /\ e.senderAfter >= a.policy.assetBalanceFloor
    /\ e.request.token = a.policy.tokenAddress
    /\ e.request.sender = a.policy.walletAddress
    /\ e.chainId = a.policy.chainId

\* The one transfer in the calldata of evidence that binds.
LEMMA BoundCalldata ==
    ASSUME NEW e, verify_evidence(e)
    PROVE  decode_erc20_transfer(e.transaction.data) =
               {[recipient |-> e.request.recipient, amount |-> e.request.amount]}
  BY DEF verify_evidence, TransferCall, decode_erc20_transfer

\* A candidate built from evidence that binds matches its own simulation.
LEMMA BoundIsAsSimulated ==
    ASSUME NEW a, NEW e, NEW id, verify_evidence(e)
    PROVE  Raised(NotAsSimulated(candidate_from_evidence(a, e, id))) = {}
  <1> DEFINE c == candidate_from_evidence(a, e, id)
             s == simulation_from_evidence(e)
             t == transaction_from_evidence(e)
             calls == decode_erc20_transfer(t.data)
             checks == NotAsSimulated(c)
  <1>1. /\ s.status = "success" /\ s.chainId = c.context.chainId
        /\ s.tokenAddress = t.toAddress /\ s.senderAddress = t.fromAddress
        /\ s.senderNonce = t.nonce /\ s.gasLimit = t.gasLimit
        /\ s.recipientAddress = e.request.recipient
        /\ s.senderAddress = e.request.sender
        /\ s.transferAmount = e.request.amount
        /\ t.data = e.transaction.data
    BY DEF candidate_from_evidence, chain_context_from_evidence,
       transaction_from_evidence, simulation_from_evidence
  <1>2. c.simulation = s /\ c.transaction = t
    BY DEF candidate_from_evidence
  <1>3. e.request.sender # e.request.recipient
    BY DEF verify_evidence
  <1>4. \A d \in calls : d.recipient = s.recipientAddress /\ d.amount = s.transferAmount
    BY <1>1, BoundCalldata
  <1> HIDE DEF c, s, t, calls
  <1>5. checks =
         [SIMULATION_NOT_SUCCESSFUL |-> s.status # "success",
          SIMULATION_CHAIN_MISMATCH |-> s.chainId # c.context.chainId,
          SIMULATION_TOKEN_MISMATCH |-> s.tokenAddress # t.toAddress,
          SIMULATION_SENDER_MISMATCH |-> s.senderAddress # t.fromAddress,
          SIMULATION_NONCE_MISMATCH |-> s.senderNonce # t.nonce,
          SIMULATION_GAS_LIMIT_MISMATCH |-> s.gasLimit # t.gasLimit,
          SIMULATION_SELF_TRANSFER |-> s.senderAddress = s.recipientAddress,
          SIMULATION_RECIPIENT_MISMATCH |->
             \E d \in calls : d.recipient # s.recipientAddress,
          SIMULATION_AMOUNT_MISMATCH |->
             \E d \in calls : d.amount # s.transferAmount]
    BY <1>2, Zenon DEF NotAsSimulated, calls
  <1> HIDE DEF checks
  <1>6. \A k \in DOMAIN checks : ~checks[k]
    <2>1. DOMAIN checks =
             {"SIMULATION_NOT_SUCCESSFUL", "SIMULATION_CHAIN_MISMATCH",
              "SIMULATION_TOKEN_MISMATCH", "SIMULATION_SENDER_MISMATCH",
              "SIMULATION_NONCE_MISMATCH", "SIMULATION_GAS_LIMIT_MISMATCH",
              "SIMULATION_SELF_TRANSFER", "SIMULATION_RECIPIENT_MISMATCH",
              "SIMULATION_AMOUNT_MISMATCH"}
      BY <1>5, Zenon
    <2>2. /\ ~checks.SIMULATION_NOT_SUCCESSFUL
          /\ ~checks.SIMULATION_CHAIN_MISMATCH
          /\ ~checks.SIMULATION_TOKEN_MISMATCH
          /\ ~checks.SIMULATION_SENDER_MISMATCH
          /\ ~checks.SIMULATION_NONCE_MISMATCH
          /\ ~checks.SIMULATION_GAS_LIMIT_MISMATCH
          /\ ~checks.SIMULATION_SELF_TRANSFER
          /\ ~checks.SIMULATION_RECIPIENT_MISMATCH
          /\ ~checks.SIMULATION_AMOUNT_MISMATCH
      BY <1>5, <1>1, <1>3, <1>4, Zenon
    <2> QED
      BY <2>1, <2>2
  <1> QED
    BY <1>6 DEF Raised, checks, c

\* ... and its balances agree with the transfer and with the context.
LEMMA BoundIsConsistent ==
    ASSUME NEW a, NEW e, NEW id, verify_evidence(e)
    PROVE  Raised(NotSelfConsistent(candidate_from_evidence(a, e, id))) = {}
  <1> DEFINE c == candidate_from_evidence(a, e, id)
             s == simulation_from_evidence(e)
             checks == NotSelfConsistent(c)
  <1>1. /\ s.beforeAssetBalance - s.afterAssetBalance = s.transferAmount
        /\ s.afterRecipientBalance - s.beforeRecipientBalance = s.transferAmount
        /\ s.beforeAssetBalance = c.context.assetBalance
    BY DEF candidate_from_evidence, chain_context_from_evidence,
       simulation_from_evidence, verify_evidence
  <1>2. c.simulation = s
    BY DEF candidate_from_evidence
  <1> HIDE DEF c, s
  <1>3. checks =
         [SIMULATION_BEFORE_BALANCE_MISMATCH |->
             s.beforeAssetBalance # c.context.assetBalance,
          SIMULATION_PREDICTED_BALANCE_MISMATCH |->
             s.beforeAssetBalance - s.afterAssetBalance # s.transferAmount,
          SIMULATION_RECIPIENT_BALANCE_MISMATCH |->
             s.afterRecipientBalance - s.beforeRecipientBalance # s.transferAmount]
    BY <1>2, Zenon DEF NotSelfConsistent
  <1> HIDE DEF checks
  <1>4. \A k \in DOMAIN checks : ~checks[k]
    <2>1. DOMAIN checks =
             {"SIMULATION_BEFORE_BALANCE_MISMATCH",
              "SIMULATION_PREDICTED_BALANCE_MISMATCH",
              "SIMULATION_RECIPIENT_BALANCE_MISMATCH"}
      BY <1>3, Zenon
    <2>2. /\ ~checks.SIMULATION_BEFORE_BALANCE_MISMATCH
          /\ ~checks.SIMULATION_PREDICTED_BALANCE_MISMATCH
          /\ ~checks.SIMULATION_RECIPIENT_BALANCE_MISMATCH
      BY <1>3, <1>1, Zenon
    <2> QED
      BY <2>1, <2>2
  <1> QED
    BY <1>4 DEF Raised, checks, c

\* Under a policy it is refused only for what the evidence lacks.
LEMMA BoundUnderPolicy ==
    ASSUME NEW a \in Approval, NEW e \in Evidence, NEW id, verify_evidence(e)
    PROVE  Raised(NotUnderPolicy(a, candidate_from_evidence(a, e, id))) = {}
               <=> Deserves(a, e)
  <1> DEFINE c == candidate_from_evidence(a, e, id)
             call == [recipient |-> e.request.recipient, amount |-> e.request.amount]
             checks == NotUnderPolicy(a, c)
  <1>1. /\ c.approvalSha256 = a /\ c.policySha256 = a.policy
        /\ c.context.chainId = e.chainId
        /\ c.context.walletAddress = e.request.sender
        /\ c.context.tokenAddress = e.request.token
        /\ c.transaction.toAddress = e.request.token
        /\ c.simulation.afterAssetBalance = e.senderAfter
        /\ c.transaction.data = e.transaction.data
    BY DEF candidate_from_evidence, chain_context_from_evidence,
       transaction_from_evidence, simulation_from_evidence
  <1>2. decode_erc20_transfer(c.transaction.data) = {call}
    BY <1>1, BoundCalldata
  <1>3. call.amount = e.request.amount
    OBVIOUS
  <1>4. /\ e.request.amount = 0 <=> ~(e.request.amount > 0)
        /\ e.senderAfter < a.policy.assetBalanceFloor
              <=> ~(e.senderAfter >= a.policy.assetBalanceFloor)
    BY MaxUintAssumption DEF Evidence, Approval, Policy, UInt
  <1> HIDE DEF c, call
  <1>5. checks =
         [APPROVAL_HASH_MISMATCH |-> a # a,
          POLICY_HASH_MISMATCH |-> a.policy # a.policy,
          POLICY_CHAIN_MISMATCH |-> e.chainId # a.policy.chainId,
          POLICY_WALLET_MISMATCH |-> e.request.sender # a.policy.walletAddress,
          POLICY_TOKEN_MISMATCH |-> e.request.token # a.policy.tokenAddress,
          TRANSACTION_TOKEN_MISMATCH |-> e.request.token # a.policy.tokenAddress,
          INVALID_ERC20_TRANSFER_CALLDATA |-> {call} = {},
          ZERO_TRANSFER_AMOUNT |-> \E d \in {call} : d.amount = 0,
          ASSET_BALANCE_FLOOR_VIOLATION |->
              e.senderAfter < a.policy.assetBalanceFloor]
    BY <1>1, <1>2, Zenon DEF NotUnderPolicy
  <1> HIDE DEF checks
  <1>6. ASSUME Deserves(a, e)
        PROVE  \A k \in DOMAIN checks : ~checks[k]
    <2>1. DOMAIN checks =
             {"APPROVAL_HASH_MISMATCH", "POLICY_HASH_MISMATCH",
              "POLICY_CHAIN_MISMATCH", "POLICY_WALLET_MISMATCH",
              "POLICY_TOKEN_MISMATCH", "TRANSACTION_TOKEN_MISMATCH",
              "INVALID_ERC20_TRANSFER_CALLDATA", "ZERO_TRANSFER_AMOUNT",
              "ASSET_BALANCE_FLOOR_VIOLATION"}
      BY <1>5, Zenon
    <2>2. /\ ~checks.APPROVAL_HASH_MISMATCH
          /\ ~checks.POLICY_HASH_MISMATCH
          /\ ~checks.POLICY_CHAIN_MISMATCH
          /\ ~checks.POLICY_WALLET_MISMATCH
          /\ ~checks.POLICY_TOKEN_MISMATCH
          /\ ~checks.TRANSACTION_TOKEN_MISMATCH
          /\ ~checks.INVALID_ERC20_TRANSFER_CALLDATA
          /\ ~checks.ZERO_TRANSFER_AMOUNT
          /\ ~checks.ASSET_BALANCE_FLOOR_VIOLATION
      BY <1>5, <1>3, <1>4, <1>6, Zenon DEF Deserves
    <2> QED
      BY <2>1, <2>2
  <1>7. ASSUME \A k \in DOMAIN checks : ~checks[k]
        PROVE  Deserves(a, e)
    <2>1. /\ ~checks.POLICY_CHAIN_MISMATCH /\ ~checks.POLICY_WALLET_MISMATCH
          /\ ~checks.POLICY_TOKEN_MISMATCH /\ ~checks.ZERO_TRANSFER_AMOUNT
          /\ ~checks.ASSET_BALANCE_FLOOR_VIOLATION
      BY <1>5, <1>7
    <2>2. /\ e.chainId = a.policy.chainId
          /\ e.request.sender = a.policy.walletAddress
          /\ e.request.token = a.policy.tokenAddress
      BY <1>5, <2>1, Zenon
    <2>3. ~(\E d \in {call} : d.amount = 0)
      BY <1>5, <2>1, Zenon
    <2>4. ~(e.senderAfter < a.policy.assetBalanceFloor)
      BY <1>5, <2>1, Zenon
    <2> QED
      BY <1>3, <1>4, <2>2, <2>3, <2>4, Zenon DEF Deserves
  <1> QED
    BY <1>6, <1>7 DEF Raised, checks, c

\* As long as nothing was substituted the candidate is the one evidence gave.
Unedited ==
    /\ verify_evidence(evidence)
    /\ edits \in Nat
    /\ edits = 0 => candidate = candidate_from_evidence(approval, evidence, PlanOf(approval, evidence))

LEMMA UneditedKept == Unedited /\ [Next]_vars => Unedited'
  <1> SUFFICES ASSUME Unedited, [Next]_vars
               PROVE  Unedited'
    OBVIOUS
  <1>1. CASE Next
    <2>1. edits' = edits + 1 /\ evidence' = evidence
      BY <1>1 DEF Next, SubstituteTransaction, SubstituteSimulation,
         SubstituteContext, PresentOtherApproval, Rebuild
    <2> QED
      BY <2>1 DEF Unedited
  <1>2. CASE UNCHANGED vars
    BY <1>2 DEF vars, Unedited
  <1> QED
    BY <1>1, <1>2

\* For every policy, address and amount: a transfer that keeps the floor is not
\* blocked by the way its evidence is bound, and one that does not is
\* (core/candidate_binding.py:74-158, core/evaluator.py:36-96).
THEOREM VerdictsAreExact == Spec => []UneditedVerdict
  <1>1. Init => Unedited
    BY DEF Init, Unedited
  <1>2. Spec => [](ReviewInv /\ Unedited)
    BY <1>1, ReviewInit, ReviewStep, UneditedKept, PTL DEF Spec
  <1>3. ASSUME ReviewInv, Unedited, edits = 0
        PROVE  accepted(approval, candidate) <=> Deserves(approval, evidence)
    <2>1. approval \in Approval /\ evidence \in Evidence
      BY <1>3 DEF ReviewInv, TypeOK
    <2>2. /\ candidate = candidate_from_evidence(approval, evidence, PlanOf(approval, evidence))
          /\ verify_evidence(evidence)
      BY <1>3 DEF Unedited
    <2> QED
      BY <2>1, <2>2, BoundIsAsSimulated, BoundIsConsistent, BoundUnderPolicy
         DEF accepted, reasonCodes
  <1>4. ReviewInv /\ Unedited => UneditedVerdict
    BY <1>3 DEF UneditedVerdict, Deserves
  <1> QED
    BY <1>2, <1>4, PTL

=============================================================================
