-------------------------- MODULE CandidateReview --------------------------
(***************************************************************************)
(* A caller that builds a candidate from evidence and may then substitute  *)
(* fields of it, or present it under another approval, before the verdict. *)
(* This is the caller core/evaluator.py is written against: "A predicted   *)
(* balance alone would let a caller substitute a different recipient,      *)
(* amount or gas limit after the simulation".                              *)
(***************************************************************************)
EXTENDS FloorEvaluator

CONSTANTS
    Wallet, Token,      \* the addresses the simulated transfer is made with
    Approvals,          \* the approvals a caller can present
    NodeChain,          \* the chain the simulation ran on
    MaxEdits            \* bound: substitutions after the simulation

ASSUME ReviewAssumption ==
    /\ Approvals \subseteq Approval
    /\ MaxEdits \in Nat

VARIABLES
    evidence,           \* what the simulator reported
    approval,           \* the approval presented to the evaluator
    candidate,          \* the candidate presented to the evaluator
    edits               \* how many substitutions were made

vars == <<evidence, approval, candidate, edits>>

\* Evidence the simulator can report: one that verify_evidence accepts.
Reported ==
    {[request |-> [token |-> Token, sender |-> Wallet, recipient |-> to,
                   amount |-> amount],
      chainId |-> NodeChain, block |-> b, senderNonce |-> n,
      transaction |-> [chainId |-> NodeChain, fromAddress |-> Wallet,
                       toAddress |-> Token, nonce |-> n, gasLimit |-> MaxUint,
                       data |-> TransferCall(to, amount)],
      gasLimit |-> MaxUint, gasUsed |-> 1,
      senderBefore |-> sb, senderAfter |-> sb - amount,
      recipientBefore |-> rb, recipientAfter |-> rb + amount,
      reverted |-> TRUE] :
        to \in Address \ {Wallet}, amount \in UInt, b \in Block,
        n \in {0}, sb \in UInt, rb \in {0, 1}}

\* The id the candidate is given: the plan leaves the gas limit to the simulator.
PlanOf(a, e) ==
    [approval |-> a, recipient |-> e.request.recipient, amount |-> e.request.amount,
     gas |-> 0]

Init ==
    /\ evidence \in {e \in Reported : e \in Evidence /\ verify_evidence(e)}
    /\ approval \in Approvals
    /\ candidate = candidate_from_evidence(approval, evidence, PlanOf(approval, evidence))
    /\ edits = 0

\* The caller replaces one field of the transaction, the simulation or the
\* context; the validators still run on the rebuilt candidate.
Rebuild(c) ==
    /\ edits < MaxEdits
    /\ WellFormed(c)
    /\ candidate' = c
    /\ edits' = edits + 1
    /\ UNCHANGED <<evidence, approval>>

SubstituteTransaction ==
    \/ \E to \in Address : Rebuild([candidate EXCEPT !.transaction.toAddress = to])
    \/ \E d \in CallData : Rebuild([candidate EXCEPT !.transaction.data = d])
    \/ \E g \in UInt : Rebuild([candidate EXCEPT !.transaction.gasLimit = g])

SubstituteSimulation ==
    \/ \E to \in Address : Rebuild([candidate EXCEPT !.simulation.recipientAddress = to])
    \/ \E n \in UInt :
        \/ Rebuild([candidate EXCEPT !.simulation.transferAmount = n])
        \/ Rebuild([candidate EXCEPT !.simulation.afterAssetBalance = n])
        \/ Rebuild([candidate EXCEPT !.simulation.beforeAssetBalance = n])
        \/ Rebuild([candidate EXCEPT !.simulation.afterRecipientBalance = n])
    \/ Rebuild([candidate EXCEPT !.simulation.status = "reverted"])

SubstituteContext ==
    \E n \in UInt : Rebuild([candidate EXCEPT !.context.assetBalance = n])

\* The approval changed between building the candidate and the verdict.
PresentOtherApproval ==
    /\ edits < MaxEdits
    /\ \E a \in Approvals \ {approval} : approval' = a
    /\ edits' = edits + 1
    /\ UNCHANGED <<evidence, candidate>>

Next ==
    \/ SubstituteTransaction
    \/ SubstituteSimulation
    \/ SubstituteContext
    \/ PresentOtherApproval

Spec == Init /\ [][Next]_vars

-----------------------------------------------------------------------------
\* Every value the reviewer handles stays within the contracts.
TypeOK ==
    /\ evidence \in Evidence
    /\ approval \in Approval
    /\ candidate \in Candidate
    /\ edits \in 0 .. MaxEdits

\* An accepted candidate keeps the floor of the approval it is presented
\* under, whatever was substituted (evaluate, core/evaluator.py:36-96).
AcceptedKeepsFloor ==
    WellFormed(candidate) /\ accepted(approval, candidate)
        => KeepsFloor(approval, candidate)

\* An unedited candidate is refused only for what is wrong with the request
\* itself: binding evidence loses nothing the evaluator needs, so a transfer
\* that keeps the floor is never blocked (candidate_from_evidence + evaluate).
UneditedVerdict ==
    edits = 0 =>
        (accepted(approval, candidate)
            <=> /\ evidence.request.amount > 0
                /\ evidence.senderAfter >= approval.policy.assetBalanceFloor
                /\ evidence.request.token = approval.policy.tokenAddress
                /\ evidence.request.sender = approval.policy.walletAddress
                /\ evidence.chainId = approval.policy.chainId)

\* No accepted candidate can be turned into another accepted candidate by
\* replacing its transaction alone: recipient, amount, target and gas limit are
\* pinned by the simulation (core/evaluator.py:66-84).
NoSubstitutionSurvives ==
    [][accepted(approval, candidate)
         /\ candidate'.transaction # candidate.transaction
         /\ candidate'.simulation = candidate.simulation
         => ~accepted(approval', candidate')]_vars

=============================================================================
