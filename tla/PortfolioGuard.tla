--------------------------- MODULE PortfolioGuard ---------------------------
(***************************************************************************)
(* The structured-policy workflow (verifier/synthesis_workflow.py and the  *)
(* synth/ commands) and the pre-execution gate it serves                   *)
(* (verifier/evaluate_pre_execution.py, chain/src/pre-execution-gate.ts).  *)
(*                                                                         *)
(* On the desk lie three files: the request to the policy compiler, the    *)
(* proposal compiled for it and the approval of a proposal.  Callers of    *)
(* sendGuardedTransaction capture a candidate, have it judged by the       *)
(* approval on the desk, look at the chain again and hand the transaction  *)
(* over.  The portfolio also moves without them.                           *)
(*                                                                         *)
(* A canonical hash is modelled by the value it is taken of.               *)
(***************************************************************************)
EXTENDS PortfolioLimits

CONSTANTS
    Caller,      \* concurrent calls of sendGuardedTransaction
    Policy,      \* policies [fork, invariants]
    Offered,     \* the policies a template, a model or an editor may come with
    Written,     \* the approvals an edit may leave in the file
    Fork,        \* the pinned fork every candidate is valued at
    StartValue,  \* the value of the portfolio at time 0
    Move,        \* what one transaction may add to it
    Claim,       \* what a candidate may say its transaction adds
    MaxValue,    \* bound on the value
    MaxClock,    \* bound on time
    MaxEntries,  \* bound on the transactions mined
    MaxWork      \* bound on the operations of the workflow

ASSUME GuardAssumption ==
    /\ StartValue \in 0..MaxValue /\ MaxValue \in Nat /\ MaxClock \in Nat
    /\ MaxEntries \in Nat /\ MaxWork \in Nat /\ Move \subseteq Int /\ Claim \subseteq Move
    /\ Offered \subseteq Policy
    /\ \A p \in Policy : p \in [fork : {p.fork}, invariants : Seq(Limit)]

VARIABLES
    clock,      \* the time of the chain
    ledger,     \* the points mined so far, each with the decision it rests on
    desk,       \* the files: request, proposal and approval
    shown,      \* the proposal the user has before them
    confirmed,  \* the proposals whose hash the user has typed
    byHand,     \* the proposals somebody approved by writing into a file
    work,       \* operations of the workflow so far
    calls,      \* the call each caller is in
    pool        \* the transactions handed over and not mined

vars == <<clock, ledger, desk, shown, confirmed, byHand, work, calls, pool>>

None == [none |-> TRUE]

---------------------------------------------------------------------------
(* The files.                                                              *)

CanonicalKinds == <<"floor", "drawdown", "lossCap", "lossBps">>

Kinds(policy) == [i \in DOMAIN policy.invariants |-> policy.invariants[i].kind]

\* A subsequence of the four kinds, none of them twice.
AllowedKinds(kinds) ==
    \A i, j \in DOMAIN kinds : i < j =>
        \E a, b \in DOMAIN CanonicalKinds :
            a < b /\ CanonicalKinds[a] = kinds[i] /\ CanonicalKinds[b] = kinds[j]

RequestOf(template) == [kinds |-> Kinds(template), fork |-> template.fork]
Requests == {RequestOf(p) : p \in Offered}

Linked(proposal) ==
    /\ proposal.policy.fork = proposal.request.fork
    /\ Kinds(proposal.policy) = proposal.request.kinds

\* The editor puts the fork of the request into a policy.
OnFork(policy, fork) == [policy EXCEPT !.fork = fork]
Policies == {OnFork(p, q.fork) : p, q \in Offered}
Proposals == [request : Requests, policy : Policies]
Scopes == {"user", "test-fixture"}
Approvals == [scope : Scopes, proposal : Proposals,
              proposalHash : Proposals, policyHash : Policies, confirmation : Proposals]

ASSUME WrittenAssumption == Written \subseteq Approvals

ValidApproval_Loose(file) ==  \* Faulty: trusts the confirmation that is in the file.
    /\ Linked(file.proposal)
    /\ file.confirmation = file.proposalHash

ValidApproval(file) ==
    /\ Linked(file.proposal)
    /\ file.proposalHash = file.proposal
    /\ file.policyHash = file.proposal.policy
    /\ file.confirmation = file.proposal

\* Faulty: one hash for both.
ApprovalOf_OneHash(proposal, scope) ==
    [scope |-> scope, proposal |-> proposal, proposalHash |-> proposal,
     policyHash |-> proposal, confirmation |-> proposal]

ApprovalOf(proposal, scope) ==
    [scope |-> scope, proposal |-> proposal, proposalHash |-> proposal,
     policyHash |-> proposal.policy, confirmation |-> proposal]

Judges_AnyScope(file) == file # None /\ ValidApproval(file)  \* Faulty: fixtures too.

\* The approvals a decision may rest on.
Judges(file) == file # None /\ ValidApproval(file) /\ file.scope = "user"

---------------------------------------------------------------------------
(* The workflow.                                                           *)

CreateRequest(template) ==
    /\ AllowedKinds(Kinds(template))
    /\ desk' = [desk EXCEPT !.request = RequestOf(template)]
    /\ UNCHANGED <<clock, ledger, shown, confirmed, byHand, calls, pool>>

\* A response of the model, bound to the request it was made for.
CompileResponse(response) ==
    /\ desk.request # None
    /\ response.request = desk.request
    /\ Linked(response)
    /\ desk' = [desk EXCEPT !.proposal = response]
    /\ UNCHANGED <<clock, ledger, shown, confirmed, byHand, calls, pool>>

\* The structured editor: the policy is built from the fields and the request.
CompileLocal(policy) ==
    LET proposal == [request |-> desk.request,
                     policy |-> OnFork(policy, desk.request.fork)]
    IN  /\ desk.request # None
        /\ Linked(proposal)
        /\ desk' = [desk EXCEPT !.proposal = proposal]
        /\ UNCHANGED <<clock, ledger, shown, confirmed, byHand, calls, pool>>

\* The user reads the proposal and its hash.
Show ==
    /\ desk.proposal # None
    /\ shown' = desk.proposal
    /\ UNCHANGED <<clock, ledger, desk, confirmed, byHand, calls, pool>>

Confirms_AnyHash(proposal) == Linked(desk.proposal)  \* Faulty: whatever was typed.

\* The hash the user typed is the hash of the proposal in the file.
Confirms(proposal) == proposal = desk.proposal /\ Linked(proposal)

\* approve_policy.py: the user types the hash of what they were shown.
Approve ==
    /\ shown # None /\ desk.proposal # None
    /\ Confirms(shown)
    /\ desk' = [desk EXCEPT !.approval = ApprovalOf(desk.proposal, "user")]
    /\ confirmed' = confirmed \cup {shown}
    /\ UNCHANGED <<clock, ledger, shown, byHand, calls, pool>>

\* A fixture confirms its own hash: no user takes part.
ApproveFixture ==
    /\ desk.proposal # None /\ Linked(desk.proposal)
    /\ desk' = [desk EXCEPT !.approval = ApprovalOf(desk.proposal, "test-fixture")]
    /\ UNCHANGED <<clock, ledger, shown, confirmed, byHand, calls, pool>>

\* Someone writes another proposal over the file, its request hash included.
EditProposal(proposal) ==
    /\ desk.proposal \notin {None, proposal}
    /\ desk' = [desk EXCEPT !.proposal = proposal]
    /\ UNCHANGED <<clock, ledger, shown, confirmed, byHand, calls, pool>>

\* Someone writes another approval over the file: the hashes are not keyed and do
\* not cover the scope.  Who writes the scope of a user, or another confirmation
\* under it, approves by hand.
EditApproval(file) ==
    /\ desk.approval \notin {None, file}
    /\ desk' = [desk EXCEPT !.approval = file]
    /\ byHand' = IF /\ file.scope = "user"
                    /\ \/ desk.approval.scope # "user"
                       \/ file.confirmation # desk.approval.confirmation
                 THEN byHand \cup {file.confirmation}
                 ELSE byHand
    /\ UNCHANGED <<clock, ledger, shown, confirmed, calls, pool>>

Workflow ==
    /\ work < MaxWork /\ work' = work + 1
    /\ \/ \E p \in Offered : CreateRequest(p) \/ CompileLocal(p)
       \/ \E p \in Proposals : CompileResponse(p) \/ EditProposal(p)
       \/ \E file \in Written : EditApproval(file)
       \/ Show \/ Approve \/ ApproveFixture

---------------------------------------------------------------------------
(* The chain: blocks with one transaction that touches the portfolio.      *)

Value == IF ledger = <<>> THEN StartValue ELSE ledger[Len(ledger)].after

Outside == [outside |-> TRUE]

\* The nonce of the guarded account: how many of its transactions were mined.
Nonce == Cardinality({i \in DOMAIN ledger : ledger[i].by # Outside})

\* What readContext returns; the hash of the head stands for all before it.
Context == [block |-> Len(ledger), nonce |-> Nonce]

Point(t, before, move) == [t |-> t, before |-> before, after |-> before + move]

Mined(move, by) ==
    /\ Len(ledger) < MaxEntries
    /\ ledger # <<>> => ledger[Len(ledger)].t < clock
    /\ Value + move \in 0..MaxValue
    /\ ledger' = Append(ledger, [t |-> clock, before |-> Value,
                                 after |-> Value + move, by |-> by])

Tick ==
    /\ clock < MaxClock
    /\ clock' = clock + 1
    /\ UNCHANGED <<ledger, desk, shown, confirmed, byHand, work, calls, pool>>

\* A transaction of the portfolio that does not pass the gate.
MoveOutside(move) ==
    /\ Mined(move, Outside)
    /\ UNCHANGED <<clock, desk, shown, confirmed, byHand, work, calls, pool>>

Mine(tx) ==
    /\ tx.nonce = Nonce
    /\ Mined(tx.move, [proposal |-> tx.proposal, seen |-> tx.seen])
    /\ pool' = {other \in pool : other.nonce # tx.nonce}
    /\ UNCHANGED <<clock, desk, shown, confirmed, byHand, work, calls>>

---------------------------------------------------------------------------
(* The gate.  A candidate is [context, t, claim, move, coverage]: the      *)
(* context and the history it was captured at, the move it claims for its  *)
(* transaction and the move the transaction really makes.                  *)

Points(block) == [i \in 1..block |->
    [t |-> ledger[i].t, before |-> ledger[i].before, after |-> ledger[i].after]]

\* The embedded portfolio candidate.
TraceOf(candidate) ==
    LET before == IF candidate.context.block = 0 THEN StartValue
                  ELSE ledger[candidate.context.block].after
    IN  CutAt(Fork, Append(Points(candidate.context.block),
                           Point(candidate.t, before, candidate.claim)),
              candidate.coverage)

\* evaluate_pre_execution.py on the approval that is on the desk now.
Decision(candidate) ==
    [candidate |-> candidate, proposal |-> desk.approval.proposal,
     accepted |-> EvaluateCandidate(desk.approval.proposal.policy, TraceOf(candidate))
                  = "accepted"]

CanDecide(candidate) ==
    /\ Judges(desk.approval)
    /\ EvaluateCandidate(desk.approval.proposal.policy, TraceOf(candidate)) # "invalid"

Idle == [pc |-> "idle"]
Refused == [pc |-> "refused"]
Sent == [pc |-> "sent"]

\* sendGuardedTransaction takes its own copy of the candidate.
Capture(c, claim, move, coverage) ==
    /\ calls[c] = Idle
    /\ Value + claim \in 0..MaxValue
    /\ ledger # <<>> => ledger[Len(ledger)].t < clock
    /\ calls' = [calls EXCEPT ![c] =
          [pc |-> "evaluating",
           snapshot |-> [context |-> Context, t |-> clock, claim |-> claim,
                         move |-> move, coverage |-> coverage]]]
    /\ UNCHANGED <<clock, ledger, desk, shown, confirmed, byHand, work, pool>>

\* Faulty: takes the decision for granted.
Belongs_Unchecked(decision, snapshot) == TRUE

\* The decision is about this candidate and no other.
Belongs(decision, snapshot) == decision.candidate = snapshot

\* The evaluator answers; about says whose candidate it was given.
Evaluate(c, about) ==
    /\ calls[c].pc = "evaluating"
    /\ "snapshot" \in DOMAIN calls[about]
    /\ CanDecide(calls[about].snapshot)
    /\ LET decision == Decision(calls[about].snapshot)
       IN  calls' = [calls EXCEPT ![c] =
              IF Belongs(decision, @.snapshot) /\ decision.accepted
              THEN [pc |-> "accepted", snapshot |-> @.snapshot,
                    proposal |-> decision.proposal]
              ELSE Refused]
    /\ UNCHANGED <<clock, ledger, desk, shown, confirmed, byHand, work, pool>>

\* It raises, runs out of time, or exits with a status that is not its answer.
EvaluatorFails(c) ==
    /\ calls[c].pc = "evaluating"
    /\ calls' = [calls EXCEPT ![c] = Refused]
    /\ UNCHANGED <<clock, ledger, desk, shown, confirmed, byHand, work, pool>>

SameContext_NonceOnly(context) == context.nonce = Nonce  \* Faulty: blocks may pass.

\* The context read again is the captured one: nothing was mined since.
SameContext(context) == context = Context

CheckContext(c) ==
    /\ calls[c].pc = "accepted"
    /\ calls' = [calls EXCEPT ![c] =
          IF SameContext(@.snapshot.context)
          THEN [pc |-> "current", snapshot |-> @.snapshot, proposal |-> @.proposal,
                seen |-> Len(ledger)]
          ELSE Refused]
    /\ UNCHANGED <<clock, ledger, desk, shown, confirmed, byHand, work, pool>>

\* verifyExecutionBinding, then send: the transaction does what was judged.
BindAndSend(c) ==
    /\ calls[c].pc = "current"
    /\ LET snapshot == calls[c].snapshot
       IN  IF snapshot.claim = snapshot.move
           THEN /\ calls' = [calls EXCEPT ![c] = Sent]
                /\ pool' = pool \cup
                     {[nonce |-> snapshot.context.nonce, move |-> snapshot.move,
                       seen |-> calls[c].seen, proposal |-> calls[c].proposal]}
           ELSE /\ calls' = [calls EXCEPT ![c] = Refused]
                /\ pool' = pool
    /\ UNCHANGED <<clock, ledger, desk, shown, confirmed, byHand, work>>

Call(c) ==
    \/ \E claim \in Claim, move \in Move, coverage \in 0..clock : Capture(c, claim, move, coverage)
    \/ \E about \in Caller : Evaluate(c, about)
    \/ EvaluatorFails(c) \/ CheckContext(c) \/ BindAndSend(c)

---------------------------------------------------------------------------
Init ==
    /\ clock = 0 /\ ledger = <<>>
    /\ desk = [request |-> None, proposal |-> None, approval |-> None]
    /\ shown = None /\ confirmed = {} /\ byHand = {} /\ work = 0
    /\ calls = [c \in Caller |-> Idle]
    /\ pool = {}

Next ==
    \/ Workflow
    \/ \E c \in Caller : Call(c)
    \/ Tick
    \/ \E m \in Move : MoveOutside(m)
    \/ \E tx \in pool : Mine(tx)

Spec == Init /\ [][Next]_vars

---------------------------------------------------------------------------
(* Properties.                                                             *)

Candidates == [context : [block : 0..MaxEntries, nonce : 0..MaxEntries],
               t : 0..MaxClock, claim : Claim, move : Move, coverage : 0..MaxClock]

\* Files, calls and transactions keep their shape, and the value of the
\* portfolio its range (models in verifier/synthesis_models.py:35-138).
TypeOK ==
    /\ clock \in 0..MaxClock /\ work \in 0..MaxWork
    /\ desk.request \in Requests \cup {None}
    /\ desk.proposal \in Proposals \cup {None}
    /\ desk.approval \in Approvals \cup {None}
    /\ shown \in Proposals \cup {None} /\ confirmed \cup byHand \subseteq Proposals
    /\ \A i \in DOMAIN ledger : {ledger[i].before, ledger[i].after} \subseteq 0..MaxValue
    /\ \A c \in Caller : calls[c].pc \in {"evaluating", "accepted", "current"}
                          => calls[c].snapshot \in Candidates
    /\ \A tx \in pool : tx.move \in Move /\ tx.proposal \in Proposals

\* Whatever is handed over was judged by a policy inside a proposal whose hash
\* the user typed after reading it, or that somebody approved by hand, writing
\* its confirmation, or the scope of a user, into the file.  No other edit of a
\* proposal, a policy or a hash, no fixture as it was written and no answer to
\* another request judges (synthesis_models.py:96-138,
\* evaluate_pre_execution.py:36).
JudgedAsShown ==
    /\ \A tx \in pool : tx.proposal \in confirmed \cup byHand
    /\ \A i \in DOMAIN ledger :
          ledger[i].by # Outside => ledger[i].by.proposal \in confirmed \cup byHand

\* One limit, said with quantifiers over the whole history of the chain.
Respected(inv, points) ==
    LET end == LastPoint(points)
        Recent == {i \in 1..Len(points) : end.t - points[i].t <= inv.window}
    IN  /\ inv.kind = "floor" => end.after >= inv.floor
        /\ inv.kind = "drawdown" =>
              (inv.reference - end.after) * BpsScale <= inv.reference * inv.bps
        /\ inv.kind = "lossCap" =>
              \A i \in Recent : points[i].before - end.after <= inv.cap
        /\ inv.kind = "lossBps" =>
              \A i \in Recent :
                 (points[i].before - end.after) * BpsScale <= points[i].before * inv.bps

Respects(invariants, points) ==
    \A k \in DOMAIN invariants : Respected(invariants[k], points)

\* A guarded transaction that is mined on the block readContext last saw
\* leaves the portfolio within every limit of its policy, measured on the
\* chain: at its real time, over all the history, not the part the caller
\* put into the candidate (pre-execution-gate.ts:166-194,
\* evaluate_candidate.py:72-80).
LimitsHoldOnChain ==
    \A i \in DOMAIN ledger :
        (ledger[i].by # Outside /\ ledger[i].by.seen = i - 1)
            => Respects(ledger[i].by.proposal.policy.invariants, Points(i))

\* A candidate cut out of the ledger gets no verdict or that of the ledger.
JudgedAsWhole(policy, trace) ==
    LET verdict == EvaluateCandidate(policy, trace)
    IN  verdict # "invalid" =>
           (verdict = "accepted" <=> Respects(policy.invariants, Points(Len(ledger))))

\* No relative window is longer than the longest absolute one, and no
\* reference has to be met.
FixtureSuffices(policy, start) ==
    \A i \in DOMAIN policy.invariants :
        LET inv == policy.invariants[i]
        IN  /\ inv.kind # "drawdown"
            /\ inv.kind = "lossBps" => ledger[Len(ledger)].t - inv.window >= start

\* However much history is cut off, a candidate that gets a verdict gets the
\* verdict of the whole history; and the fixture cut for a policy reaches back
\* far enough when its relative windows are no longer than its absolute ones
\* (evaluate_candidate.py:34-80, build_candidate_fixture.py:32-42).
CoverageDoesNotMatter ==
    ledger # <<>> =>
    \A p \in Policy :
        LET points == Points(Len(ledger))
        IN  /\ \A coverage \in 0..LastPoint(points).t :
                  JudgedAsWhole(p, CutAt(p.fork, points, coverage))
            /\ CanBuildFixture(p, p.fork, points) =>
                  LET fixture == BuildFixture(p, p.fork, points)
                  IN  /\ JudgedAsWhole(p, fixture)
                      /\ FixtureSuffices(p, fixture.coverage) =>
                            EvaluateCandidate(p, fixture) # "invalid"

\* The offline verdict on a series is the verdict on each of its steps: the
\* loops that keep a worst loss or a worst ratio miss no window
\* (evaluate_invariants.py:209-279).
SeriesIsItsSteps ==
    ledger # <<>> =>
    \A p \in Policy :
        LET verdict == EvaluatePoints(p.invariants, Points(Len(ledger)), FALSE)
            start == << [t |-> 0, before |-> StartValue, after |-> StartValue] >>
        IN  verdict # "invalid" =>
              (verdict = "accepted" <=>
                 /\ \A k \in 1..Len(ledger) : Respects(p.invariants, Points(k))
                 /\ Respects(p.invariants, start))
=============================================================================
