------------------------ MODULE PolicyConsoleProofs ------------------------
(***************************************************************************)
(* The console's invariants for every number of tabs, requests, floors and *)
(* transfers.  Each handler stores a state built by one of five operators; *)
(* the lemmas show that what it builds is consistent, the invariant that   *)
(* this is all a step can do to policy_state.                              *)
(***************************************************************************)
EXTENDS PolicyConsole, TLAPS

\* The request, the proposal and the approval of a state agree.
Bound(s) ==
    /\ s.approval \in {None, s.proposal}
    /\ s.proposal # None => s.proposal.request = s.request
    /\ s.stage \in {"approved", "executed", "rejected"} <=> s.approval # None

\* Its transaction was decided under its approval.
Decided(s) ==
    s.transaction # NotCreated =>
        /\ s.approval # None
        /\ s.transaction.plan.approval = s.approval

Consistent(s) == s \in State /\ Bound(s) /\ Decided(s)

WasSent(plan) == \E i \in 1 .. Len(sends) : sends[i].plan = plan
Justified(outcome, plan) ==
    \/ outcome = "rejected"
    \/ outcome = "submitted" /\ WasSent(plan)

\* The invariant: beside the state itself, a tab whose runner sent holds a plan
\* that is among the sends.
ConsoleInv ==
    /\ policy_state # None => Consistent(policy_state)
    /\ TypeOK
    /\ \A t \in Tab : pc[t] \in {"running", "attach"} =>
          job[t].plan \in Plan /\ job[t].plan.approval # None
    /\ \A t \in Tab : pc[t] = "attach" => Justified(job[t].outcome, job[t].plan)
    /\ SubmittedWasSent

LEMMA EmptyConsistent ==
    ASSUME NEW r \in Intent \cup Conditions
    PROVE  Consistent(Empty(r)) /\ Empty(r).transaction = NotCreated
  <1>1. NotCreated \in Transaction
    BY DEF NotCreated, Transaction
  <1>2. Empty(r) \in State
    BY <1>1 DEF Empty, State
  <1> QED
    BY <1>2 DEF Consistent, Bound, Decided, Empty

LEMMA WithProposalConsistent ==
    ASSUME NEW r \in Intent \cup Conditions, NEW floors \in Seq(Floor)
    PROVE  /\ Consistent(WithProposal(r, floors))
           /\ WithProposal(r, floors).transaction = NotCreated
  <1> DEFINE p == [request |-> r, floors |-> floors]
             s == WithProposal(r, floors)
  <1>1. p \in Proposal
    BY DEF Proposal
  <1>2. /\ s.stage = "proposal-ready" /\ s.request = r /\ s.proposal = p
        /\ s.approval = None /\ s.transaction = NotCreated
    BY DEF WithProposal, Empty
  <1>3. Empty(r) \in State
    BY EmptyConsistent DEF Consistent
  <1>4. s \in State
    BY <1>1, <1>3 DEF WithProposal, State
  <1> QED
    BY <1>2, <1>4 DEF Consistent, Bound, Decided

\* What revise_current_policy stores.
LEMMA RevisedConsistent ==
    ASSUME NEW s \in State, Bound(s), s.proposal # None, NEW f \in Floor
    PROVE  Consistent(Revised(s, f)) /\ Revised(s, f).transaction = NotCreated
  <1> DEFINE r == Revised(s, f)
  <1>1. /\ s.proposal \in Proposal /\ s.history \in Seq(Proposal)
        /\ s.request \in Intent \cup Conditions
        /\ s.proposal.request = s.request
    BY DEF State, Bound
  <1> DEFINE p == [s.proposal EXCEPT !.floors = Append(@, f)]
  <1>2. p \in Proposal /\ p.request = s.request
    <2>1. s.proposal = [request |-> s.proposal.request, floors |-> s.proposal.floors]
      BY <1>1 DEF Proposal
    <2>2. s.proposal.floors \in Seq(Floor)
      BY <1>1 DEF Proposal
    <2>3. Append(s.proposal.floors, f) \in Seq(Floor)
      BY <2>2
    <2>4. p = [request |-> s.proposal.request, floors |-> Append(s.proposal.floors, f)]
      BY <2>1
    <2> HIDE DEF p
    <2> QED
      BY <1>1, <2>3, <2>4 DEF Proposal
  <1>3. /\ r.stage = "proposal-ready" /\ r.request = s.request
        /\ r.proposal = p /\ r.approval = None /\ r.transaction = NotCreated
    BY DEF State, Revised
  <1>4. Append(s.history, s.proposal) \in Seq(Proposal)
    BY <1>1
  <1>5. NotCreated \in Transaction
    BY DEF NotCreated, Transaction
  <1>6. r \in State
    BY <1>2, <1>4, <1>5 DEF State, Revised
  <1> HIDE DEF r
  <1>7. Consistent(r) /\ r.transaction = NotCreated
    BY <1>2, <1>3, <1>6 DEF Consistent, Bound, Decided
  <1> QED
    BY <1>7 DEF r

\* What approve_current_policy stores.  A transaction that is already there was
\* decided under the same approval.
LEMMA ApprovedConsistent ==
    ASSUME NEW s \in State, Consistent(s), s.proposal # None,
           NEW e \in Judgements(s)
    PROVE  /\ Consistent(Approved(s, e))
           /\ Approved(s, e).transaction = s.transaction
  <1> DEFINE r == Approved(s, e)
  <1>1. /\ s.proposal \in Proposal
        /\ e \in {"none", "accepted", "rejected", "evaluation-invalid"}
    BY DEF State, Judgements
  <1>2. /\ r.stage = "approved" /\ r.request = s.request
        /\ r.proposal = s.proposal /\ r.approval = s.proposal
        /\ r.transaction = s.transaction
    BY DEF State, Approved
  <1>3. r \in State
    BY <1>1 DEF State, Approved
  <1> HIDE DEF r
  <1>4. Decided(r)
    BY <1>2 DEF Decided, Consistent, Bound
  <1>5. Consistent(r)
    BY <1>2, <1>3, <1>4 DEF Consistent, Bound
  <1> QED
    BY <1>2, <1>5 DEF r

\* What the second section of execute_current_policy stores.
LEMMA AttachedConsistent ==
    ASSUME NEW s \in State, Consistent(s),
           NEW plan \in Plan, NEW outcome \in {"submitted", "rejected"},
           s.approval = plan.approval, plan.approval # None,
           NEW e \in {"accepted", "rejected"}
    PROVE  /\ Consistent(Attached(s, e, outcome, plan))
           /\ Attached(s, e, outcome, plan).transaction.status = outcome
           /\ Attached(s, e, outcome, plan).transaction.plan = plan
  <1> DEFINE r == Attached(s, e, outcome, plan)
  <1>1. [status |-> outcome, plan |-> plan] \in Transaction
    BY DEF Transaction
  <1>2. /\ r.stage \in {"executed", "rejected"} /\ r.request = s.request
        /\ r.proposal = s.proposal /\ r.approval = s.approval
        /\ r.transaction = [status |-> outcome, plan |-> plan]
    BY DEF State, Attached
  <1>3. r \in State
    BY <1>1 DEF State, Attached
  <1> HIDE DEF r
  <1>4. Consistent(r)
    BY <1>2, <1>3 DEF Consistent, Bound, Decided
  <1> QED
    BY <1>2, <1>4 DEF r

LEMMA ConsoleInit == Init => ConsoleInv
  <1> SUFFICES ASSUME Init PROVE ConsoleInv
    OBVIOUS
  <1>1. NoJob \in Job
    BY DEF NoJob, Job
  <1>2. TypeOK
    BY <1>1, ConsoleAssumption DEF Init, TypeOK
  <1> QED
    BY <1>2 DEF Init, ConsoleInv, SubmittedWasSent

\* Storing a consistent state whose transaction is justified, or none at all.
LEMMA StoreKeepsConsole ==
    ASSUME ConsoleInv, NEW t \in Tab, NEW s, Store(t, s),
           s # None =>
               /\ Consistent(s)
               /\ s.transaction.status = "submitted" => WasSent(s.transaction.plan),
           sends' = sends,
           \/ pc' = pc /\ job' = job
           \/ pc' = [pc EXCEPT ![t] = "idle"] /\ job' = [job EXCEPT ![t] = NoJob],
           author' \in Nat,
           used' \in [acts : 0 .. MaxActs, restarts : 0 .. MaxRestarts]
    PROVE  ConsoleInv'
  <1>1. policy_state' = s /\ view' = [view EXCEPT ![t] = s] /\ s \in State \cup {None}
    BY DEF Store, Consistent
  <1>2. NoJob \in Job
    BY DEF NoJob, Job
  <1>3. TypeOK'
    BY <1>1, <1>2 DEF ConsoleInv, TypeOK
  <1>4. \A u \in Tab : pc'[u] # "idle" => pc'[u] = pc[u] /\ job'[u] = job[u]
    BY DEF ConsoleInv, TypeOK
  <1>5. SubmittedWasSent'
    BY <1>1 DEF SubmittedWasSent, WasSent
  <1> QED
    BY <1>1, <1>3, <1>4, <1>5 DEF ConsoleInv, Justified, WasSent

\* A request that ends, and a request that moves on, without a new state.
LEMMA RefusedKeepsConsole ==
    ASSUME ConsoleInv, NEW t \in Tab, Refused(t),
           \/ sends' = sends
           \/ \E r \in [plan : Plan, valid : BOOLEAN] : sends' = Append(sends, r),
           UNCHANGED <<author, used>>
    PROVE  ConsoleInv'
  <1>1. NoJob \in Job
    BY DEF NoJob, Job
  <1>2. /\ pc' = [pc EXCEPT ![t] = "idle"] /\ job' = [job EXCEPT ![t] = NoJob]
        /\ UNCHANGED <<policy_state, view>>
    BY DEF Refused
  <1> DEFINE S == [plan : Plan, valid : BOOLEAN]
  <1>3. /\ sends' \in Seq(S)
        /\ Len(sends) \in Nat /\ Len(sends') >= Len(sends)
        /\ \A i \in 1 .. Len(sends) : sends'[i] = sends[i]
    <2>1. sends \in Seq(S) /\ (sends' = sends \/ \E r \in S : sends' = Append(sends, r))
      BY DEF ConsoleInv, TypeOK
    <2> HIDE DEF S
    <2>2. CASE sends' = sends
      BY <2>1, <2>2
    <2>3. CASE \E r \in S : sends' = Append(sends, r)
      BY <2>1, <2>3
    <2> QED
      BY <2>1, <2>2, <2>3
  <1>4. TypeOK'
    BY <1>1, <1>2, <1>3 DEF ConsoleInv, TypeOK
  <1>5. \A u \in Tab : pc'[u] # "idle" => pc'[u] = pc[u] /\ job'[u] = job[u]
    BY <1>2 DEF ConsoleInv, TypeOK
  <1>6. \A plan : WasSent(plan) => WasSent(plan)'
    BY <1>3 DEF WasSent
  <1>7. SubmittedWasSent'
    BY <1>2, <1>6 DEF ConsoleInv, SubmittedWasSent, WasSent
  <1> QED
    BY <1>2, <1>4, <1>5, <1>6, <1>7 DEF ConsoleInv, Justified, WasSent

\* The types a step starts from.
LEMMA ConsoleTypes ==
    ASSUME ConsoleInv
    PROVE  /\ policy_state # None => policy_state \in State /\ Consistent(policy_state)
           /\ pc \in [Tab -> {"idle", "compiling", "running", "attach"}]
           /\ job \in [Tab -> Job]
           /\ used \in [acts : 0 .. MaxActs, restarts : 0 .. MaxRestarts]
           /\ used.acts \in Nat /\ author \in Nat
  BY ConsoleAssumption DEF ConsoleInv, Consistent, TypeOK

\* The counters after one more request.
LEMMA SubmitsCounts ==
    ASSUME ConsoleInv, NEW t \in Tab, Submits(t)
    PROVE  /\ used' \in [acts : 0 .. MaxActs, restarts : 0 .. MaxRestarts]
           /\ used.acts + 1 \in Nat
  <1>1. used \in [acts : 0 .. MaxActs, restarts : 0 .. MaxRestarts]
    BY DEF ConsoleInv, TypeOK
  <1>2. used.acts + 1 \in 0 .. MaxActs /\ used.acts + 1 \in Nat
    BY <1>1, ConsoleAssumption DEF Submits
  <1> QED
    BY <1>1, <1>2 DEF Submits

LEMMA LoadKeepsConsole ==
    ASSUME ConsoleInv, NEW t \in Tab, Load(t)
    PROVE  ConsoleInv'
  <1> DEFINE s == IF policy_state = None THEN Empty(DefaultIntent) ELSE policy_state
  <1>1. Store(t, s) /\ UNCHANGED <<pc, job, sends, author, used>>
    BY DEF Load
  <1>2. Consistent(s) /\ (s.transaction.status = "submitted" => WasSent(s.transaction.plan))
    <2>1. CASE policy_state = None
      BY <2>1, EmptyConsistent, ConsoleAssumption DEF NotCreated
    <2>2. CASE policy_state # None
      BY <2>2 DEF ConsoleInv, SubmittedWasSent, WasSent
    <2> QED
      BY <2>1, <2>2
  <1> HIDE DEF s
  <1> QED
    BY <1>1, <1>2, ConsoleTypes, StoreKeepsConsole

\* A pending state, and a job that has not run yet.
LEMMA SubmitIntentKeepsConsole ==
    ASSUME ConsoleInv, NEW t \in Tab, NEW i \in Intent, SubmitIntent(t, i)
    PROVE  ConsoleInv'
  <1> DEFINE j == [NoJob EXCEPT !.request = i, !.act = used.acts + 1]
  <1>1. j \in Job
    BY SubmitsCounts DEF SubmitIntent, NoJob, Job
  <1>2. /\ policy_state' = Empty(i) /\ view' = view /\ sends' = sends
        /\ pc' = [pc EXCEPT ![t] = "compiling"] /\ job' = [job EXCEPT ![t] = j]
        /\ author' = used.acts + 1
        /\ used' \in [acts : 0 .. MaxActs, restarts : 0 .. MaxRestarts]
    BY SubmitsCounts DEF SubmitIntent
  <1>3. Consistent(Empty(i)) /\ Empty(i).transaction = NotCreated
    BY EmptyConsistent
  <1> HIDE DEF j
  <1>4. TypeOK'
    BY <1>1, <1>2, <1>3, SubmitsCounts DEF ConsoleInv, TypeOK, Consistent, SubmitIntent
  <1>5. SubmittedWasSent'
    BY <1>2, <1>3 DEF SubmittedWasSent, NotCreated
  <1>6. \A u \in Tab : pc'[u] \in {"running", "attach"} =>
            pc'[u] = pc[u] /\ job'[u] = job[u]
    BY <1>2, ConsoleTypes
  <1> QED
    BY <1>2, <1>3, <1>4, <1>5, <1>6 DEF ConsoleInv, Justified, WasSent

\* A compilation is a floor of the request or nothing.
LEMMA CompiledForms ==
    ASSUME NEW q, NEW s \in Compiled(q)
    PROVE  s = Empty(q) \/ \E f \in Floor : s = WithProposal(q, <<f>>)
  <1>1. PICK output \in Assembled :
            s = IF Approvable(output) THEN WithProposal(q, <<output.floor>>) ELSE Empty(q)
    BY DEF Compiled
  <1>2. output.floor \in Floor
    BY DEF Assembled, Responses, Outputs
  <1> QED
    BY <1>1, <1>2, Zenon

LEMMA CompileReturnsKeepsConsole ==
    ASSUME ConsoleInv, NEW t \in Tab, CompileReturns(t)
    PROVE  ConsoleInv'
  <1>1. /\ sends' = sends /\ used' = used
        /\ pc' = [pc EXCEPT ![t] = "idle"] /\ job' = [job EXCEPT ![t] = NoJob]
    BY DEF CompileReturns
  <1>2. author' \in Nat
    BY ConsoleTypes DEF CompileReturns, Job
  <1>3. CASE Superseded(job[t].request)
    <2>1. Store(t, policy_state)
      BY <1>3 DEF CompileReturns
    <2> QED
      BY <1>1, <1>2, <2>1, ConsoleTypes, StoreKeepsConsole
         DEF ConsoleInv, SubmittedWasSent, WasSent
  <1>4. CASE ~Superseded(job[t].request)
    <2>1. PICK s \in Compiled(job[t].request) : Store(t, s)
      BY <1>4 DEF CompileReturns
    <2>2. job[t].request \in Intent \cup Conditions
      BY <1>4, ConsoleTypes DEF Superseded, State
    <2>3. Consistent(s) /\ s.transaction = NotCreated
      <3>1. CASE s = Empty(job[t].request)
        BY <2>2, <3>1, EmptyConsistent
      <3>2. CASE \E f \in Floor : s = WithProposal(job[t].request, <<f>>)
        <4>1. PICK f \in Floor : s = WithProposal(job[t].request, <<f>>)
          BY <3>2
        <4>2. <<f>> \in Seq(Floor)
          OBVIOUS
        <4>3. \A floors \in Seq(Floor) :
                 /\ Consistent(WithProposal(job[t].request, floors))
                 /\ WithProposal(job[t].request, floors).transaction = NotCreated
          BY <2>2, WithProposalConsistent
        <4> QED
          BY <4>1, <4>2, <4>3, Zenon
      <3> QED
        BY <2>1, <3>1, <3>2, CompiledForms
    <2>4. s.transaction.status # "submitted"
      BY <2>3 DEF NotCreated
    <2> QED
      BY <1>1, <1>2, <2>1, <2>3, <2>4, ConsoleTypes, StoreKeepsConsole
  <1> QED
    BY <1>3, <1>4

LEMMA SubmitConditionsKeepsConsole ==
    ASSUME ConsoleInv, NEW t \in Tab, NEW c \in Conditions, SubmitConditions(t, c)
    PROVE  ConsoleInv'
  <1> DEFINE s == WithProposal(c, <<>>)
  <1>1. Store(t, s) /\ UNCHANGED <<pc, job, sends>> /\ author' \in Nat
    BY SubmitsCounts DEF SubmitConditions
  <1>2. used' \in [acts : 0 .. MaxActs, restarts : 0 .. MaxRestarts]
    BY SubmitsCounts DEF SubmitConditions
  <1>3. Consistent(s) /\ s.transaction = NotCreated
    <2>1. << >> \in Seq(Floor)
      OBVIOUS
    <2>2. \A floors \in Seq(Floor) :
             /\ Consistent(WithProposal(c, floors))
             /\ WithProposal(c, floors).transaction = NotCreated
      BY WithProposalConsistent
    <2> QED
      BY <2>1, <2>2, Zenon
  <1> HIDE DEF s
  <1>4. s.transaction.status # "submitted"
    BY <1>3 DEF NotCreated
  <1> QED
    BY <1>1, <1>2, <1>3, <1>4, StoreKeepsConsole

LEMMA ReviseKeepsConsole ==
    ASSUME ConsoleInv, NEW t \in Tab, NEW f \in Floor, Revise(t, f)
    PROVE  ConsoleInv'
  <1>1. policy_state \in State /\ Bound(policy_state) /\ policy_state.proposal # None
    BY ConsoleTypes DEF Revise, Confirms, HasProposal, Consistent
  <1>2. /\ Store(t, Revised(policy_state, f)) /\ UNCHANGED <<pc, job, sends, author>>
        /\ used' \in [acts : 0 .. MaxActs, restarts : 0 .. MaxRestarts]
    BY SubmitsCounts DEF Revise
  <1>3. /\ Consistent(Revised(policy_state, f))
        /\ Revised(policy_state, f).transaction = NotCreated
    BY <1>1, RevisedConsistent
  <1>4. Revised(policy_state, f).transaction.status # "submitted"
    BY <1>3 DEF NotCreated
  <1> QED
    BY <1>2, <1>3, <1>4, ConsoleTypes, StoreKeepsConsole

LEMMA ApproveKeepsConsole ==
    ASSUME ConsoleInv, NEW t \in Tab, Approve(t)
    PROVE  ConsoleInv'
  <1>1. /\ policy_state \in State /\ Consistent(policy_state)
        /\ policy_state # None /\ policy_state.proposal # None
    BY ConsoleTypes DEF Approve, Confirms, HasProposal
  <1>2. PICK e \in Judgements(policy_state) : Store(t, Approved(policy_state, e))
    BY DEF Approve
  <1>3. /\ Consistent(Approved(policy_state, e))
        /\ Approved(policy_state, e).transaction = policy_state.transaction
    BY <1>1, ApprovedConsistent
  <1>4. /\ UNCHANGED <<pc, job, sends, author>>
        /\ used' \in [acts : 0 .. MaxActs, restarts : 0 .. MaxRestarts]
    BY SubmitsCounts DEF Approve
  <1>5. policy_state.transaction.status = "submitted" => WasSent(policy_state.transaction.plan)
    BY <1>1 DEF ConsoleInv, SubmittedWasSent, WasSent
  <1> QED
    BY <1>2, <1>3, <1>4, <1>5, ConsoleTypes, StoreKeepsConsole

\* The plan an execution takes along is one of an approved proposal.
LEMMA ExecuteKeepsConsole ==
    ASSUME ConsoleInv, NEW t \in Tab, NEW x \in Transfer, Execute(t, x)
    PROVE  ConsoleInv'
  <1> DEFINE plan == [approval |-> policy_state.approval, transfer |-> x]
             j == [NoJob EXCEPT !.request = policy_state.request, !.plan = plan]
  <1>1. /\ policy_state \in State /\ policy_state.approval # None
        /\ policy_state.approval \in Proposal
        /\ policy_state.request \in Intent \cup Conditions
    <2>1. policy_state \in State /\ policy_state.approval # None
      BY ConsoleTypes DEF Execute
    <2> QED
      BY <2>1 DEF State
  <1>2. plan \in Plan /\ plan.approval # None
    BY <1>1 DEF Plan
  <1>3. j \in Job /\ j.plan = plan
    BY <1>1, <1>2 DEF NoJob, Job
  <1>4. /\ UNCHANGED <<policy_state, view, sends, author>>
        /\ pc' = [pc EXCEPT ![t] = "running"] /\ job' = [job EXCEPT ![t] = j]
        /\ used' \in [acts : 0 .. MaxActs, restarts : 0 .. MaxRestarts]
    BY SubmitsCounts DEF Execute
  <1> HIDE DEF j, plan
  <1>5. TypeOK'
    BY <1>3, <1>4 DEF ConsoleInv, TypeOK
  <1>6. \A u \in Tab \ {t} : pc'[u] = pc[u] /\ job'[u] = job[u]
    BY <1>4, ConsoleTypes
  <1>7. pc'[t] = "running" /\ job'[t] = j
    BY <1>4, ConsoleTypes
  <1>8. \A u \in Tab : pc'[u] \in {"running", "attach"} =>
          job'[u].plan \in Plan /\ job'[u].plan.approval # None
    BY <1>2, <1>3, <1>6, <1>7 DEF ConsoleInv
  <1>9. \A u \in Tab : (pc[u] = "attach" => Justified(job[u].outcome, job[u].plan))'
    BY <1>4, <1>6, <1>7 DEF ConsoleInv, Justified, WasSent
  <1> QED
    BY <1>4, <1>5, <1>8, <1>9
       DEF ConsoleInv, SubmittedWasSent, Consistent, Bound, Decided

\* A runner that ends leaves the state alone and its outcome is justified.
LEMMA RunnerEndsKeepsConsole ==
    ASSUME ConsoleInv, NEW t \in Tab, pc[t] = "running",
           NEW outcome \in {"submitted", "rejected"}, RunnerEnds(t, outcome),
           sends' \in Seq([plan : Plan, valid : BOOLEAN]),
           \A plan : WasSent(plan) => WasSent(plan)',
           Justified(outcome, job[t].plan)',
           job'[t].plan = job[t].plan,
           UNCHANGED <<author, used>>
    PROVE  ConsoleInv'
  <1>1. /\ UNCHANGED <<policy_state, view>>
        /\ pc' = [pc EXCEPT ![t] = "attach"]
        /\ job' = [job EXCEPT ![t].outcome = outcome]
    BY DEF RunnerEnds
  <1>2. job' \in [Tab -> Job] /\ job'[t].outcome = outcome
    BY <1>1, ConsoleTypes DEF Job
  <1>3. TypeOK'
    BY <1>1, <1>2 DEF ConsoleInv, TypeOK
  <1>4. \A u \in Tab \ {t} : pc'[u] = pc[u] /\ job'[u] = job[u]
    BY <1>1, ConsoleTypes
  <1>5. \A u \in Tab : pc'[u] \in {"running", "attach"} =>
          job'[u].plan \in Plan /\ job'[u].plan.approval # None
    BY <1>4 DEF ConsoleInv
  <1>6. \A u \in Tab : (pc[u] = "attach" => Justified(job[u].outcome, job[u].plan))'
    BY <1>2, <1>4 DEF ConsoleInv, Justified
  <1>7. SubmittedWasSent'
    BY <1>1 DEF ConsoleInv, SubmittedWasSent, WasSent
  <1> QED
    BY <1>1, <1>3, <1>5, <1>6, <1>7 DEF ConsoleInv, Consistent, Bound, Decided

\* A send is remembered, and so is every one before it.
LEMMA SendIsRemembered ==
    ASSUME ConsoleInv, NEW t \in Tab, pc[t] = "running", Send(t)
    PROVE  /\ \E r \in [plan : Plan, valid : BOOLEAN] : sends' = Append(sends, r)
           /\ sends' \in Seq([plan : Plan, valid : BOOLEAN])
           /\ \A plan : WasSent(plan) => WasSent(plan)'
           /\ \E i \in 1 .. Len(sends') : sends'[i].plan = job[t].plan
  <1> DEFINE S == [plan : Plan, valid : BOOLEAN]
             r == [plan |-> job[t].plan, valid |-> CurrentApproval = job[t].plan.approval]
  <1>1. r \in S /\ r.plan = job[t].plan
    BY DEF ConsoleInv
  <1>2. sends \in Seq(S) /\ sends' = Append(sends, r)
    BY DEF ConsoleInv, TypeOK, Send
  <1> HIDE DEF r, S
  <1>3. /\ sends' \in Seq(S) /\ Len(sends) \in Nat /\ Len(sends') = Len(sends) + 1
        /\ sends'[Len(sends')] = r
        /\ \A i \in 1 .. Len(sends) : sends'[i] = sends[i]
    BY <1>1, <1>2
  <1>4. \A plan : WasSent(plan) => WasSent(plan)'
    BY <1>3 DEF WasSent
  <1>5. \E i \in 1 .. Len(sends') : sends'[i].plan = job[t].plan
    BY <1>1, <1>3
  <1> QED
    BY <1>1, <1>2, <1>3, <1>4, <1>5 DEF S

LEMMA RunnerSendsKeepsConsole ==
    ASSUME ConsoleInv, NEW t \in Tab, RunnerSends(t)
    PROVE  ConsoleInv'
  <1>1. pc[t] = "running" /\ Send(t) /\ UNCHANGED <<author, used>>
    BY DEF RunnerSends
  <1>2. CASE Refused(t)
    BY <1>1, <1>2, SendIsRemembered, RefusedKeepsConsole
  <1>3. CASE RunnerEnds(t, "submitted")
    <2>1. job'[t].plan = job[t].plan
      BY <1>3, ConsoleTypes DEF RunnerEnds, Job
    <2>2. Justified("submitted", job[t].plan)'
      BY <1>1, <2>1, SendIsRemembered DEF Justified, WasSent
    <2> QED
      BY <1>1, <1>3, <2>1, <2>2, SendIsRemembered, RunnerEndsKeepsConsole
  <1> QED
    BY <1>2, <1>3 DEF RunnerSends

LEMMA RunnerStopsKeepsConsole ==
    ASSUME ConsoleInv, NEW t \in Tab, RunnerStops(t)
    PROVE  ConsoleInv'
  <1>1. pc[t] = "running" /\ UNCHANGED <<sends, author, used>>
    BY DEF RunnerStops
  <1>2. CASE Refused(t)
    BY <1>1, <1>2, RefusedKeepsConsole
  <1>3. CASE RunnerEnds(t, "rejected")
    <2>1. job'[t].plan = job[t].plan
      BY <1>3, ConsoleTypes DEF RunnerEnds, Job
    <2>2. Justified("rejected", job[t].plan)'
      BY DEF Justified
    <2>3. sends' \in Seq([plan : Plan, valid : BOOLEAN])
      BY <1>1 DEF ConsoleInv, TypeOK
    <2>4. \A plan : WasSent(plan) => WasSent(plan)'
      BY <1>1 DEF WasSent
    <2> QED
      BY <1>1, <1>3, <2>1, <2>2, <2>3, <2>4, RunnerEndsKeepsConsole
  <1> QED
    BY <1>2, <1>3 DEF RunnerStops

LEMMA AttachKeepsConsole ==
    ASSUME ConsoleInv, NEW t \in Tab, Attach(t)
    PROVE  ConsoleInv'
  <1>1. pc[t] = "attach" /\ UNCHANGED <<sends, author, used>>
    BY DEF Attach
  <1>2. CASE Refused(t)
    BY <1>1, <1>2, RefusedKeepsConsole
  <1>3. ASSUME Unchanged(t), pc' = [pc EXCEPT ![t] = "idle"],
               job' = [job EXCEPT ![t] = NoJob],
               NEW e \in Evaluations(job[t].outcome),
               Store(t, Attached(policy_state, e, job[t].outcome, job[t].plan))
        PROVE  ConsoleInv'
    <2>1. /\ job[t].plan \in Plan /\ job[t].plan.approval # None
          /\ job[t].outcome \in {"submitted", "rejected"}
          /\ job[t].outcome = "submitted" => WasSent(job[t].plan)
      BY <1>1 DEF ConsoleInv, Justified
    <2>2. /\ policy_state \in State /\ Consistent(policy_state)
          /\ policy_state.approval = job[t].plan.approval
      BY <1>3, ConsoleTypes DEF Unchanged
    <2>3. e \in {"accepted", "rejected"}
      BY <1>3 DEF Evaluations
    <2> DEFINE r == Attached(policy_state, e, job[t].outcome, job[t].plan)
    <2>6. /\ Consistent(r) /\ r.transaction.status = job[t].outcome
          /\ r.transaction.plan = job[t].plan
      BY <2>1, <2>2, <2>3, AttachedConsistent
    <2>4. Store(t, r)
      BY <1>3
    <2>7. r.transaction.status = "submitted" => WasSent(r.transaction.plan)
      BY <2>1, <2>6
    <2> HIDE DEF r
    <2> QED
      BY <1>1, <1>3, <2>4, <2>6, <2>7, ConsoleTypes, StoreKeepsConsole
  <1> QED
    BY <1>2, <1>3 DEF Attach

LEMMA RestartKeepsConsole ==
    ASSUME ConsoleInv, Restart
    PROVE  ConsoleInv'
  <1>1. NoJob \in Job
    BY DEF NoJob, Job
  <1>2. used' \in [acts : 0 .. MaxActs, restarts : 0 .. MaxRestarts]
    BY ConsoleTypes, ConsoleAssumption DEF Restart
  <1>3. TypeOK'
    BY <1>1, <1>2 DEF ConsoleInv, TypeOK, Restart
  <1> QED
    BY <1>3 DEF ConsoleInv, SubmittedWasSent, Restart

LEMMA ConsoleStep == ConsoleInv /\ [Next]_vars => ConsoleInv'
  <1> SUFFICES ASSUME ConsoleInv, [Next]_vars PROVE ConsoleInv'
    OBVIOUS
  <1>1. ASSUME NEW t \in Tab, User(t) PROVE ConsoleInv'
    BY <1>1, LoadKeepsConsole, SubmitIntentKeepsConsole, SubmitConditionsKeepsConsole,
       ReviseKeepsConsole, ApproveKeepsConsole, ExecuteKeepsConsole DEF User
  <1>2. ASSUME NEW t \in Tab, Server(t) PROVE ConsoleInv'
    <2>1. CASE CompileFails(t)
      BY <2>1, RefusedKeepsConsole DEF CompileFails
    <2> QED
      BY <1>2, <2>1, CompileReturnsKeepsConsole, RunnerSendsKeepsConsole,
         RunnerStopsKeepsConsole, AttachKeepsConsole DEF Server
  <1>3. CASE UNCHANGED vars
    BY <1>3 DEF ConsoleInv, Consistent, Bound, Decided, TypeOK, Justified, WasSent,
                SubmittedWasSent, vars
  <1> QED
    BY <1>1, <1>2, <1>3, RestartKeepsConsole DEF Next

\* The server's state, the tabs' requests and the counters stay well-typed.
THEOREM ConsoleTyped == Spec => []TypeOK
  <1>1. ConsoleInv => TypeOK
    BY DEF ConsoleInv
  <1> QED
    BY <1>1, ConsoleInit, ConsoleStep, PTL DEF Spec

\* Whatever the tabs do and however late an answer comes, an approval in force is
\* the approval of the proposal on display, for the request on display.
THEOREM ApprovalsAreBound == Spec => []ApprovalBindsProposal
  <1>1. ConsoleInv => ApprovalBindsProposal
    BY DEF ConsoleInv, Consistent, Bound, ApprovalBindsProposal, HasProposal
  <1> QED
    BY <1>1, ConsoleInit, ConsoleStep, PTL DEF Spec

\* The stage always says whether an approval is in force.
THEOREM StagesAreTrue == Spec => []StageMatchesApproval
  <1>1. ConsoleInv => StageMatchesApproval
    BY DEF ConsoleInv, Consistent, Bound, StageMatchesApproval
  <1> QED
    BY <1>1, ConsoleInit, ConsoleStep, PTL DEF Spec

\* A transaction on display was decided under the approval in force.
THEOREM TransactionsAreDecided == Spec => []TransactionBindsApproval
  <1>1. ConsoleInv => TransactionBindsApproval
    BY DEF ConsoleInv, Consistent, Decided, TransactionBindsApproval
  <1> QED
    BY <1>1, ConsoleInit, ConsoleStep, PTL DEF Spec

\* A transaction on display as submitted was sent, whichever tab's runner did it
\* and however many others have finished since.
THEOREM SubmissionsWereSent == Spec => []SubmittedWasSent
  <1>1. ConsoleInv => SubmittedWasSent
    BY DEF ConsoleInv
  <1> QED
    BY <1>1, ConsoleInit, ConsoleStep, PTL DEF Spec

-----------------------------------------------------------------------------
(* The history is the lineage of the proposal. *)

Lineage(s) ==
    /\ \A i \in 1 .. Len(s.history) :
          s.history[i] = [request |-> s.request,
                          floors |-> SubSeq(s.proposal.floors, 1, i)]
    /\ Core(s.proposal) => Len(s.history) = Len(s.proposal.floors) - 1
    /\ \A i \in 1 .. Len(s.proposal.floors) - 1 :
          s.proposal.floors[i] # s.proposal.floors[i + 1]

LineageInv == HasProposal(policy_state) => Lineage(policy_state)

\* A first proposal has no history, compiled or structured.
LEMMA FirstProposalLineage ==
    ASSUME NEW r \in Intent \cup Conditions, NEW floors \in Seq(Floor),
           \/ Len(floors) = 1
           \/ r \in Conditions /\ Len(floors) = 0
    PROVE  Lineage(WithProposal(r, floors))
  <1> DEFINE s == WithProposal(r, floors)
  <1>1. /\ s.history = <<>> /\ s.proposal = [request |-> r, floors |-> floors]
        /\ s.proposal.floors = floors /\ s.proposal.request = r
    BY DEF WithProposal, Empty
  <1>2. r \in Conditions => ~Core(s.proposal)
    BY <1>1, ConsoleAssumption DEF Core
  <1> HIDE DEF s
  <1>3. Lineage(s)
    BY <1>1, <1>2 DEF Lineage
  <1> QED
    BY <1>3 DEF s

\* A revision adds its source to the history.
LEMMA RevisedLineage ==
    ASSUME NEW s \in State, Bound(s), s.proposal # None, Lineage(s),
           Core(s.proposal), NEW f \in Floor, f # Last(s.proposal.floors)
    PROVE  Lineage(Revised(s, f))
  <1> DEFINE r == Revised(s, f)
             old == s.proposal.floors
             new == Append(old, f)
             h == s.history
  <1>1. /\ s.proposal \in Proposal /\ s.history \in Seq(Proposal)
        /\ s.proposal.request = s.request /\ old \in Seq(Floor)
        /\ s.proposal = [request |-> s.request, floors |-> old]
    BY DEF State, Bound, Proposal
  <1>2. r.proposal.floors = new /\ r.request = s.request /\ r.history = Append(h, s.proposal)
    BY <1>1 DEF State, Proposal, Revised
  <1>3. Len(h) = Len(old) - 1 /\ Len(h) \in Nat /\ Len(old) \in Nat
    BY <1>1 DEF Lineage
  <1>4. ASSUME NEW i \in 1 .. Len(old)
        PROVE  SubSeq(new, 1, i) = SubSeq(old, 1, i)
    BY <1>1, <1>4
  <1>5. SubSeq(old, 1, Len(old)) = old
    BY <1>1
  <1>6. ASSUME NEW i \in 1 .. Len(r.history)
        PROVE  r.history[i] = [request |-> r.request,
                               floors |-> SubSeq(r.proposal.floors, 1, i)]
    <2> HIDE DEF r, new, old
    <2>1. Len(r.history) = Len(h) + 1
      BY <1>1, <1>2
    <2>2. CASE i <= Len(h)
      <3>1. i \in 1 .. Len(h) /\ i \in 1 .. Len(old)
        BY <1>3, <1>6, <2>1, <2>2
      <3>2. r.history[i] = h[i]
        BY <1>1, <1>2, <3>1
      <3>3. h[i] = [request |-> s.request, floors |-> SubSeq(old, 1, i)]
        BY <3>1 DEF Lineage, old
      <3> QED
        BY <1>2, <1>4, <3>1, <3>2, <3>3
    <2>3. CASE i = Len(h) + 1
      <3>1. r.history[i] = s.proposal /\ i = Len(old) /\ i \in 1 .. Len(old)
        BY <1>1, <1>2, <1>3, <2>3
      <3>2. SubSeq(new, 1, i) = old
        BY <1>4, <1>5, <3>1
      <3> QED
        BY <1>1, <1>2, <3>1, <3>2
    <2> QED
      BY <1>3, <2>1, <2>2, <2>3
  <1>7. Len(r.history) = Len(r.proposal.floors) - 1
    <2> HIDE DEF r, old
    <2> QED
      BY <1>1, <1>2, <1>3
  <1>8. ASSUME NEW i \in 1 .. Len(new) - 1 PROVE new[i] # new[i + 1]
    <2> HIDE DEF r, old
    <2>1. Len(new) = Len(old) + 1 /\ new[Len(old) + 1] = f
      BY <1>1
    <2>2. CASE i < Len(old)
      <3>1. i \in 1 .. Len(old) - 1 /\ new[i] = old[i] /\ new[i + 1] = old[i + 1]
        BY <1>1, <1>3, <1>8, <2>1, <2>2
      <3>2. old[i] # old[i + 1]
        BY <3>1 DEF Lineage, old
      <3> QED
        BY <3>1, <3>2
    <2>3. CASE i = Len(old)
      <3>1. new[i] = old[Len(old)] /\ new[i + 1] = f
        BY <1>1, <1>3, <2>1, <2>3
      <3> QED
        BY <3>1 DEF Last, old
    <2> QED
      BY <1>3, <2>1, <2>2, <2>3
  <1> HIDE DEF r, new
  <1>9. Lineage(r)
    BY <1>2, <1>6, <1>7, <1>8 DEF Lineage
  <1> QED
    BY <1>9 DEF r

\* Judging and executing leave proposal and history alone.
LEMMA SameLineage ==
    ASSUME NEW s, NEW r, Lineage(s), r.history = s.history,
           r.request = s.request, r.proposal = s.proposal
    PROVE  Lineage(r)
  BY DEF Lineage

LEMMA LineageStep == ConsoleInv /\ LineageInv /\ [Next]_vars => LineageInv'
  <1> SUFFICES ASSUME ConsoleInv, LineageInv, [Next]_vars, HasProposal(policy_state')
               PROVE  Lineage(policy_state')
    BY DEF LineageInv
  <1>1. ConsoleAssumption /\ (policy_state # None => policy_state \in State /\ Bound(policy_state))
    BY ConsoleTypes, ConsoleAssumption DEF Consistent
  <1>2. CASE policy_state' = policy_state
    BY <1>2 DEF LineageInv
  <1>3. ASSUME NEW t \in Tab, Load(t) PROVE Lineage(policy_state')
    BY <1>3 DEF Load, Store, Empty, HasProposal, LineageInv
  <1>4. ASSUME NEW t \in Tab, NEW i \in Intent, SubmitIntent(t, i)
        PROVE  Lineage(policy_state')
    BY <1>4 DEF SubmitIntent, Empty, HasProposal
  <1>5. ASSUME NEW t \in Tab, NEW c \in Conditions, SubmitConditions(t, c)
        PROVE  Lineage(policy_state')
    <2>1. policy_state' = WithProposal(c, <<>>)
      BY <1>5 DEF SubmitConditions, Store
    <2>2. <<>> \in Seq(Floor) /\ Len(<<>>) = 0
      OBVIOUS
    <2>3. Lineage(WithProposal(c, <<>>))
      BY <2>2, FirstProposalLineage
    <2> QED
      BY <2>1, <2>3, Zenon
  <1>6. ASSUME NEW t \in Tab, NEW f \in Floor, Revise(t, f)
        PROVE  Lineage(policy_state')
    BY <1>1, <1>6, RevisedLineage DEF Revise, Confirms, Store, HasProposal, LineageInv
  <1>7. ASSUME NEW t \in Tab, Approve(t) PROVE Lineage(policy_state')
    <2>1. PICK e \in Judgements(policy_state) : Store(t, Approved(policy_state, e))
      BY <1>7 DEF Approve
    <2>2. policy_state \in State /\ Lineage(policy_state)
      BY <1>1, <1>7 DEF Approve, Confirms, HasProposal, LineageInv
    <2>3. /\ policy_state'.history = policy_state.history
          /\ policy_state'.request = policy_state.request
          /\ policy_state'.proposal = policy_state.proposal
      BY <2>1, <2>2 DEF Store, Approved, State
    <2> QED
      BY <2>2, <2>3, SameLineage
  <1>8. ASSUME NEW t \in Tab, CompileReturns(t) PROVE Lineage(policy_state')
    <2>1. CASE Superseded(job[t].request)
      BY <1>2, <1>8, <2>1 DEF CompileReturns, Store
    <2>2. CASE ~Superseded(job[t].request)
      <3>1. PICK state \in Compiled(job[t].request) : policy_state' = state
        BY <1>8, <2>2 DEF CompileReturns, Store
      <3>2. job[t].request \in Intent \cup Conditions
        BY <1>1, <2>2 DEF Superseded, State
      <3> QED
        <4>1. policy_state' # Empty(job[t].request)
          BY DEF HasProposal, Empty
        <4>2. PICK f \in Floor : policy_state' = WithProposal(job[t].request, <<f>>)
          BY <3>1, <4>1, CompiledForms
        <4>3. <<f>> \in Seq(Floor) /\ Len(<<f>>) = 1
          BY <4>2
        <4>4. Lineage(WithProposal(job[t].request, <<f>>))
          BY <3>2, <4>3, FirstProposalLineage
        <4> QED
          BY <4>2, <4>4, Zenon
    <2> QED
      BY <2>1, <2>2
  <1>9. ASSUME NEW t \in Tab, Attach(t) PROVE Lineage(policy_state')
    <2>1. CASE policy_state' = policy_state
      BY <1>2, <2>1
    <2>2. CASE Unchanged(t) /\ \E e \in Evaluations(job[t].outcome) :
                 Store(t, Attached(policy_state, e, job[t].outcome, job[t].plan))
      <3>1. PICK e : Store(t, Attached(policy_state, e, job[t].outcome, job[t].plan))
        BY <2>2
      <3>2. policy_state \in State
        BY <1>1, <2>2 DEF Unchanged
      <3>3. /\ policy_state'.history = policy_state.history
            /\ policy_state'.request = policy_state.request
            /\ policy_state'.proposal = policy_state.proposal
        BY <3>1, <3>2 DEF Store, Attached, State
      <3>4. Lineage(policy_state)
        BY <3>2, <3>3, <2>2 DEF HasProposal, LineageInv, Unchanged
      <3> QED
        BY <3>3, <3>4, SameLineage
    <2> QED
      BY <1>9, <2>1, <2>2 DEF Attach, Refused
  <1>10. CASE Restart
    BY <1>10 DEF Restart, HasProposal
  <1>11. ASSUME NEW t \in Tab, User(t) PROVE Lineage(policy_state')
    <2>1. CASE \E x \in Transfer : Execute(t, x)
      BY <1>2, <2>1 DEF Execute
    <2> QED
      BY <1>3, <1>4, <1>5, <1>6, <1>7, <1>11, <2>1 DEF User
  <1>12. ASSUME NEW t \in Tab, Server(t) PROVE Lineage(policy_state')
    <2>1. CASE CompileFails(t) \/ RunnerSends(t) \/ RunnerStops(t)
      BY <1>2, <2>1 DEF CompileFails, RunnerSends, RunnerStops, RunnerEnds, Refused
    <2> QED
      BY <1>8, <1>9, <1>12, <2>1 DEF Server
  <1> QED
    BY <1>2, <1>10, <1>11, <1>12 DEF Next, vars

\* For any number of tabs and revisions, the history on display is the lineage of
\* the proposal: nothing is lost or repeated when tabs revise in turns.
THEOREM HistoriesAreLineages == Spec => []HistoryIsLineage
  <1>1. Init => LineageInv
    BY DEF Init, LineageInv, HasProposal
  <1>2. LineageInv => HistoryIsLineage
    BY DEF LineageInv, Lineage, HistoryIsLineage
  <1> QED
    BY <1>1, <1>2, ConsoleInit, ConsoleStep, LineageStep, PTL DEF Spec

\* A compiled state is about its request, and nothing is approved yet.
LEMMA CompiledFresh ==
    ASSUME NEW q, NEW s \in Compiled(q)
    PROVE  s.request = q /\ s.approval = None
  <1>1. \A floors : /\ WithProposal(q, floors).request = q
                    /\ WithProposal(q, floors).approval = None
    BY DEF WithProposal, Empty
  <1>2. CASE s = Empty(q)
    BY <1>2 DEF Empty
  <1>3. CASE \E f \in Floor : s = WithProposal(q, <<f>>)
    <2>1. PICK f \in Floor : s = WithProposal(q, <<f>>)
      BY <1>3
    <2>2. WithProposal(q, <<f>>).request = q /\ WithProposal(q, <<f>>).approval = None
      BY <1>1, Zenon
    <2> QED
      BY <2>1, <2>2, Zenon
  <1> QED
    BY <1>2, <1>3, CompiledForms

\* No answer that comes late changes what the console is about.
THEOREM LateResultsKeepRequest == Spec => LateResultKeepsRequest
  <1> DEFINE A == policy_state # None /\ policy_state' # None /\ used' = used
                    => policy_state'.request = policy_state.request
  <1>1. ConsoleInv /\ [Next]_vars => [A]_vars
    <2> SUFFICES ASSUME ConsoleInv, Next, policy_state # None, policy_state' # None,
                        used' = used
                 PROVE  policy_state'.request = policy_state.request
      OBVIOUS
    <2>1. policy_state \in State /\ used.acts \in Nat /\ used.restarts \in Nat
      BY ConsoleTypes
    <2>2. ASSUME NEW t \in Tab, Submits(t) PROVE FALSE
      <3>1. used \in [acts : 0 .. MaxActs, restarts : 0 .. MaxRestarts]
        BY ConsoleTypes
      <3>2. used'.acts = used.acts + 1
        BY <2>2, <3>1 DEF Submits
      <3> QED
        BY <2>1, <3>2
    <2>3. ASSUME NEW t \in Tab, CompileReturns(t)
          PROVE  policy_state'.request = policy_state.request
      <3>1. CASE Superseded(job[t].request)
        BY <2>3, <3>1 DEF CompileReturns, Store
      <3>2. CASE ~Superseded(job[t].request)
        <4>1. PICK s \in Compiled(job[t].request) : policy_state' = s
          BY <2>3, <3>2 DEF CompileReturns, Store
        <4>2. s.request = job[t].request
          BY <4>1, CompiledFresh
        <4> QED
          BY <3>2, <4>1, <4>2 DEF Superseded
      <3> QED
        BY <3>1, <3>2
    <2>4. ASSUME NEW t \in Tab, Attach(t)
          PROVE  policy_state'.request = policy_state.request
      BY <2>1, <2>4 DEF Attach, Attached, Store, Refused, State
    <2>5. ASSUME NEW t \in Tab, Load(t)
          PROVE  policy_state'.request = policy_state.request
      BY <2>5 DEF Load, Store
    <2>6. ASSUME NEW t \in Tab, CompileFails(t) \/ RunnerSends(t) \/ RunnerStops(t)
          PROVE  policy_state' = policy_state
      BY <2>6 DEF CompileFails, RunnerSends, RunnerStops, RunnerEnds, Refused
    <2>7. ~Restart
      BY <2>1, ConsoleTypes DEF Restart
    <2> QED
      BY <2>2, <2>3, <2>4, <2>5, <2>6, <2>7
         DEF Next, User, Server, SubmitIntent, SubmitConditions, Revise, Approve, Execute
  <1> QED
    BY <1>1, ConsoleInit, ConsoleStep, PTL DEF Spec, LateResultKeepsRequest

\* An approval is for the proposal its user had on display: only approving
\* brings one about, what is approved is what the tab sent the hash of, and no
\* other tab's view changes.
THEOREM ApprovalsWereSeen == Spec => ApprovedAsSeen
  <1> DEFINE A == policy_state' # None /\ policy_state'.approval # CurrentApproval
                    /\ policy_state'.approval # None
                    => \A t \in Tab : view'[t] # view[t] =>
                           /\ HasProposal(view[t])
                           /\ view[t].proposal = policy_state'.approval
  <1>1. ConsoleInv /\ [Next]_vars => [A]_vars
    <2> SUFFICES ASSUME ConsoleInv, Next, policy_state' # None,
                        policy_state'.approval # CurrentApproval,
                        policy_state'.approval # None
                 PROVE  \A t \in Tab : view'[t] # view[t] =>
                            /\ HasProposal(view[t])
                            /\ view[t].proposal = policy_state'.approval
      OBVIOUS
    <2>1. /\ policy_state # None => policy_state \in State
          /\ view \in [Tab -> State \cup {None}]
      BY ConsoleTypes DEF ConsoleInv, TypeOK
    <2>2. \A q, floors : /\ Empty(q).approval = None
                         /\ WithProposal(q, floors).approval = None
      BY DEF WithProposal, Empty
    <2> USE <2>1
    <2>3. ASSUME NEW t \in Tab, Approve(t)
          PROVE  \A u \in Tab : view'[u] # view[u] =>
                     /\ HasProposal(view[u])
                     /\ view[u].proposal = policy_state'.approval
      <3>1. policy_state \in State /\ policy_state'.approval = policy_state.proposal
        BY <2>3 DEF Approve, Approved, Confirms, Store, State, HasProposal
      <3>2. view[t].proposal = policy_state.proposal /\ HasProposal(view[t])
        BY <2>3 DEF Approve, Confirms
      <3>3. \A u \in Tab : u # t => view'[u] = view[u]
        BY <2>3 DEF Approve, Store
      <3> QED
        BY <3>1, <3>2, <3>3
    <2>4. ASSUME NEW t \in Tab, NEW f \in Floor, Revise(t, f)
          PROVE  policy_state'.approval = None
      BY <2>4 DEF Revise, Revised, Confirms, Store, State, HasProposal
    <2>5. ASSUME NEW t \in Tab, Attach(t)
          PROVE  policy_state'.approval = CurrentApproval
      BY <2>5 DEF Attach, Attached, Store, Refused, Unchanged, State, CurrentApproval
    <2>6. ASSUME NEW t \in Tab, CompileReturns(t)
          PROVE  policy_state'.approval \in {None, CurrentApproval}
      <3>1. CASE Superseded(job[t].request)
        BY <2>6, <3>1 DEF CompileReturns, Store, CurrentApproval
      <3>2. CASE ~Superseded(job[t].request)
        BY <2>6, <3>2, CompiledFresh DEF CompileReturns, Store
      <3> QED
        BY <3>1, <3>2
    <2>7. ASSUME NEW t \in Tab, Load(t)
          PROVE  policy_state'.approval \in {None, CurrentApproval}
      BY <2>2, <2>7 DEF Load, Store, CurrentApproval
    <2>8. ASSUME NEW t \in Tab, NEW q \in Intent \cup Conditions,
                 SubmitIntent(t, q) \/ SubmitConditions(t, q)
          PROVE  policy_state'.approval = None
      BY <2>2, <2>8, Zenon DEF SubmitIntent, SubmitConditions, Store
    <2>9. CASE \E t \in Tab : CompileFails(t) \/ RunnerSends(t) \/ RunnerStops(t)
      BY <2>9 DEF CompileFails, RunnerSends, RunnerStops, RunnerEnds, Refused,
                  CurrentApproval
    <2>10. CASE \E t \in Tab : \E x \in Transfer : Execute(t, x)
      BY <2>10 DEF Execute, CurrentApproval
    <2>11. ~Restart
      BY DEF Restart
    <2> QED
      BY <2>3, <2>4, <2>5, <2>6, <2>7, <2>8, <2>9, <2>10, <2>11 DEF Next, User, Server
  <1> QED
    BY <1>1, ConsoleInit, ConsoleStep, PTL DEF Spec, ApprovedAsSeen

=============================================================================
