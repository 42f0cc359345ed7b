--------------------------- MODULE PolicyConsole ---------------------------
(***************************************************************************)
(* The policy console of ui/server.py together with the browser tabs of    *)
(* ui/app.js that drive it: an intent is compiled, the proposal reviewed,  *)
(* revised and approved, and the approved policy executed.                 *)
(*                                                                         *)
(* The server keeps one policy_state behind policy_lock.  A handler that   *)
(* holds the lock throughout is one action.  Compiling and executing leave *)
(* the lock in between, so they are several.  A tab has at most one        *)
(* request under way (app.js: busy) and acts on the last state it was      *)
(* sent.  A request the server refuses changes nothing on either side.     *)
(*                                                                         *)
(* Hashes stand for what they are taken of.  An approval has no content of *)
(* its own beyond its proposal, so it is modelled by that proposal.        *)
(***************************************************************************)
EXTENDS Integers, Sequences, FiniteSets, PolicyCompiler

CONSTANTS
    Tab,            \* browser tabs
    Intent,         \* natural-language requests
    Conditions,     \* requests of the structured editor
    DefaultIntent,  \* the request current_policy_flow starts with
    Transfer,       \* recipient, amount and gas limit of an execution plan
    None,           \* Python's None
    MaxActs,        \* bound: requests the users submit
    MaxRevisions,   \* bound: revisions of one proposal
    MaxRestarts     \* bound: server restarts

ASSUME ConsoleAssumption ==
    /\ DefaultIntent \in Intent
    /\ Intent \cap Conditions = {}
    /\ None \notin Intent \cup Conditions
    /\ MaxActs \in Nat /\ MaxRevisions \in Nat /\ MaxRestarts \in Nat

VARIABLES
    policy_state,   \* the server's current flow, or None before the first request
    pc,             \* where each tab's request is on the server
    view,           \* the state each tab shows: app.js latestState
    job,            \* the local variables of the request under way
    sends,          \* plans a runner broadcast, oldest first
    author,         \* which submission wrote policy_state
    used            \* [acts, restarts]: the bounded counters

vars == <<policy_state, pc, view, job, sends, author, used>>

-----------------------------------------------------------------------------
(* The server's data. *)

\* floors lists the compiled floor and every revision of it, so it determines
\* the chain of source hashes.  A structured proposal has none.
Proposal == [request : Intent \cup Conditions, floors : Seq(Floor)]
Core(p) == p.request \in Intent

Plan == [approval : Proposal, transfer : Transfer]

Transaction == [status : {"not-created", "submitted", "rejected"},
                plan : Plan \cup {None}]
NotCreated == [status |-> "not-created", plan |-> None]

State == [stage : {"request-created", "proposal-ready", "approved", "executed",
                   "rejected"},
          request : Intent \cup Conditions,
          proposal : Proposal \cup {None},
          history : Seq(Proposal),
          approval : Proposal \cup {None},
          evaluation : {"none", "accepted", "rejected", "evaluation-invalid"},
          transaction : Transaction]

\* _empty_core_policy_state
Empty(request) ==
    [stage |-> "request-created", request |-> request, proposal |-> None,
     history |-> <<>>, approval |-> None, evaluation |-> "none",
     transaction |-> NotCreated]

WithProposal(request, floors) ==
    [Empty(request) EXCEPT
        !.stage = "proposal-ready",
        !.proposal = [request |-> request, floors |-> floors]]

Last(floors) == floors[Len(floors)]

Job == [request : Intent \cup Conditions \cup {None}, act : Nat,
        plan : Plan \cup {None}, outcome : {"none", "submitted", "rejected"}]
NoJob == [request |-> None, act |-> 0, plan |-> None, outcome |-> "none"]

-----------------------------------------------------------------------------
(* How a tab and a handler interact. *)

Submits(t) ==
    /\ pc[t] = "idle" /\ view[t] # None
    /\ used.acts < MaxActs
    /\ used' = [used EXCEPT !.acts = @ + 1]

\* The handler's state is stored, and the tab renders the response.
Store(t, state) ==
    /\ policy_state' = state
    /\ view' = [view EXCEPT ![t] = state]

\* The request ends with an error: the tab shows a message, its state stays.
Refused(t) ==
    /\ pc' = [pc EXCEPT ![t] = "idle"]
    /\ job' = [job EXCEPT ![t] = NoJob]
    /\ UNCHANGED <<policy_state, view>>

\* current_policy_flow, at page load and at every reload.
Load(t) ==
    /\ pc[t] = "idle"
    /\ Store(t, IF policy_state = None THEN Empty(DefaultIntent) ELSE policy_state)
    /\ UNCHANGED <<pc, job, sends, author, used>>

-----------------------------------------------------------------------------
(* Compiling: replace_policy_flow, build_live_policy_flow. *)

\* The pending state replaces whatever was there, and the compiler is called
\* without the lock.
SubmitIntent(t, i) ==
    /\ Submits(t)
    /\ policy_state' = Empty(i)
    /\ author' = used.acts + 1
    /\ pc' = [pc EXCEPT ![t] = "compiling"]
    /\ job' = [job EXCEPT ![t] = [NoJob EXCEPT !.request = i, !.act = used.acts + 1]]
    /\ UNCHANGED <<view, sends>>

\* What the compiler makes of a request: a floor, or an unsupported result.
Compiled(request) ==
    {IF Approvable(output) THEN WithProposal(request, <<output.floor>>)
     ELSE Empty(request) : output \in Assembled}

\* Faulty: the answer is stored whatever happened meanwhile.
Superseded_Never(request) == policy_state = None

\* The result is stored only if the state still is about the same request;
\* otherwise the caller gets the newer state.
Superseded(request) == policy_state = None \/ policy_state.request # request

CompileReturns(t) ==
    /\ pc[t] = "compiling"
    /\ IF Superseded(job[t].request)
       THEN Store(t, policy_state) /\ UNCHANGED author
       ELSE /\ \E state \in Compiled(job[t].request) : Store(t, state)
            /\ author' = job[t].act
    /\ pc' = [pc EXCEPT ![t] = "idle"]
    /\ job' = [job EXCEPT ![t] = NoJob]
    /\ UNCHANGED <<sends, used>>

\* The provider fails: the pending state stays as it is, without a proposal.
CompileFails(t) ==
    /\ pc[t] = "compiling"
    /\ Fails
    /\ Refused(t)
    /\ UNCHANGED <<sends, author, used>>

\* replace_structured_policy_flow compiles locally, before it takes the lock.
SubmitConditions(t, c) ==
    /\ Submits(t)
    /\ Store(t, WithProposal(c, <<>>))
    /\ author' = used.acts + 1
    /\ UNCHANGED <<pc, job, sends>>

-----------------------------------------------------------------------------
(* Reviewing: revise_current_policy and approve_current_policy. *)

HasProposal(state) == state # None /\ state.proposal # None

\* Faulty: the confirmed hash is not compared with the current proposal.
Confirms_Anything(t) ==
    HasProposal(view[t]) /\ HasProposal(policy_state)

\* The tab sends the hash of the proposal it shows, and that must be the
\* current one (revise_asset_balance_floor, policy_binding.approve).
Confirms(t) ==
    /\ HasProposal(view[t]) /\ HasProposal(policy_state)
    /\ view[t].proposal = policy_state.proposal

\* Faulty: the source of the revision is not remembered.
Revised_WithoutHistory(s, f) ==
    [s EXCEPT !.stage = "proposal-ready",
              !.proposal.floors = Append(@, f),
              !.approval = None,
              !.evaluation = "none",
              !.transaction = NotCreated]

\* Faulty: the approval of the source outlives the revision.
Revised_StillApproved(s, f) ==
    [s EXCEPT !.proposal.floors = Append(@, f),
              !.history = Append(@, s.proposal)]

\* The revised proposal; what was approved, judged and sent before is dropped.
Revised(s, f) ==
    [s EXCEPT !.stage = "proposal-ready",
              !.proposal.floors = Append(@, f),
              !.history = Append(@, s.proposal),
              !.approval = None,
              !.evaluation = "none",
              !.transaction = NotCreated]

\* Only a compiled proposal can be revised, and its floor must change.
Revise(t, f) ==
    /\ Submits(t)
    /\ Confirms(t) /\ Core(policy_state.proposal)
    /\ f # Last(policy_state.proposal.floors)
    /\ Len(policy_state.proposal.floors) <= MaxRevisions
    /\ Store(t, Revised(policy_state, f))
    /\ UNCHANGED <<pc, job, sends, author>>

Approved(s, e) ==
    [s EXCEPT !.stage = "approved", !.approval = s.proposal, !.evaluation = e]

\* A structured proposal is judged on a recorded candidate as it is approved,
\* with any of three results.
Judgements(s) ==
    IF Core(s.proposal) THEN {s.evaluation}
    ELSE {"accepted", "rejected", "evaluation-invalid"}

\* The approval form is there for a proposal shown as not approved.
Approve(t) ==
    /\ Submits(t)
    /\ Confirms(t) /\ view[t].approval = None
    /\ \E e \in Judgements(policy_state) : Store(t, Approved(policy_state, e))
    /\ UNCHANGED <<pc, job, sends, author>>

-----------------------------------------------------------------------------
(* Executing: execute_current_policy around Erc20ExecutionService.run.       *)

\* The execution form is there for an approved policy nothing was sent under.
ShowsExecution(state) ==
    /\ state.approval # None
    /\ state.transaction.status \notin {"submitted", "rejected"}

\* The first section copies the approval and the previous transaction; a plan
\* that was the last one sent or rejected is refused.
AlreadyConsumed(plan) ==
    /\ policy_state.transaction.plan = plan
    /\ policy_state.transaction.status \in {"submitted", "rejected"}

Execute(t, x) ==
    /\ Submits(t)
    /\ ShowsExecution(view[t])
    /\ policy_state # None
    /\ policy_state.approval # None /\ Core(policy_state.approval)
    /\ LET plan == [approval |-> policy_state.approval, transfer |-> x]
       IN  /\ ~AlreadyConsumed(plan)
           /\ job' = [job EXCEPT ![t] = [NoJob EXCEPT
                        !.request = policy_state.request, !.plan = plan]]
    /\ pc' = [pc EXCEPT ![t] = "running"]
    /\ UNCHANGED <<policy_state, view, sends, author>>

\* The runner is ControlledExecution: it broadcasts, rejects, fails, or fails
\* after the node took the transaction.
CurrentApproval == IF policy_state = None THEN None ELSE policy_state.approval

Send(t) == sends' = Append(sends, [plan |-> job[t].plan,
                                   valid |-> CurrentApproval = job[t].plan.approval])

\* Faulty: the service's status is not taken over.
RunnerEnds_Unresolved(t, outcome) ==
    /\ pc' = [pc EXCEPT ![t] = "attach"]
    /\ UNCHANGED <<job, policy_state, view>>

RunnerEnds(t, outcome) ==
    /\ pc' = [pc EXCEPT ![t] = "attach"]
    /\ job' = [job EXCEPT ![t].outcome = outcome]
    /\ UNCHANGED <<policy_state, view>>

RunnerSends(t) ==
    /\ pc[t] = "running"
    /\ Send(t)
    /\ RunnerEnds(t, "submitted") \/ Refused(t)
    /\ UNCHANGED <<author, used>>

\* Faulty: a run that did not raise counts as a submission.
RunnerStops_AsSubmitted(t) ==
    /\ pc[t] = "running"
    /\ RunnerEnds(t, "submitted") \/ Refused(t)
    /\ UNCHANGED <<sends, author, used>>

RunnerStops(t) ==
    /\ pc[t] = "running"
    /\ RunnerEnds(t, "rejected") \/ Refused(t)
    /\ UNCHANGED <<sends, author, used>>

\* Faulty: only the request is compared before an outcome is attached.
Unchanged_SameRequest(t) ==
    policy_state # None /\ policy_state.request = job[t].request

\* The second section: the outcome is attached to an unchanged approval only.
Unchanged(t) ==
    /\ policy_state # None
    /\ policy_state.request = job[t].request
    /\ policy_state.approval = job[t].plan.approval

\* A candidate the gate stopped for a drift was accepted all the same.
Evaluations(outcome) ==
    IF outcome = "submitted" THEN {"accepted"} ELSE {"accepted", "rejected"}

Attached(s, e, outcome, plan) ==
    [s EXCEPT !.stage = IF outcome = "submitted" THEN "executed" ELSE "rejected",
              !.evaluation = e,
              !.transaction = [status |-> outcome, plan |-> plan]]

Attach(t) ==
    /\ pc[t] = "attach"
    /\ \/ /\ Unchanged(t)
          /\ \E e \in Evaluations(job[t].outcome) :
                Store(t, Attached(policy_state, e, job[t].outcome, job[t].plan))
          /\ pc' = [pc EXCEPT ![t] = "idle"]
          /\ job' = [job EXCEPT ![t] = NoJob]
       \/ ~Unchanged(t) /\ Refused(t)
    /\ UNCHANGED <<sends, author, used>>

-----------------------------------------------------------------------------
\* The server process is restarted: its state and its threads are gone, the
\* tabs keep showing what they show.
Restart ==
    /\ used.restarts < MaxRestarts
    /\ used' = [used EXCEPT !.restarts = @ + 1]
    /\ policy_state' = None
    /\ author' = 0
    /\ pc' = [t \in Tab |-> "idle"]
    /\ job' = [t \in Tab |-> NoJob]
    /\ UNCHANGED <<view, sends>>

Init ==
    /\ policy_state = None
    /\ pc = [t \in Tab |-> "idle"]
    /\ view = [t \in Tab |-> None]
    /\ job = [t \in Tab |-> NoJob]
    /\ sends = <<>>
    /\ author = 0
    /\ used = [acts |-> 0, restarts |-> 0]

User(t) ==
    \/ Load(t)
    \/ \E i \in Intent : SubmitIntent(t, i)
    \/ \E c \in Conditions : SubmitConditions(t, c)
    \/ \E f \in Floor : Revise(t, f)
    \/ Approve(t)
    \/ \E x \in Transfer : Execute(t, x)

Server(t) ==
    \/ CompileReturns(t) \/ CompileFails(t)
    \/ RunnerSends(t) \/ RunnerStops(t) \/ Attach(t)

Next == (\E t \in Tab : User(t) \/ Server(t)) \/ Restart

Spec == Init /\ [][Next]_vars

-----------------------------------------------------------------------------
(* Properties. *)

\* The type invariant.
TypeOK ==
    /\ policy_state \in State \cup {None}
    /\ pc \in [Tab -> {"idle", "compiling", "running", "attach"}]
    /\ view \in [Tab -> State \cup {None}]
    /\ job \in [Tab -> Job]
    /\ sends \in Seq([plan : Plan, valid : BOOLEAN])
    /\ author \in Nat
    /\ used \in [acts : 0 .. MaxActs, restarts : 0 .. MaxRestarts]

\* What is approved is the proposal on display, and that is the compilation or
\* a revision of the current request, whatever handlers of other tabs finish in
\* between (ui/server.py:380-388, 420-423, 464-466).
ApprovalBindsProposal ==
    policy_state # None =>
        /\ policy_state.approval \in {None, policy_state.proposal}
        /\ HasProposal(policy_state) =>
               policy_state.proposal.request = policy_state.request

\* The stage tells whether an approval is in force.
StageMatchesApproval ==
    policy_state # None =>
        (policy_state.stage \in {"approved", "executed", "rejected"}
            <=> policy_state.approval # None)

\* The transaction on display was decided under the approval in force, although
\* it was decided outside the lock (ui/server.py:605-614).
TransactionBindsApproval ==
    policy_state # None /\ policy_state.transaction # NotCreated =>
        policy_state.transaction.plan.approval = policy_state.approval

\* A transaction shown as submitted was sent (ui/server.py:591-614).
SubmittedWasSent ==
    policy_state # None /\ policy_state.transaction.status = "submitted" =>
        \E i \in 1 .. Len(sends) :
            sends[i].plan = policy_state.transaction.plan

\* The history holds every proposal the current one was revised from, oldest
\* first, each differing from the next in its floor (ui/server.py:413-421,
\* backend/policy_service.py:64-65).
HistoryIsLineage ==
    HasProposal(policy_state) =>
        LET floors == policy_state.proposal.floors
        IN  /\ \A i \in 1 .. Len(policy_state.history) :
                  policy_state.history[i] = [request |-> policy_state.request,
                                             floors |-> SubSeq(floors, 1, i)]
            /\ Core(policy_state.proposal) =>
                  Len(policy_state.history) = Len(floors) - 1
            /\ \A i \in 1 .. Len(floors) - 1 : floors[i] # floors[i + 1]

\* An approval appears only for the proposal on display in the tab whose user
\* gave it, even if another tab revised the proposal meanwhile; that tab is the
\* one that is shown the result (core/policy_binding.py:65-68).
ApprovedAsSeen ==
    [][policy_state' # None /\ policy_state'.approval # CurrentApproval
         /\ policy_state'.approval # None
         => \A t \in Tab : view'[t] # view[t] =>
                /\ HasProposal(view[t])
                /\ view[t].proposal = policy_state'.approval]_vars

\* Only a user's new request changes which request the console is about: a
\* compiler answer or an execution that comes late does not.
LateResultKeepsRequest ==
    [][policy_state # None /\ policy_state' # None /\ used' = used
         => policy_state'.request = policy_state.request]_vars

\* "A slower earlier request must never overwrite a newer intent"
\* (ui/server.py:384).
NewerIntentStays == [][author' = 0 \/ author' >= author]_vars

\* A revision or a new request invalidates the approval, so nothing is sent
\* under it afterwards (README.md:19, ui/test_server.py:497,
\* test_failed_recompile_invalidates_an_older_approval).
NoSendUnderInvalidApproval ==
    \A i \in 1 .. Len(sends) : sends[i].valid

\* One exact plan is sent at most once while the server keeps running
\* (ui/test_server.py:595, test_exact_execution_plan_cannot_be_submitted_twice).
PlanSentOnce ==
    \A i, j \in 1 .. Len(sends) : sends[i].plan = sends[j].plan => i = j

=============================================================================
