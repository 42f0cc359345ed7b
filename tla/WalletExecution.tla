-------------------------- MODULE WalletExecution --------------------------
(***************************************************************************)
(* The MetaMask path: a browser tab reads the chain through MetaMask, asks *)
(* the server to decide an exact ERC-20 transfer, looks again, hands the   *)
(* transfer to the wallet's confirmation window, reports the hash and      *)
(* reports the receipt (ui/app.js executionPlanForm; ui/server.py          *)
(* authorize_metamask_policy, record_metamask_submission,                  *)
(* record_metamask_receipt).                                               *)
(*                                                                         *)
(* Every provider call and every section under policy_lock is a step.  The *)
(* policy flow around it (PolicyConsole) is reduced to what these handlers *)
(* read of it: an approval that other tabs replace and give at any time.   *)
(* Chain, wallet and token are fixed: the server takes the last two from   *)
(* the policy, and a tab connects on the configured chain only.  The tab   *)
(* is told at once when the wallet changes network.  The form for a        *)
(* transfer is on the page while the state the tab last rendered allows it.*)
(***************************************************************************)
EXTENDS PublicNetwork

CONSTANTS
    Tab,            \* browser tabs
    Approval,       \* [proposal, floor]: what the policy flow can approve
    Amount,         \* the amounts the form is filled with
    None,           \* Python's None
    Events,         \* what happens besides: subset of EventKind
    MaxPlans,       \* bound: forms submitted
    MaxPolicies,    \* bound: approvals superseded
    MaxEvents       \* bound: events, a switch back not counted

EventKind == {"spend", "incoming", "own", "replace", "drop", "switch", "reload"}

ASSUME WalletAssumption ==
    /\ \A a \in Approval : a.floor \in Nat
    /\ None \notin Approval
    /\ Amount \subseteq Nat \ {0}
    /\ Events \subseteq EventKind
    /\ MaxPlans \in Nat /\ MaxPolicies \in Nat /\ MaxEvents \in Nat

VARIABLES
    console,    \* policy_state: [stage, approval, transaction]
    page,       \* each tab: its wallet binding and the locals of its submit
    form,       \* the tabs that show the form for a transfer
    network,    \* the network MetaMask is on: "policy" or "other"
    signed,     \* history: [plan, tx, look] of every transfer signed for a tab
    used        \* [plans, policies, events]: the bounded counters

vars == <<networkVars, console, page, form, network, signed, used>>

-----------------------------------------------------------------------------
(* The server's data. *)

Plan == [approval : Approval, amount : Amount, nonce : Nat, balance : Nat]

Status == {"not-created", "wallet-authorized", "rejected", "submitted", "confirmed"}
Transaction == [status : Status, plan : Plan \cup {None}, tx : Tx \cup {None}]
NotCreated == [status |-> "not-created", plan |-> None, tx |-> None]

Stage == {"proposal-ready", "approved", "wallet-authorized", "rejected",
          "wallet-submitted", "wallet-confirmed"}

\* The decision on a plan; chain, wallet and token always match here.
Accepts(plan) ==
    /\ plan.balance >= plan.amount
    /\ plan.balance - plan.amount >= plan.approval.floor

\* Faulty: the wallet chooses the nonce itself.
WalletRequest_AnyNonce(plan, net) ==
    [nonce |-> PendingNonce, amount |-> plan.amount, own |-> FALSE, network |-> net]

\* The transaction MetaMask signs for a plan: the plan's own nonce and amount,
\* on whatever network the wallet is.
WalletRequest(plan, net) ==
    [nonce |-> plan.nonce, amount |-> plan.amount, own |-> FALSE, network |-> net]

-----------------------------------------------------------------------------
(* The policy flow, driven by any tab: see PolicyConsole. *)

\* Faulty: the record of the transaction is removed altogether.
Supersede_RemovesTransaction ==
    /\ used.policies < MaxPolicies
    /\ used' = [used EXCEPT !.policies = @ + 1]
    /\ console' = [stage |-> "proposal-ready", approval |-> None,
                   transaction |-> None]
    /\ UNCHANGED <<networkVars, page, form, network, signed>>

\* A new request or a revision drops the approval and what was sent under it.
Supersede ==
    /\ used.policies < MaxPolicies
    /\ used' = [used EXCEPT !.policies = @ + 1]
    /\ console' = [stage |-> "proposal-ready", approval |-> None,
                   transaction |-> NotCreated]
    /\ UNCHANGED <<networkVars, page, form, network, signed>>

\* An approval can be given again by a tab that still shows the proposal.
Approve(a) ==
    /\ console.approval \in {None, a}
    /\ console' = [console EXCEPT !.stage = "approved", !.approval = a]
    /\ UNCHANGED <<networkVars, page, form, network, signed, used>>

-----------------------------------------------------------------------------
(* A tab. *)

Locations == {"idle", "look", "authorize", "decide", "check",
              "again", "ask", "report", "poll", "after", "confirm", "record"}

Receipt == [ok : BOOLEAN, log : BOOLEAN, block : Nat]

Locals == [amount : Amount \cup {0}, todo : SUBSET {"balance", "nonce", "call"},
           balance : Nat, nonce : Nat, plan : Plan \cup {None}, look : Nat,
           tx : Tx \cup {None}, receipt : Receipt \cup {None}, balanceAfter : Nat]

NoLocals == [amount |-> 0, todo |-> {}, balance |-> 0, nonce |-> 0,
             plan |-> None, look |-> 0, tx |-> None, receipt |-> None,
             balanceAfter |-> 0]

Page == [pc : Locations, connected : BOOLEAN, at : Locals]

\* The tab goes on at pc with the locals at; those not needed any more are
\* dropped.
Moves(t, pc, at) == page' = [page EXCEPT ![t].pc = pc, ![t].at = at]

\* The submit handler ends: by return, or by an error its catch block shows.
Ends(t) == Moves(t, "idle", NoLocals)

At(t, pc) == page[t].pc = pc
PageOnly == UNCHANGED <<networkVars, console, form, network, signed, used>>

\* renderState: no form without an approval, or for a transfer that is over or
\* under way.
ShowsForm(state) ==
    /\ state.approval # None
    /\ state.transaction.status \notin {"submitted", "confirmed", "rejected"}

\* The tab loads the page and renders the state.  A tab that did so after it gave
\* or replaced the approval itself only has its wallet to connect again.
Load(t) ==
    /\ At(t, "idle")
    /\ page' = [page EXCEPT ![t].connected = FALSE]
    /\ form' = IF ShowsForm(console) THEN form \cup {t} ELSE form \ {t}
    /\ UNCHANGED <<networkVars, console, network, signed, used>>

\* connectMetaMask
Connect(t) ==
    /\ At(t, "idle") /\ ~page[t].connected
    /\ network = "policy"
    /\ page' = [page EXCEPT ![t].connected = TRUE]
    /\ PageOnly

Submit(t, amount) ==
    /\ At(t, "idle") /\ page[t].connected /\ t \in form
    /\ used.plans < MaxPlans
    /\ used' = [used EXCEPT !.plans = @ + 1]
    /\ Moves(t, "look", [NoLocals EXCEPT !.amount = amount,
                                         !.todo = {"balance", "nonce", "call"}])
    /\ UNCHANGED <<networkVars, console, form, network, signed>>

\* The first Promise.all: three answers in any order.  Without the token's
\* code, or with too few tokens, a call fails and the handler ends.
Answer(t, what) ==
    /\ At(t, "look") /\ what \in page[t].at.todo
    /\ LET at == [page[t].at EXCEPT !.todo = @ \ {what}]
           next == IF at.todo = {} THEN "authorize" ELSE "look"
       IN  CASE what = "nonce" ->
                    Moves(t, next, [at EXCEPT !.nonce =
                        IF network = "policy" THEN PendingNonce ELSE 0])
             [] network = "policy" /\ what = "balance" ->
                    Moves(t, next, [at EXCEPT !.balance = Balance])
             [] network = "policy" /\ what = "call" /\ TransferWorks(at.amount) ->
                    Moves(t, next, at)
             [] OTHER -> Ends(t)
    /\ PageOnly

\* eth_estimateGas, unless the form gives a gas limit: only its failure matters.
EstimateFails(t) ==
    /\ At(t, "authorize")
    /\ ~(network = "policy" /\ TransferWorks(page[t].at.amount))
    /\ Ends(t)
    /\ PageOnly

-----------------------------------------------------------------------------
(* authorize_metamask_policy. *)

Consumed(plan) ==
    console.transaction.plan = plan /\ console.transaction.status = "submitted"

\* The first section copies the approval and the previous transaction.
Authorize(t) ==
    /\ At(t, "authorize")
    /\ LET at == page[t].at
           plan == [approval |-> console.approval, amount |-> at.amount,
                    nonce |-> at.nonce, balance |-> at.balance]
       IN  IF page[t].connected /\ console.approval # None /\ ~Consumed(plan)
           THEN Moves(t, "decide", [NoLocals EXCEPT !.plan = plan])
           ELSE Ends(t)
    /\ PageOnly

\* Faulty: the second section stores its result whatever changed.
SamePolicy_Unchecked(plan) == console.approval # None

SamePolicy(plan) == console.approval = plan.approval

\* The second section stores the decision if the approval is still the same.
Decide(t) ==
    /\ At(t, "decide")
    /\ LET plan == page[t].at.plan
           verdict == IF Accepts(plan) THEN "wallet-authorized" ELSE "rejected"
       IN  IF SamePolicy(plan)
           THEN /\ console' = [console EXCEPT !.stage = verdict,
                       !.transaction = [status |-> verdict, plan |-> plan,
                                        tx |-> None]]
                /\ IF Accepts(plan) THEN Moves(t, "check", page[t].at) ELSE Ends(t)
                /\ form' = IF ShowsForm(console') THEN form ELSE form \ {t}
           ELSE Ends(t) /\ UNCHANGED <<console, form>>
    /\ UNCHANGED <<networkVars, network, signed, used>>

-----------------------------------------------------------------------------
(* Between the decision and the wallet. *)

\* eth_accounts and eth_chainId against the wallet the page is bound to.
CheckWallet(t) ==
    /\ At(t, "check")
    /\ IF page[t].connected /\ network = "policy"
       THEN Moves(t, "again", [page[t].at EXCEPT !.todo = {"balance", "nonce"}])
       ELSE Ends(t)
    /\ PageOnly

\* Faulty: only the nonce is compared.
StillFresh_NonceOnly(at) == at.nonce = at.plan.nonce

StillFresh(at) == at.balance = at.plan.balance /\ at.nonce = at.plan.nonce

\* The second Promise.all: what was read first must be read again.
AnswerAgain(t, what) ==
    /\ At(t, "again") /\ what \in page[t].at.todo
    /\ LET old == [page[t].at EXCEPT !.todo = @ \ {what}]
           at == IF what = "balance"
                 THEN [old EXCEPT !.balance = Balance, !.look = Len(blocks)]
                 ELSE [old EXCEPT !.nonce =
                           IF network = "policy" THEN PendingNonce ELSE 0]
       IN  CASE what = "balance" /\ network # "policy" -> Ends(t)
             [] at.todo # {} -> Moves(t, "again", at)
             [] OTHER -> IF StillFresh(at)
                         THEN Moves(t, "ask", [NoLocals EXCEPT !.plan = at.plan,
                                                               !.look = at.look])
                         ELSE Ends(t)
    /\ PageOnly

\* The user confirms in MetaMask, which signs and broadcasts; the page may have
\* been reloaded meanwhile and never learn the hash.
Sign(t) ==
    LET plan == page[t].at.plan
        tx == WalletRequest(plan, network)
    IN  /\ At(t, "ask")
        /\ IF network = "policy" THEN Takes(tx) /\ Pooled(tx)
                                 ELSE UNCHANGED networkVars
        /\ signed' = Append(signed, [plan |-> plan, tx |-> tx,
                                     look |-> page[t].at.look])
        /\ \/ Moves(t, "report", [NoLocals EXCEPT !.plan = plan, !.tx = tx])
              /\ UNCHANGED <<form, used>>
           \/ /\ "reload" \in Events /\ used.events < MaxEvents
              /\ page' = [page EXCEPT ![t] = [pc |-> "idle", connected |-> FALSE,
                                              at |-> NoLocals]]
              /\ form' = form \ {t}
              /\ used' = [used EXCEPT !.events = @ + 1]
        /\ UNCHANGED <<console, network>>

\* The user declines, or the network refuses the nonce.
Decline(t) == At(t, "ask") /\ Ends(t) /\ PageOnly

-----------------------------------------------------------------------------
(* record_metamask_submission, waitForReceipt, record_metamask_receipt. *)

\* Faulty: any authorized plan takes the hash.
Awaits_AnyPlan(plan) == console.transaction.status = "wallet-authorized"

Awaits(plan) ==
    console.transaction.status = "wallet-authorized" /\ console.transaction.plan = plan

Report(t) ==
    /\ At(t, "report")
    /\ IF Awaits(page[t].at.plan)
       THEN /\ console' = [console EXCEPT !.stage = "wallet-submitted",
                              !.transaction.status = "submitted",
                              !.transaction.tx = page[t].at.tx]
            /\ Moves(t, "poll", page[t].at)
            /\ form' = form \ {t}
       ELSE Ends(t) /\ UNCHANGED <<console, form>>
    /\ UNCHANGED <<networkVars, network, signed, used>>

\* What the provider knows of a hash on the network it is on.  Elsewhere the
\* token has no code: the transaction succeeds in some block and logs nothing.
ReceiptsOf(tx) ==
    IF tx.network # network THEN {}
    ELSE IF network = "policy"
    THEN {[ok |-> blocks[i].ok, log |-> blocks[i].ok, block |-> i] :
              i \in BlocksOf(tx)}
    ELSE {[ok |-> TRUE, log |-> FALSE, block |-> i] : i \in 1 .. Len(blocks) + 1}

Poll(t) ==
    /\ At(t, "poll")
    /\ \E r \in ReceiptsOf(page[t].at.tx) :
           Moves(t, "after", [page[t].at EXCEPT !.receipt = r])
    /\ PageOnly

\* Faulty: the page polls until there is a receipt.
PollTimeout_Never(t) == At(t, "poll") /\ Ends(t) /\ network = "other" /\ PageOnly

\* Three minutes without a receipt.
PollTimeout(t) == At(t, "poll") /\ Ends(t) /\ PageOnly

\* The balance at the receipt's block.
ReadAfter(t) ==
    /\ At(t, "after")
    /\ LET b == page[t].at.receipt.block
       IN  IF network = "policy" /\ b <= Len(blocks)
           THEN Moves(t, "confirm", [page[t].at EXCEPT !.balanceAfter = BalanceAt(b)])
           ELSE Ends(t)
    /\ PageOnly

\* Faulty: the status alone makes a receipt good.
GoodReceipt_StatusOnly(r) == r.ok

\* Status 1 and exactly one Transfer log of the plan's amount.
GoodReceipt(r) == r.ok /\ r.log

KeptFloor(balanceAfter, plan) == balanceAfter >= plan.approval.floor

Submitted(at) ==
    /\ console.transaction.status = "submitted"
    /\ console.transaction.plan = at.plan /\ console.transaction.tx = at.tx

\* The first section, and the checks after it.
Confirm(t) ==
    /\ At(t, "confirm")
    /\ LET at == page[t].at
       IN  IF Submitted(at) /\ GoodReceipt(at.receipt)
                 /\ KeptFloor(at.balanceAfter, at.plan)
           THEN Moves(t, "record", at)
           ELSE Ends(t)
    /\ PageOnly

\* The second section.
Record(t) ==
    /\ At(t, "record")
    /\ IF Submitted(page[t].at)
       THEN console' = [console EXCEPT !.stage = "wallet-confirmed",
                                       !.transaction.status = "confirmed"]
       ELSE UNCHANGED console
    /\ Ends(t)
    /\ UNCHANGED <<networkVars, form, network, signed, used>>

-----------------------------------------------------------------------------
(* The world around it. *)

Mine == MineTx /\ UNCHANGED <<console, page, form, network, signed, used>>

\* accountsChanged, chainChanged: every tab forgets its wallet binding.
Switch(to) ==
    /\ network # to /\ network' = to
    /\ page' = [t \in Tab |-> [page[t] EXCEPT !.connected = FALSE]]
    /\ UNCHANGED <<networkVars, form>>

\* A reload loses what the page was doing; a request the server has already
\* read is answered to nobody.
Reload ==
    /\ \E t \in Tab :
          /\ page[t].pc \notin {"idle", "decide", "record"}
          /\ page' = [page EXCEPT ![t] = [pc |-> "idle", connected |-> FALSE,
                                          at |-> NoLocals]]
          /\ form' = form \ {t}
    /\ UNCHANGED <<networkVars, network>>

Event ==
    /\ used.events < MaxEvents
    /\ used' = [used EXCEPT !.events = @ + 1]
    /\ \E kind \in Events :
          \/ NetworkEvent(kind) /\ UNCHANGED <<page, form, network>>
          \/ kind = "switch" /\ Switch("other")
          \/ kind = "reload" /\ Reload
    /\ UNCHANGED <<console, signed>>

SwitchBack == Switch("policy") /\ UNCHANGED <<console, signed, used>>

Init ==
    /\ NetworkInit
    /\ console = [stage |-> "proposal-ready", approval |-> None,
                  transaction |-> NotCreated]
    /\ page = [t \in Tab |-> [pc |-> "idle", connected |-> FALSE, at |-> NoLocals]]
    /\ form = {}
    /\ network = "policy"
    /\ signed = <<>>
    /\ used = [plans |-> 0, policies |-> 0, events |-> 0]

\* What the tab and the server do by themselves.
PageStep(t) ==
    \/ \E what \in {"balance", "nonce", "call"} :
          Answer(t, what) \/ AnswerAgain(t, what)
    \/ EstimateFails(t) \/ Authorize(t) \/ Decide(t) \/ CheckWallet(t)
    \/ Report(t) \/ Poll(t) \/ PollTimeout(t) \/ ReadAfter(t)
    \/ Confirm(t) \/ Record(t)

User(t) ==
    \/ Load(t) \/ Connect(t) \/ Sign(t) \/ Decline(t)
    \/ \E amount \in Amount : Submit(t, amount)

Next ==
    \/ \E t \in Tab : PageStep(t) \/ User(t)
    \/ Supersede \/ (\E a \in Approval : Approve(a))
    \/ Mine \/ Event \/ SwitchBack

Spec == Init /\ [][Next]_vars

\* The provider and the server answer, and the clock of waitForReceipt runs;
\* no user has to confirm, and no transaction has to be mined.
FairSpec == Spec /\ \A t \in Tab : WF_vars(PageStep(t))

-----------------------------------------------------------------------------
(* Properties. *)

\* The type invariant.
TypeOK ==
    /\ NetworkTypeOK
    /\ console \in [stage : Stage, approval : Approval \cup {None},
                    transaction : Transaction]
    /\ page \in [Tab -> Page] /\ form \subseteq Tab
    /\ network \in {"policy", "other"}
    /\ signed \in Seq([plan : Plan, tx : Tx, look : Nat])
    /\ used \in [plans : 0 .. MaxPlans, policies : 0 .. MaxPolicies,
                 events : 0 .. MaxEvents]

\* The decision on display was taken under the approval in force, although it
\* was taken outside the lock (ui/server.py:771-778).
DecidedUnderApproval ==
    console.transaction # NotCreated =>
        console.transaction.plan.approval = console.approval

\* A hash is recorded for the plan it was signed for, whichever tab reports it
\* and whatever another tab authorized meanwhile (ui/server.py:798-806).
HashBelongsToPlan ==
    console.transaction.status \in {"submitted", "confirmed"} =>
        \E i \in DOMAIN signed : /\ signed[i].tx = console.transaction.tx
                                 /\ signed[i].plan = console.transaction.plan

\* "Confirmed" means: the chain of the policy mined that transfer, and the
\* wallet kept the approved floor when it was mined, even if a pending transfer
\* or a spender took tokens before it (ui/server.py:878-930).
ConfirmedOnChain ==
    console.transaction.status = "confirmed" =>
        \E i \in BlocksOf(console.transaction.tx) :
            /\ blocks[i].ok
            /\ blocks[i].tx.amount = console.transaction.plan.amount
            /\ blocks[i].left >= console.transaction.plan.approval.floor

\* A transfer mined right after the page's second look keeps the floor: between
\* the decision and the wallet nothing the page can see is missed
\* (ui/app.js:1056-1068).
SignedKeepsFloor ==
    \A i \in DOMAIN signed :
        LET b == signed[i].look + 1
        IN  b \in DOMAIN blocks /\ blocks[b].tx = signed[i].tx /\ blocks[b].ok
                => blocks[b].left >= signed[i].plan.approval.floor

\* However many tabs get a plan authorized and confirmed, the chain executes
\* its transfer once: the plan fixes the nonce (ui/server.py:733-740).
PlanMinedOnce ==
    \A i, j \in DOMAIN signed :
        signed[i].plan = signed[j].plan =>
            \A b \in BlocksOf(signed[i].tx), c \in BlocksOf(signed[j].tx) : b = c

\* A submitted execution plan is consumed: it is not authorized again
\* ("this exact MetaMask execution plan was already consumed",
\* ui/server.py:721).
ConsumedStaysConsumed ==
    [][console.transaction.status = "submitted"
         => ~(/\ console'.transaction.status = "wallet-authorized"
              /\ console'.transaction.plan = console.transaction.plan)]_vars

\* Once the user has decided, the submit handler comes to an end and the page
\* can be used again, even if the transfer is never mined (ui/app.js:395-406).
PageComesBack ==
    \A t \in Tab : page[t].pc \notin {"idle", "ask"}
                     ~> page[t].pc \in {"idle", "ask"}

=============================================================================
