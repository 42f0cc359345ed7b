# Verification of the outcome-state gate

TLA+ models of the program that lets a user state "keep at least this much of
this token", checks an ERC-20 transfer against that floor before it happens,
and hands only transfers that keep it to a node or a wallet, and of the gate
that judges a portfolio transaction by drawdown and loss limits. The models are
translated from the source; `PROJECT.json` maps every definition to the lines
it stands for. TLC checks small instances, TLAPS proves the main results for
every value of the constants.

    tlc -workers 2 -config ExecutionAlone.cfg MCControlledExecution.tla
    tlc -workers 2 -config AgentWallet.cfg AgentWallet.tla
    tlapm PolicyConsoleProofs.tla

Contents: 1 the system, 2 the modules, 3 the runs, 4 the proofs, 5 findings,
6 what is left out, 7 what could still be done.

## 1. The system

| Component | State it keeps | Operations | Talks to |
| --- | --- | --- | --- |
| Candidate binding and evaluator (`core/candidate_binding.py`, `core/evaluator.py`, `core/models.py`) | none, pure | `verify_evidence`, `candidate_from_evidence`, `evaluate` | called by the execution service and by offline scripts |
| Controlled execution (`core/rpc_simulator.py`, `core/execution_service.py`, `core/gate.py`) | the gate's `_consumed_decisions`, the locals of one run | `simulate_transfer`, `Erc20ExecutionService.run`, `ExecutionGate.execute` | an Anvil node by JSON-RPC; called by the console on a request thread |
| Policy console (`ui/server.py`, `ui/app.js`) | `policy_state` under `policy_lock`; each tab's `latestState` and `busy` | current, intent, conditions, revise, approve, execute, MetaMask authorize / submitted / confirmed | compiler, controlled execution, the browser |
| Policy service and binding (`backend/policy_service.py`, `core/policy_binding.py`) | none | revise, approve, `verify_request_binding` | called by the console |
| MetaMask path (`ui/server.py`, `ui/app.js`) | `policy_state.transaction`; the page's plan and hash | preflight reads, authorize, fresh-state check, send, record hash, record receipt | wallet extension, test network |
| Compilers (`backend/gemini_compiler.py`, `anthropic_compiler.py`, `compiler_contract.py`, `policy_models.py`) | none | request, parse, assemble a proposal or a reason why there is none | a model provider; called by the console |
| Agent Wallet (`chain/src/agent-wallet-*.ts`, `research/*agent_wallet_direct*.py`) | a bundle file, the locals of a process, evidence files | build a bundle, run it (direct or delegated), verify the receipt, capture the evidence | the `mm` command line and the wallet service behind it, an RPC node |
| Delegated floor gate (`chain/src/delegated-floor-gate.ts`, `guard.ts`, `delegation.ts`) | consumed set per gate object | `execute`, binding of a delegated execution | signer, RPC node |
| Structured-policy workflow and pre-execution gate (`verifier/synthesis_*.py`, `synth/`, `evaluate_pre_execution.py`, `chain/src/pre-execution-gate.ts`) | files: request, proposal, approval | request, compile, compile locally, approve; `sendGuardedTransaction` | the user, an evaluator process, the deployer's callbacks |
| Offline evaluators (`verifier/evaluate_invariants.py`, `evaluate_candidate.py`, their models) | none | floor, drawdown and loss limits over a series; the same for a candidate; cutting a candidate from a series | files, the pre-execution gate |
| Trace validation, local-chain experiments, evidence and research tooling | files | batch scripts | files, a fork |

**Interaction.** A tab posts a request; the server handles each one on a thread
of its own. Under `policy_lock` it reads or replaces `policy_state`; compiling
and executing happen *outside* the lock on a copy and are attached to the state
in a second locked section that first compares hashes. Executing means: read
block, nonce and gas, `evm_snapshot`, send the transfer from an impersonated
account, poll for its receipt, read the balances, `evm_revert`, re-read the
balances and the nonce, judge, read block, balance and nonce again, consume the
decision, send once. All threads share one node and one gate.

On the MetaMask path the *page* makes the chain reads, through the wallet: three
reads, the server's decision in two locked sections, the wallet's chain and
account, two reads again, the wallet's window, the hash to the server, the
receipt, a balance at the receipt's block, the receipt to the server. On the
Agent Wallet path a process makes them with the bundle file as its only input.
The pre-execution gate takes its own copy of a candidate, has it judged by the
approval file as it is at that moment, reads the context again and calls the
deployer's `send`.

**What is hard.** Threads share a node whose snapshots nest: reverting one
forgets the later ones. Others (the wallet's owner, payers, holders of an
allowance) use the same chain between any two calls. Any call can be lost, or
its answer can. Compiler answers come back in any order. Two tabs act on
different versions of the state. The server may be restarted. On a public
network transactions wait in a pool, are replaced or dropped, and the wallet's
pending nonce runs ahead of its latest balance; the wallet, its command line and
the service behind it answer late, twice, with something else, or not at all,
while the request they were given is still carried out. Files are edited and
rewritten between being shown, approved and used. Every such hazard is in
`PROJECT.json` at the line where it bites, with the properties that would notice.

**What makes each part correct.**
- *Evaluator*: what is accepted keeps the floor of the approval it is presented
  under; nothing can be substituted after the simulation; a transfer that keeps
  the floor is not blocked.
- *Controlled execution*: the simulation is undone before anything is decided;
  a decision is sent at most once, even after an exception; what was let through
  keeps the floor on the chain as it is by then; every execution ends.
- *Console*: what is approved is what is on display and was seen; a late answer
  never replaces a newer request; a result is attached only to the approval it
  was decided under; the history is the lineage of the proposal; nothing is sent
  under an invalidated approval; a plan is sent once.
- *MetaMask*: a decision on display was taken under the approval in force; a
  hash belongs to the plan it was signed for; "confirmed" means that the chain
  did it above the floor; what is signed right after the second look keeps the
  floor; a plan executes once; the page comes back.
- *Agent Wallet*: a broadcast result and the evidence filed for it are about a
  transfer the chain executed exactly as approved; what is handed over keeps the
  floor if the chain is still the one looked at; a bundle run twice moves its
  tokens once; a process ends.
- *Pre-execution gate and evaluators*: nothing is sent that was not judged by a
  proposal the user read and typed the hash of, or somebody approved by hand in
  the file; what is mined on the block that
  was looked at is within every limit measured on the whole history of the
  chain; cutting history off never changes a verdict; the loops over windows
  compute what a quantifier over windows says.

## 2. The modules

| Module | Models | Source |
| --- | --- | --- |
| `FloorEvaluator` | evidence, candidate, decision and the validators, as operators | `candidate_binding.py`, `evaluator.py`, `models.py` |
| `CandidateReview` | a caller of these operators that substitutes fields of a bound candidate or presents another approval | same |
| `AnvilNode` | the node, external, as the client code uses it | - |
| `ControlledExecution` | request threads inside `Erc20ExecutionService.run`; EXTENDS `AnvilNode`, which EXTENDS `FloorEvaluator` | `rpc_simulator.py`, `execution_service.py`, `gate.py` |
| `OnceGate` | abstract: a set of decisions each of which is spent and handed over once; `ControlledExecution` implements it | docstring of `gate.py` |
| `PolicyCompiler` | provider answers and what the backend makes of them, as operators | `gemini_compiler.py`, `anthropic_compiler.py`, `compiler_contract.py`, `policy_models.py` |
| `PolicyConsole` | the server's handlers and the tabs; EXTENDS `PolicyCompiler` | `server.py`, `app.js`, `policy_service.py`, `policy_binding.py` |
| `PublicNetwork` | a network with a transaction pool, external, as the two wallet paths read it | - |
| `WalletExecution` | the MetaMask path, page and server; EXTENDS `PublicNetwork` | `app.js`, `server.py` |
| `AgentWallet` | bundles, both execution paths, the command line, evidence; EXTENDS `PublicNetwork` | `agent-wallet-*.ts`, `delegated-floor-gate.ts`, `research/*agent_wallet_direct*.py` |
| `PortfolioLimits` | the four limits, a candidate trace, the fixture cut from a series, as operators | `evaluate_invariants.py`, `evaluate_candidate.py`, `candidate_models.py`, `build_candidate_fixture.py` |
| `PortfolioGuard` | the policy files and the commands that write them, the pre-execution gate, the chain; EXTENDS `PortfolioLimits` | `synthesis_workflow.py`, `synthesis_models.py`, `synth/`, `evaluate_pre_execution.py`, `pre-execution-gate.ts` |
| `MCCandidateReview`, `MCControlledExecution`, `MCWalletExecution`, `MCPortfolioGuard` | the values of the small instances | - |
| `FloorEvaluatorProofs`, `CandidateReviewProofs`, `ControlledExecutionProofs`, `PolicyConsoleProofs`, `WalletExecutionProofs`, `AgentWalletProofs`, `PortfolioGuardProofs` | the theorems about the module each is named after | - |
| `PublicNetworkProofs` | lemmas about the network, for the two wallet paths | - |

**`FloorEvaluator`.** The operators bear the names of the Python functions.
Fields are those the comparisons of the code read. A hash is modelled by the
value it is taken of (SHA-256 over canonical JSON is injective for the purpose),
so `approvalSha256` *is* the approval. The candidate's identifier is part of the
decision the gate consumes; it derives from the plan (`ui/server.py:553-566`), so
it is the plan: approval, recipient, amount and gas as they were asked for, a gas
limit left out being another plan than the same limit supplied. `reasonCodes` is the set of checks that
fail, in the three groups of the code: the candidate against its simulation,
against itself, against the policy. Integers are `0 .. MaxUint`. The history
ledger that `evaluate` can take is left out: every caller in the runtime passes
an empty one.

**`CandidateReview`.** Evidence of a small transfer is bound to a candidate;
then up to `MaxEdits` fields of the candidate (with its hashes recomputed or
not) or the approval are exchanged. The program has such callers in its tests
and offline scripts; for the models it is the way to reach every input of
`evaluate` that the contracts admit.

**`AnvilNode`.** A chain is its blocks and the state at its head. A block hash
is modelled by the sequence of block bodies up to it, and a `stamp` decides
whether a transaction mined again after a revert gets the same hash. Wallet
transactions mine at once when their nonce is due and queue when it is ahead; a
transaction the node already holds is refused, whoever sends it.
`by` and `left` beside the blocks say who caused a block and what balance the
wallet was left with; only properties read them.

**`ControlledExecution`.** `pc[w]` is the JSON-RPC call a thread makes next, one
action per call, so everything else can happen between two calls:

| Action | Code |
| --- | --- |
| `Start`, `CaptureBlock`, `CaptureNonce`, `ResolveGas` | `run`, the captured context, gas supplied or estimated |
| `TakeSnapshot` … `RecipientAfter` | the `try` of `simulate_transfer`: balances, impersonated send, receipt polling with its deadline |
| `RevertSnapshot` | its `finally`, entered on errors too (`Raise`) |
| `CheckSender`, `CheckRecipient`, `CheckNonce` | `_verify_restored_state` |
| `Decide` | `verify_evidence`, `candidate_from_evidence`, `evaluate` |
| `GateBlock`, `GateBalance`, `GateNonce` | the live context reader and the gate's comparison |
| `Consume`, `Broadcast` | the gate's locked section, and the sender |
| `OwnTransfer`, `IncomingTransfer`, `AllowanceSpend`, `MineQueued` | other users of the chain |
| `TransportFails`, `ResponseLost`, `NoopRevert`, `Crash` | a call that is not delivered; a call that takes effect but whose answer is lost; a node that confirms `evm_revert` and does nothing; the process dies, with `consumed` and the locals |

**`PolicyConsole`.** `policy_state` has the server's fields. A handler that
holds `policy_lock` throughout is one action (`Load`, `SubmitConditions`,
`Revise`, `Approve`). Intent is `SubmitIntent` then `CompileReturns` or
`CompileFails`. Execute is `Execute` (first section), `RunnerSends` or
`RunnerStops` (the runner, unlocked) and `Attach` (second section). `view[t]` is
what a tab shows: it confirms *that* hash, not the server's. `Restart` loses the
server's memory while tabs keep their view. A refused request changes nothing
anywhere and is not a step.

Compiling picks any answer `PolicyCompiler` lets through: `Assembled` is the set
of outputs a provider's response may carry as far as `assemble_compilation`,
`Approvable` those without a reason against them, `Fails` whether something
raises on the way.

**`OnceGate`** and the refinement. Its state is the spent decisions and those
handed over; `Spend`, `Hand` and `Restart` are its steps, and `Allowed`, which
decisions may be spent, is a parameter. `ControlledExecution` instantiates it
with `spent <- consumed`, `handed <- sent` and, for `Allowed`, that the candidate
was accepted and keeps its floor; `IsOnceGate` is its specification as a
property. Every step of a thread, a fault or another user of the chain is a
stutter except `Consume` (`Spend`), `Broadcast` (`Hand`) and `Crash` (`Restart`).

**`PublicNetwork`.** Blocks, the wallet's balance after each, and a pool. One
transaction that matters per block; no reorganisations. The pending nonce skips
what the pool holds, the latest balance does not. Events: an allowance is spent,
tokens come in, the owner sends from the wallet itself, a pending transaction is
replaced or dropped. A receipt is the block a transaction is in. What is in the
pool has nonces of its own that are not mined yet.

**`WalletExecution`.** `page[t].pc` is what the submit handler of a tab waits for:

| Action | Code |
| --- | --- |
| `Load` | `loadState` and what `renderState` shows: the form is hidden for a plan that was submitted, confirmed or rejected, after a reload as well |
| `Connect`, `Submit` | `connectMetaMask`, the form's submit, in a tab that shows it (`form`) |
| `Answer` (balance, nonce, call, in any order), `EstimateFails` | the first `Promise.all`, `eth_estimateGas` |
| `Authorize`, `Decide` | the two locked sections of `authorize_metamask_policy` |
| `CheckWallet`, `AnswerAgain` | `eth_accounts` and `eth_chainId`, the second `Promise.all` and its comparison |
| `Sign`, `Decline` | the wallet's window |
| `Report`; `Poll`, `PollTimeout`; `ReadAfter` | `record_metamask_submission`; `waitForReceipt`; balance at the receipt's block |
| `Confirm`, `Record` | the two locked sections of `record_metamask_receipt` |
| `Supersede`, `Approve` | what the rest of the console does to the approval |
| `Mine`, `Event`, `SwitchBack` | network, other users, the wallet's network, a reload |

The wallet is taken to honour the nonce of the request, and to tell every page
at once when its network changes; switching back is not bounded.

**`AgentWallet`.** A script builds the bundle in two reads (`BuildStart`,
`BuildEnd`), it may be changed by hand (`Edit`), and processes run it: `Start`,
`Simulate`, `ReadContext` (three answers in any order, then the evaluation),
`CheckAddress`, `HandOver`, `CliPrints` or `CliFails`, `Receipt` or
`ReceiptTimeout`, `Verify`, `Capture`. The service keeps every request it took
and may broadcast it at once, late, again or never (`Broadcast`), whatever the
process was told. The receipt awaited for the printed hash may be that of a
transaction it was replaced by, one with the same nonce (`ReceiptBlocks`); the
printed transaction is then asked for by its hash and not found (`Found`). A run
that ends after `ReadContext` also stands for the
preflight command. The command line killed for its time limit and one that
answers `AWAITING_MFA` are the same step: the process ends, the request stays.
On the delegated path the nonce and balance are the delegate's and the
delegator's own dealings look like an allowance spend; who wrote a delegated
bundle is left to the same builder.

**`PortfolioLimits` and `PortfolioGuard`.** A point is a time and the value of
the portfolio around a transaction. The worst relative loss is what the nested
loops of the code keep, not a maximum over windows; that the two agree is proved
(`WorstRatioMeaning`). The loops are recursive functions of the index.
`desk` holds the three files; `Show` is the user reading the proposal and its
hash, `Approve` the command that asks for the hash, `EditProposal` and
`EditApproval` someone at the files. An edit leaves any file of `Written`, be it
the scope, a hash, the confirmation or the proposal inside that differs: the
hashes of an approval are not keyed and do not cover `approvalScope`
(`synthesis_models.py:121-138`), so a fixture whose scope is written over with
"user", or a file with all hashes and the confirmation computed anew, judges like
one the command wrote. `byHand` records the proposals somebody approved in that
way, and `JudgedAsShown` says that nothing else does: what judges was read and
its hash typed, or a person wrote the scope or the confirmation. The repository
makes no other claim; its documentation says that an approval does not
authenticate the person who gave it (`docs/mvp-scope.md:103-104`). A caller's candidate claims a move and has a
real one; its history is what the chain was when it was captured, cut at any
point. `Evaluate(c, about)` lets the evaluator answer about another caller's
candidate, which `Belongs` must notice.

**Faulty variants.** Operators named `Name_Variant` right before `Name` and
commented "Faulty:" are what `Name` would be with a plausible bug: a check that
is dropped, a stale value, a swapped sign. No action uses them. Putting one in
the place of `Name` makes TLC violate the property `PROJECT.json` pairs it with,
which shows that the property speaks about the code.

## 3. The runs

| Run | Question | Result |
| --- | --- | --- |
| `CandidateReview` | can a substitution get a transfer accepted that breaks the floor; is a good transfer ever refused | no (about 103,000 states) |
| `ExecutionAlone` | one execution after another with two events of others and two faults anywhere | sent once, above the floor, decided on a restored chain; where no fault tore a call in two nothing of a simulation stays, and it goes away eventually (about 618,000 states) |
| `ExecutionPair` | two threads simulate on the same node at once, one fault | the gate still implements `OnceGate`; never decided on a chain holding the own simulation; both end (about 70,000) |
| `ExecutionPairTrace` | ... and is nothing of a simulation left | **no**, finding 1 |
| `ConsoleTwoTabs` | two tabs, slow compilers and runners, a restart | the state is consistent, whoever approves had the proposal on display, late results change no request (about 267,000) |
| `ConsoleSameIntent` | does a slower answer never overwrite a newer intent | **no**, finding 2 |
| `ConsoleInvalidated` | is nothing sent under an invalidated approval | **no**, finding 3 |
| `ConsoleRetry` | is one plan sent once | **no**, finding 4 |
| `WalletTwoTabs` | two tabs through MetaMask, the policy superseded and approved again, one event | decisions, hashes, confirmations and the chain agree; a plan executes once; the page comes back (about 505,000) |
| `WalletAuthorizeRace` | does a submitted plan stay consumed | **no**, finding 5 |
| `AgentWallet` | a bundle built, edited, run in two processes on either path, one event | what is verified and filed is what the chain did; nothing is moved twice; processes end (about 264,000) |
| `PortfolioGuard` | policies shown, approved and edited by hand; two callers of the gate; every series of three steps | judged by what was confirmed or approved by hand, within the limits on the chain, independent of the history supplied (about 199,000) |

**Bounds and why they are enough.**
- `CandidateReview`: `MaxUint = 3` has a floor of 1 and of 2, amounts below, at
  and above it, zero and the largest value. Three addresses are wallet, token
  and another; the approvals include a second floor and the wrong chain. Two
  edits cover "change a field and repair the hash that would give it away".
- Execution: the wallet starts with 3 tokens, keeps 1, `MaxUint = 6` holds all
  balances. The requests are one transfer that fits exactly, one that breaks the
  floor, one with too little gas (mined but reverted), one that cannot be
  estimated, one with gas supplied and one on the wrong chain. Two runs make a
  second execution meet what a first left behind; two events and two faults
  allow a fault to be hidden by an event (an incoming transfer that makes up for
  a revert that did nothing). Two threads are all a snapshot conflict needs;
  `ExecutionPair` has one fault and no events, so that what it shows is the
  threads' own doing.
- Console: two tabs, two intents and a structured request (one of them the
  default), two floors, two transfers, five requests, two revisions, one
  restart: enough for compile, approve, execute in one tab with a revision or a
  new intent of the other in between. The three violation runs use the smallest
  bounds at which the case happens.
- MetaMask: two tabs, one submit each or two in one tab, a balance of 3, an amount
  of 2. Two approvals: under a floor of 1 one transfer fits and two do not;
  under a floor of 2 one fits after tokens came in, and a transfer decided under
  the other approval does not. Either can be given first. One event at any
  point is enough to stale any of the reads; the policy is superseded once and
  can be approved again any number of times.
- Agent Wallet: one bundle, because a second one is another run; amounts 1 and 3
  against a floor of 2 with a balance of 3, one that fits and one that does not;
  one edit, two runs (in one process or two), one event of seven kinds. The
  service's broadcasts are not bounded.
- Portfolio gate: values 0 to 2 include 0 and a total loss, times 0 to 2 windows
  of length 1 and 2 with both boundaries hit, three transactions, four
  operations on the files: enough to compile, show and approve with an edit of
  the proposal or of the approval at any point between, to turn a fixture into a
  user's approval by an edit and edit it again, or to request, compile, show and
  approve. Two policies of the same kinds may be offered; an edit of an approval
  leaves one of a user that fits or in which one field does not. Two more
  policies are judged over every series. `SYMMETRY` exchanges the callers, which no constant or property
  tells apart.

`CHECK_DEADLOCK FALSE` is set everywhere: when the bounds on requests are used
up and all threads are idle nothing is left to do, which is not a defect.

**Fairness.** `FairSpec` adds weak fairness of `Step(w)` for each request thread.
A thread waits for nothing but an answer of the node, and the receipt poll has a
deadline, so one of its steps is always enabled until it ends, and the
interpreter schedules it. Users, other users of the chain and faults get no
fairness. A fault that keeps `evm_revert` from being carried out (the call is
lost, the node confirms it and does nothing, the process dies first) leaves a
simulation behind that nothing undoes, so `SimulationLeavesNoTrace` and
`SimulationEventuallyUndone` speak of the behaviours without one (`used.torn`).
Every other lost call and lost answer is among them.

In `WalletExecution` and `AgentWallet` fairness is on `PageStep(t)` and
`RunStep(r)`: provider, server and command line answer or fail, and the receipt
loops have time limits. The user at the wallet's window, the wallet service, the
network and every event get none. That is why `PageComesBack` excepts the window,
which has no time limit in the code.

## 4. What is proved

Each theorem holds for every value of the constants, where TLC knows one small
instance of them.

| Module | Theorem | Property |
| --- | --- | --- |
| `FloorEvaluatorProofs` | `AcceptedCandidateKeepsFloor` | an accepted, well-formed candidate moves a positive amount of the approved token out of the approved wallet and leaves at least the floor |
| | `SimulationPinsTransaction` | two accepted candidates with the same simulation have the same transaction fields |
| `CandidateReviewProofs` | `ReviewTypes`, `ReviewKeepsFloor`, `ReviewPinsTransaction`, `VerdictsAreExact` | `TypeOK`, `AcceptedKeepsFloor`, `NoSubstitutionSurvives`, `UneditedVerdict` |
| `ControlledExecutionProofs` | `DecisionsAreSentOnce`, `SentDecisionsKeepFloor`, `DecisionsFollowRestoration`, `GateImplementsOnceGate` | `SendOnce`, `SentKeepsFloor`, `DecidedOnRestoredChain`, `IsOnceGate`, for any number of threads |
| | `OnceGateMeans` | `SendOnce` and `SentKeepsFloor` follow from `IsOnceGate` alone |
| | `ApartBroadcastsKeepFloor`, `ApartSimulationsLeaveNoTrace` | `BroadcastKeepsFloor`, `SimulationLeavesNoTrace`, for any number of threads as long as none is past capturing the nonce while another has its snapshot open; without that the second is refuted (finding 1) |
| | `LoneBroadcastsKeepFloor`, `LoneSimulationsLeaveNoTrace` | the same for one thread, where the condition holds |
| | `ExecutionTypes` | `TypeOK`, for any number of threads, if the supply of the token and the number of transactions fit a word |
| `PolicyConsoleProofs` | `ConsoleTyped`, `ApprovalsAreBound`, `StagesAreTrue`, `TransactionsAreDecided`, `SubmissionsWereSent`, `HistoriesAreLineages`, `LateResultsKeepRequest`, `ApprovalsWereSeen` | `TypeOK`, `ApprovalBindsProposal`, `StageMatchesApproval`, `TransactionBindsApproval`, `SubmittedWasSent`, `HistoryIsLineage`, `LateResultKeepsRequest`, `ApprovedAsSeen`: every property of the console's passing run |
| `WalletExecutionProofs` | `WalletTypesHold`, `DecisionsFollowApproval`, `HashesBelong`, `ConfirmationsAreTrue`, `SecondLookKeepsFloor`, `PlansMineOnce` | `TypeOK`, `DecidedUnderApproval`, `HashBelongsToPlan`, `ConfirmedOnChain`, `SignedKeepsFloor`, `PlanMinedOnce` |
| `AgentWalletProofs` | `AgentTypesHold`, `ResultsAreExact`, `EvidenceIsTrue`, `HandoversKeepFloor`, `BundlesMineOnce` | `TypeOK`, `VerifiedIsExact`, `EvidenceIsExact`, `HandedKeepsFloor`, `BundleMinedOnce` |
| `PortfolioGuardProofs` | `GuardTypes`, `SentWasConfirmed`, `LimitsHold`, `CoverageIsIrrelevant`, `SeriesSteps` | `TypeOK`, `JudgedAsShown`, `LimitsHoldOnChain`, `CoverageDoesNotMatter`, `SeriesIsItsSteps`: every property of the guard's run |
| | `WorstRatioMeaning`, `LastPointMeaning`, `JudgedSeries` | what the loops over a series compute: a relative limit holds of the one ratio they keep exactly when it holds of every window; a limit evaluated at the final point holds exactly when the limit, said with quantifiers, is respected there; a whole series is accepted exactly when its start and every prefix respect every limit |
| | `CutMeaning`, `FixtureGetsVerdict` | a candidate cut from a series is judged as the series wherever it gets a verdict, and the fixture builder cuts far enough back for one when no relative window is longer than the absolute ones |

**Assumptions.** Only those the modules state, which TLC evaluates in every run:
`MaxUintAssumption` (a word can hold 1), `NodeAssumption` and
`NetworkAssumption` (the wallet is not its own recipient, amounts are numbers),
`ReviewAssumption`, `ExecutionAssumption`, `ConsoleAssumption`,
`WalletAssumption`, `AgentAssumption` and `GuardAssumption` (constants are of
their kind, the default intent is an intent, a starting value is in range, the
policies are records of limits). The
two `Lone` theorems assume `Worker = {w}`, the two `Apart` theorems `[]Apart`: no
thread knows the nonce while another one's snapshot is open. The server does not
see to that; a lock from capturing the nonce to the end of the run would, and so
does a user who waits for one execution before starting the next. `ExecutionTypes` assumes
`Addressed` (accounts are addresses, a block is named by the blocks up to it)
and `InWords`: finitely many accounts whose balances add up to at most
`MaxUint`, as an ERC-20 total supply does, and at most `MaxUint` transactions in
the whole behaviour, two per execution and one per event. The instance of
`ExecutionAlone` meets both with equality (2 * 3 = 6, 2 * 2 + 2 = 6).

**The arguments.**
- *Verdicts.* `KeepsFloor` follows from the reason codes alone, by the chain
  "calldata amount = simulated amount = before - after, and after >= floor".
  `VerdictsAreExact` adds the other direction: evidence that verifies raises no
  code of the first two groups, whatever was simulated, so only the five
  conditions on the request decide.
- *`SendOnce`* is not inductive: it says nothing of a thread about to send.
  `GateInv` adds that whatever was sent is consumed, and that a thread at the
  sender owns a decision which is consumed, unsent, and of no other thread at
  the sender. `Consume` establishes the ownership under the gate's lock,
  `Broadcast` gives it up, and a lost call or answer leaves the decision
  consumed; after a crash there is no thread and `consumed` and `sent` start
  over together.
- *`SentKeepsFloor`* needs `FloorInv`: what a thread observed are numbers
  whatever the node did, so the evidence it builds is what the evaluator's lemma
  is about; and a thread past `Decide` holds a decision accepted for its request.
- *`IsOnceGate`*: given both invariants each action maps to `Spend`, `Hand`,
  `Restart` or a stutter of `OnceGate`.
- *`DecidedOnRestoredChain`* needs `RestoreInv`. `NodeInv` describes the node:
  on every chain it can be on (the canonical one and the snapshots) the wallet's
  blocks used nonces below that chain's nonce, no live snapshot's nonce exceeds
  the chain's and they grow with the snapshot's number, and what is queued is on
  no chain. `RunInv` keeps the executions of two threads apart. `OwnInv` says
  that a thread's simulation carries the nonce it resolved, and is not in the
  queue once its receipt was seen. Hence, when `_verify_restored_state` finds the
  nonce due again, the simulation is on *no* chain a later `evm_revert` of
  another thread could bring back. The comparison of the balances plays no part:
  the nonce is what shows the restoration.
- *Threads kept apart.* `ApartInv`: under `Apart` no revert but the thread's own
  takes the nonce back, so nothing ever waits in the queue; its snapshot is live
  until its own revert and holds no simulation; between the gate's look at the
  balance and the send the balance falls only by the wallet's own transfers,
  another thread's broadcast among them, which use the nonce up, or by allowance
  spends, which mark the thread. The broadcast is then mined at the judged nonce
  out of a balance that covers it, or refused. `OthersKeepHolding` is the step
  that takes `Apart`: what one thread holds survives the calls of the others.
- *The console's* handlers store a state built by one of five operators
  (`Empty`, `WithProposal`, `Revised`, `Approved`, `Attached`). One lemma each
  shows that what it builds is consistent. `ConsoleInv` adds what a running job
  must remember: its plan has an approval, and if its outcome is "submitted" it
  is among the sends. `HistoryIsLineage` has an invariant of its own over the
  proposals on display, in the tabs and in the answers under way.
- *The network* (`PublicNetworkProofs`, lemmas only): one block per transaction
  at a nonce no other block has, balances deducted by what the blocks moved,
  mined blocks that stay; the pending count is the number a pigeonhole argument
  shows to exist. Both wallet paths build on it.
- *MetaMask*: `WalletInv` says for each place the page can be in what its locals
  are good for (`Fits`), that what is signed was decided under an approval
  (`SignedAsDecided`), and that without an approval there is no transaction on
  display. The floor after the second look comes from the balances, once-only
  from the nonces: a plan fixes its nonce.
- *Agent Wallet*: `AgentInv` follows a bundle into the process that read it and
  the request it handed over; what a verified result names was executed with the
  bundle's fields (`Executed`), and what is filed is an entry of that result
  (`EntryHolds`). That a receipt is of the printed transaction and not of its
  replacement takes `PoolApart`: pending nonces differ and are not mined, so a
  transaction that is found while its nonce is mined was mined itself
  (`ConfirmedIsMined`).
- *Words.* That observed balances and nonces stay below `UINT256_MAX`, which
  `core/models.py` demands, is no property of a single account or read. Balances
  are bounded by the supply: `Supplied` adds them up holder by holder, on the
  chain and on every snapshot, and a transfer moves an amount from one summand to
  another. Nonces are bounded by counting: `CountInv` says that the chain's nonce
  together with the transactions still owed to it (a simulation by a thread that
  has not sent it, a broadcast by a thread in an execution, a transaction in the
  queue) is at most two per execution started and one per event. A revert takes
  the nonce back and what it undid is not owed again; a queued transaction is
  owed until it is mined, and by nobody else. `TypeInv` carries the bounds into
  what threads have read and decided.
- *Pre-execution gate, what was shown*: `GuardInv` follows a proposal from the
  file through the call to the pool: the confirmation in an approval with the
  user's scope was typed, or written by hand, and so was that of any call past
  the evaluator. An edit that leaves scope and confirmation alone leaves that
  true, whatever it does to proposal and hashes, since a file that validates
  confirms the proposal inside it.
- *Pre-execution gate, the limits*: `LimitsHoldOnChain` is not inductive, it
  knows nothing of a call under way. `ChainInv` adds that a captured candidate is
  a state the chain really had (`Captured`), that an accepted call was judged on
  the whole history up to its block (`Judged`, although the evaluator saw the
  part the caller supplied), that equality of the contexts means the same block,
  and that a transaction in the pool carries such a judgement, made no later than
  now. The last step is time: it is mined later than it was judged, every window
  that ends at it begins later, so each is one that was judged or a shorter one.
- *The evaluators' loops* keep one worst ratio of loss to starting value and
  compare ratios by cross-multiplication, where a starting value may be zero.
  That a loop has a run at all (`LoopRuns`) and that what holds before it and is
  kept by a turn holds behind it (`Induction`) are proved from the finiteness of
  its range, since the induction theorems of the library take an operator as a
  parameter: subtracting 1 would send the indices where the claim fails into one
  fewer of them, which the pigeonhole principle excludes. `WorseMeaning`
  is the invariant of a turn: of two ratios the kept one is within a limit
  exactly when both are.

**Only model-checked.** Liveness: `ExecutionEnds`, `SimulationEventuallyUndone`,
`PageComesBack` and `RunEnds`, which are out of the prover's reach. Every other
property of a passing run is stated by a theorem above. The bodies of the
compilers (`PolicyCompiler`) have no theorem of their own; the console's theorems
hold for whatever they let through.

`BroadcastKeepsFloor` exempts a transfer after an allowance spend that came
behind the gate's last read of the balance: no check before the send can exclude
that, and the code makes no such claim.

## 5. Findings

1. **A simulated transfer can stay on the chain** (`ExecutionPairTrace`,
   `core/rpc_simulator.py:295`). Two executions at once: the `evm_revert` of the
   first forgets the snapshot of the second, which then sends its simulation and
   cannot revert it. The docstring says "It always reverts the snapshot". The
   second execution ends with an error and sends nothing, but its simulated
   transfer has become real on that node. `LoneSimulationsLeaveNoTrace` shows
   that it takes two, `ApartSimulationsLeaveNoTrace` that keeping threads out of
   each other's snapshots is enough.
2. **A slower earlier request can overwrite a newer intent**
   (`ConsoleSameIntent`, `ui/server.py:385`). Superseded requests are recognised
   by the hash of the intent's text; submitting the same text again gives the
   same hash. The comment at `ui/server.py:384` says it must never happen.
3. **A transfer can be sent under an invalidated approval**
   (`ConsoleInvalidated`, `ui/server.py:567`). The approval is copied, the lock
   released for the whole run, and compared only after the send.
4. **A plan can be sent twice** (`ConsoleRetry`, `ui/server.py:560`). A send
   whose answer is lost leaves no record of the plan; the gate's consumed
   decision does not help since the chain context is a new one. The test
   `test_exact_execution_plan_cannot_be_submitted_twice` covers the case where
   the answer arrives.
5. **A submitted plan can become "wallet-authorized" again**
   (`WalletAuthorizeRace`, `ui/server.py:720`). Authorizing compares the plan
   with the transaction on record in its first locked section only; the second
   (771-780) compares the request and the approval. A submission of another tab
   in between is overwritten, its hash is forgotten and its receipt can no longer
   be recorded, although the code refuses "this exact MetaMask execution plan was
   already consumed". The chain still executes the plan at most once
   (`PlanMinedOnce`), because both transfers carry the same nonce.

Noticed beside these, without a property of its own: the docstring at
`backend/policy_models.py:42` says that a malformed floor does not crash, but
`isdigit` accepts digits `int` refuses. It fails closed: `PolicyCompiler` has it
as a failing compilation.

## 6. What is left out

*In the components that are modelled*
- Canonical JSON and hashing, log lines, wording, ABI encoding beyond what is
  compared. The validators' syntax checks (hex, length) are types here.
- The history ledger of `evaluate`: every caller of the runtime passes the empty
  one.
- The console's I/O: an unreadable file in the candidate evaluation of the
  approve handler; a page reloaded with a request in flight behaves as another
  tab does. `verify_request_binding` holds by the way the model builds
  proposals, so no property claims it. `/api/run`, which streams the output of a
  fixed command under a lock, `/api/trace` and the static files.
- The Anvil node: mempool replacement, gas prices, reorganisations other than by
  `evm_revert`; they do not occur on the automining node the code requires.
- The public network: one transaction that matters per block and no
  reorganisations. The wallet honours the nonce it is given, and every page hears
  of a change of its network at once.
- The command line killed for its time limit reports a signal, not an exit
  status; both are one failure here. The consumed set of the delegated gate lives
  as long as the object, which is one call, so it never refuses anything.
- A bundle rebuilt while a transfer of the owner is pending can pass every check
  and leave the wallet below the floor when both are mined. It is never verified
  (`VerifiedIsExact`), and `HandedKeepsFloor` is about what is mined on the chain
  that was looked at.
- A MetaMask page that is reloaded, or whose receipt is late, has lost the hash,
  and nothing resumes (`ui/app.js:901`). The model has the behaviour; no property
  says that a submitted plan is ever confirmed, since the code does not.
- A simulated transfer that a dead process left on the node: nothing in the code
  undoes it. The next execution is held against the floor on that chain.
- Who wrote a policy approval: see `byHand` above.
- The pre-execution gate does not compare the approval again before the send
  (`pre-execution-gate.ts:175`), so a policy approved after the verdict does not
  stop the call; the code makes no promise about it. Its three callbacks are the
  deployer's. A candidate's history is true to the chain when it is captured.
  Prices, decimals and reserves are abstracted to the portfolio's value.

*Components not modelled*
- Trace validation (`verifier/validate_trace.py`, `verifier/models.py`): a
  recorded file compared field by field with the constants of one experiment. A
  model would be the same list of equalities again.
- Local-chain experiments (`chain/src/cumulative-loss.ts`, `negative-control.ts`
  and others): linear scripts against a fork; what they show is what recorded
  contracts do.
- Evidence and research tooling (`research/`, `verifier/export_evidence_bundle.py`):
  batch programs over recorded files without state beyond a run, but for the
  capture of Agent Wallet evidence, which is in `AgentWallet`.
- The contract calls of `guard.ts` and the signing in `delegation.ts`: what the
  on-chain enforcers do is not in this repository.

## 7. What could still be done

1. The console composed with the controlled execution, so that a restart of the
   server loses the gate's memory and `policy_state` together; today each model
   has its own restart.
2. `BroadcastKeepsFloor` for threads that do overlap each other's snapshots. It
   does not hold there as it stands. A thread that captures its block and nonce,
   and begins its gate check, while another's simulated transfer is on the chain
   sees the nonce that account has only after that transfer; the other's
   `evm_revert` takes the nonce back between the looks at block and nonce, and
   the other's broadcast brings it forward again. If a spender moved what the
   simulation moved in between, all three of the gate's comparisons agree with
   a chain that has gone on, and the second transfer breaks the floor. A
   statement for that case has to name this exception.
3. What `PolicyCompiler` lets through, as lemmas of their own: that every
   assembled output is a proposal or a reason, and which answers raise.
4. A series longer than three steps for TLC, and policies with more than two
   limits at once (the theorems about them have no bound on either).
5. A reorganisation of the public network between receipt and confirmation.
