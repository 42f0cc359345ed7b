------------------------ MODULE ControlledExecution ------------------------
(***************************************************************************)
(* The controlled runtime path: simulate an approved transfer inside an    *)
(* Anvil snapshot, undo it, decide, re-read the chain and broadcast once   *)
(* (core/rpc_simulator.py, core/execution_service.py, core/gate.py).       *)
(*                                                                         *)
(* A worker is one HTTP request thread of ui/server.py inside              *)
(* Erc20ExecutionService.run.  Every JSON-RPC call is a step of its own,   *)
(* so other threads, other users of the node and faults come in between.   *)
(* All workers share one ExecutionGate, as the server's requests do.       *)
(***************************************************************************)
EXTENDS AnvilNode, FiniteSets

CONSTANTS
    Worker,         \* server threads running the controlled path
    Request,        \* [approval, recipient, amount, gas]; gas 0: not supplied
    Events,         \* what others do to the node: subset of EventKind
    EventAmount,    \* how many tokens such an event moves
    Faults,         \* what can go wrong: subset of FaultKind
    MaxRuns,        \* bound: executions started
    MaxEvents,      \* bound: events
    MaxFaults       \* bound: faults

EventKind == {"own", "incoming", "spend"}
FaultKind == {"transport", "responseLost", "noopRevert", "crash"}

ASSUME ExecutionAssumption ==
    /\ Request # {}
    /\ Request \subseteq [approval : Approval, recipient : Recipients,
                          amount : UInt, gas : UInt]
    /\ Events \subseteq EventKind /\ Faults \subseteq FaultKind
    /\ EventAmount \in UInt
    /\ MaxRuns \in Nat /\ MaxEvents \in Nat /\ MaxFaults \in Nat

VARIABLES
    pc,         \* the call each worker makes next
    req,        \* the request it works on
    obs,        \* what it has observed so far
    decision,   \* the decision it built, with its candidate
    result,     \* how its last execution ended
    consumed,   \* ExecutionGate._consumed_decisions, shared by the workers
    sent,       \* decisions handed to the sender since the process started
    used        \* [runs, events, faults]: the bounded counters, and whether a
                \* fault has torn a simulation: its snapshot stays unreverted

workerVars == <<pc, req, obs, decision, result>>
gateVars == <<consumed, sent>>
vars == <<nodeVars, workerVars, gateVars, used>>

-----------------------------------------------------------------------------
(* What a worker knows. *)

Calls == {"block", "nonce", "gas", "snapshot", "senderBefore",
          "recipientBefore", "simSend", "poll", "senderAfter",
          "recipientAfter", "revert", "checkSender", "checkRecipient",
          "checkNonce", "gateBlock", "gateBalance", "gateNonce", "send"}
Locations == Calls \cup {"idle", "decide", "consume"}

\* Calls made between evm_snapshot and evm_revert: an error there still reverts.
InsideSnapshot == {"senderBefore", "recipientBefore", "simSend", "poll",
                   "senderAfter", "recipientAfter"}
\* From the decision on, the simulated transfer is claimed to be undone.
AfterRestore == {"decide", "gateBlock", "gateBalance", "gateNonce",
                 "consume", "send"}

Observation == [run : Nat, block : Seq(BlockBody), nonce : Nat, gas : Nat,
                snapshot : Nat, senderBefore : Nat, recipientBefore : Nat,
                senderAfter : Nat, recipientAfter : Nat, failed : BOOLEAN,
                restoredSender : Nat, restoredRecipient : Nat,
                gateBlock : Seq(BlockBody), gateBalance : Nat,
                drained : BOOLEAN]

Nothing(run) == [run |-> run, block |-> <<>>, nonce |-> 0, gas |-> 0,
                 snapshot |-> 0, senderBefore |-> 0, recipientBefore |-> 0,
                 senderAfter |-> 0, recipientAfter |-> 0, failed |-> FALSE,
                 restoredSender |-> 0, restoredRecipient |-> 0,
                 gateBlock |-> <<>>, gateBalance |-> 0, drained |-> FALSE]

\* The transaction whose every field was resolved before the snapshot; it is
\* the one simulated and, if accepted, the one broadcast.
SimulatedTx(w) ==
    [chainId |-> NodeChain, fromAddress |-> Wallet, toAddress |-> Token,
     nonce |-> obs[w].nonce, gasLimit |-> obs[w].gas,
     data |-> TransferCall(req[w].recipient, req[w].amount)]

EvidenceOf(w) ==
    LET o == obs[w]
    IN  [request |-> [token |-> Token, sender |-> Wallet,
                      recipient |-> req[w].recipient, amount |-> req[w].amount],
         chainId |-> NodeChain, block |-> o.block, senderNonce |-> o.nonce,
         transaction |-> SimulatedTx(w), gasLimit |-> o.gas,
         gasUsed |-> TransferGas, senderBefore |-> o.senderBefore,
         senderAfter |-> o.senderAfter, recipientBefore |-> o.recipientBefore,
         recipientAfter |-> o.recipientAfter, reverted |-> TRUE]

\* The candidate a worker's decision is about.
NoDecision == [accepted |-> FALSE]
CandidateOf(w) == decision[w].candidateSha256

OriginOf(w, kind) ==
    [kind |-> kind, run |-> obs[w].run,
     floor |-> req[w].approval.policy.assetBalanceFloor,
     drained |-> obs[w].drained]

-----------------------------------------------------------------------------
(* Ways a worker moves on. *)

Goto(w, here, next) == pc[w] = here /\ pc' = [pc EXCEPT ![w] = next]

Finish(w, how) ==
    /\ pc' = [pc EXCEPT ![w] = "idle"]
    /\ result' = [result EXCEPT ![w] = how]

\* Faulty: no finally block, an exception leaves at once.
Raise_AtOnce(w) == Finish(w, "error") /\ UNCHANGED obs

\* An exception: inside the snapshot it is kept and the snapshot reverted
\* first, elsewhere it leaves Erc20ExecutionService.run.
Raise(w) ==
    IF pc[w] \in InsideSnapshot
    THEN /\ pc' = [pc EXCEPT ![w] = "revert"]
         /\ obs' = [obs EXCEPT ![w].failed = TRUE]
         /\ UNCHANGED result
    ELSE Finish(w, "error") /\ UNCHANGED obs

\* A read-only call whose answer is recorded as the observation o.
Read(w, here, next, o) ==
    /\ Goto(w, here, next)
    /\ obs' = [obs EXCEPT ![w] = o]
    /\ UNCHANGED <<nodeVars, req, decision, result, gateVars, used>>

-----------------------------------------------------------------------------
(* ControlledErc20Simulator.simulate_transfer. *)

Start(w) ==
    /\ Goto(w, "idle", "block")
    /\ used.runs < MaxRuns
    /\ \E r \in Request : req' = [req EXCEPT ![w] = r]
    /\ used' = [used EXCEPT !.runs = @ + 1]
    /\ obs' = [obs EXCEPT ![w] = Nothing(used.runs + 1)]
    /\ decision' = [decision EXCEPT ![w] = NoDecision]
    /\ result' = [result EXCEPT ![w] = "running"]
    /\ UNCHANGED <<nodeVars, gateVars>>

CaptureBlock(w) == Read(w, "block", "nonce", [obs[w] EXCEPT !.block = chain.blocks])
CaptureNonce(w) == Read(w, "nonce", "gas", [obs[w] EXCEPT !.nonce = chain.nonce])

\* The caller's limit, or eth_estimateGas, which fails if the transfer would.
ResolveGas(w) ==
    \/ /\ req[w].gas > 0
       /\ Read(w, "gas", "snapshot", [obs[w] EXCEPT !.gas = req[w].gas])
    \/ /\ req[w].gas = 0
       /\ req[w].amount <= chain.balances[Wallet]
       /\ Read(w, "gas", "snapshot", [obs[w] EXCEPT !.gas = TransferGas])
    \/ /\ pc[w] = "gas" /\ req[w].gas = 0
       /\ req[w].amount > chain.balances[Wallet]
       /\ Raise(w)
       /\ UNCHANGED <<nodeVars, req, decision, gateVars, used>>

TakeSnapshot(w) ==
    /\ Goto(w, "snapshot", "senderBefore")
    /\ evm_snapshot
    /\ obs' = [obs EXCEPT ![w].snapshot = nextId]
    /\ UNCHANGED <<req, decision, result, gateVars, used>>

SenderBefore(w) ==
    Read(w, "senderBefore", "recipientBefore",
         [obs[w] EXCEPT !.senderBefore = chain.balances[Wallet]])
RecipientBefore(w) ==
    Read(w, "recipientBefore", "simSend",
         [obs[w] EXCEPT !.recipientBefore = chain.balances[req[w].recipient]])

SimulateSend(w) ==
    /\ pc[w] = "simSend"
    /\ \/ /\ Goto(w, "simSend", "poll")
          /\ eth_sendTransaction(SimulatedTx(w), OriginOf(w, "simulation"))
          /\ UNCHANGED <<obs, result>>
       \/ /\ Refuses(SimulatedTx(w))
          /\ Raise(w)
          /\ UNCHANGED nodeVars
    /\ UNCHANGED <<req, decision, gateVars, used>>

\* _wait_for_successful_receipt: a receipt of status 1, one of status 0, or
\* the deadline; a missing receipt before the deadline is polled again.
PollReceipt(w) ==
    /\ pc[w] = "poll"
    /\ LET found == Receipts(SimulatedTx(w))
       IN  \/ /\ \E i \in found : chain.blocks[i].ok
              /\ Goto(w, "poll", "senderAfter")
              /\ UNCHANGED <<obs, result>>
           \/ /\ \E i \in found : ~chain.blocks[i].ok
              /\ Raise(w)
    /\ UNCHANGED <<nodeVars, req, decision, gateVars, used>>

\* Faulty: the receipt is polled without a deadline.
PollTimeout_Never(w) == FALSE

PollTimeout(w) ==
    /\ pc[w] = "poll"
    /\ Raise(w)
    /\ UNCHANGED <<nodeVars, req, decision, gateVars, used>>

\* Faulty: the change of the balance is recorded for the balance.
SenderAfter_AsDelta(w) ==
    Read(w, "senderAfter", "recipientAfter",
         [obs[w] EXCEPT !.senderAfter = chain.balances[Wallet] - obs[w].senderBefore])

SenderAfter(w) ==
    Read(w, "senderAfter", "recipientAfter",
         [obs[w] EXCEPT !.senderAfter = chain.balances[Wallet]])

\* The last observation, and _verify_balance_delta on all four.
RecipientAfter(w) ==
    LET after == chain.balances[req[w].recipient]
        o == obs[w]
    IN  Read(w, "recipientAfter", "revert",
             [o EXCEPT !.recipientAfter = after,
                       !.failed = \/ o.senderBefore - o.senderAfter # req[w].amount
                                  \/ after - o.recipientBefore # req[w].amount])

\* Faulty: evm_revert's answer is ignored and nothing is verified after it.
RevertSnapshot_Unchecked(w) ==
    /\ pc[w] = "revert"
    /\ IF obs[w].failed
       THEN Finish(w, "error")
       ELSE Goto(w, "revert", "decide") /\ UNCHANGED result
    /\ \/ evm_revert(obs[w].snapshot)
       \/ ~Live(obs[w].snapshot) /\ UNCHANGED nodeVars
    /\ UNCHANGED <<req, obs, decision, gateVars, used>>

\* The finally block: evm_revert must answer true, and a kept error is raised
\* again only after it did.
RevertSnapshot(w) ==
    /\ pc[w] = "revert"
    /\ \/ /\ evm_revert(obs[w].snapshot)
          /\ IF obs[w].failed
             THEN Finish(w, "error")
             ELSE Goto(w, "revert", "checkSender") /\ UNCHANGED result
       \/ /\ ~Live(obs[w].snapshot)
          /\ Finish(w, "error")
          /\ UNCHANGED nodeVars
    /\ UNCHANGED <<req, obs, decision, gateVars, used>>

\* _verify_restored_state: three reads, then one comparison.
CheckSender(w) ==
    Read(w, "checkSender", "checkRecipient",
         [obs[w] EXCEPT !.restoredSender = chain.balances[Wallet]])
CheckRecipient(w) ==
    Read(w, "checkRecipient", "checkNonce",
         [obs[w] EXCEPT !.restoredRecipient = chain.balances[req[w].recipient]])

\* Faulty: only the balances are compared.
Restored_BalancesOnly(w) ==
    /\ obs[w].restoredSender = obs[w].senderBefore
    /\ obs[w].restoredRecipient = obs[w].recipientBefore

Restored(w) ==
    /\ obs[w].restoredSender = obs[w].senderBefore
    /\ obs[w].restoredRecipient = obs[w].recipientBefore
    /\ chain.nonce = obs[w].nonce

CheckNonce(w) ==
    /\ pc[w] = "checkNonce"
    /\ IF Restored(w)
       THEN Goto(w, "checkNonce", "decide") /\ UNCHANGED result
       ELSE Finish(w, "error")
    /\ UNCHANGED <<nodeVars, req, obs, decision, gateVars, used>>

-----------------------------------------------------------------------------
(* Erc20ExecutionService.run after the simulation, and ExecutionGate. *)

\* The decide callback: evidence that does not bind raises, a candidate that
\* is not accepted ends the run without a call to the gate.
Decide(w) ==
    /\ pc[w] = "decide"
    /\ \E e \in {EvidenceOf(w)} :
        IF ~verify_evidence(e)
        THEN Finish(w, "error") /\ UNCHANGED decision
        ELSE \E c \in {candidate_from_evidence(req[w].approval, e, req[w])} :
                /\ decision' = [decision EXCEPT ![w] = evaluate(req[w].approval, c)]
                /\ IF accepted(req[w].approval, c)
                   THEN Goto(w, "decide", "gateBlock") /\ UNCHANGED result
                   ELSE Finish(w, "rejected")
    /\ UNCHANGED <<nodeVars, req, obs, gateVars, used>>

\* live_context_reader, then the comparison with the candidate's context.
GateBlock(w) ==
    Read(w, "gateBlock", "gateBalance", [obs[w] EXCEPT !.gateBlock = chain.blocks])
GateBalance(w) ==
    Read(w, "gateBalance", "gateNonce",
         [obs[w] EXCEPT !.gateBalance = chain.balances[Wallet]])

\* Faulty: only the nonce is compared.
Drifted_NonceOnly(w) == chain.nonce # CandidateOf(w).context.senderNonce

Drifted(w) ==
    LET context == CandidateOf(w).context
    IN  \/ obs[w].gateBlock # context.block
        \/ obs[w].gateBalance # context.assetBalance
        \/ chain.nonce # context.senderNonce

GateNonce(w) ==
    /\ pc[w] = "gateNonce"
    /\ IF Drifted(w)
       THEN Finish(w, "rejected")
       ELSE Goto(w, "gateNonce", "consume") /\ UNCHANGED result
    /\ UNCHANGED <<nodeVars, req, obs, decision, gateVars, used>>

\* Faulty: a consumed decision is sent again.
Consume_Again(w) ==
    /\ Goto(w, "consume", "send")
    /\ consumed' = consumed \cup {decision[w]}
    /\ UNCHANGED <<nodeVars, req, obs, decision, result, sent, used>>

\* Under the gate's lock: an accepted decision is consumed before it is sent.
Consume(w) ==
    /\ pc[w] = "consume"
    /\ IF decision[w] \in consumed
       THEN Finish(w, "rejected") /\ UNCHANGED consumed
       ELSE /\ Goto(w, "consume", "send")
            /\ consumed' = consumed \cup {decision[w]}
            /\ UNCHANGED result
    /\ UNCHANGED <<nodeVars, req, obs, decision, sent, used>>

\* anvil_sender: a refusal by the node is an exception, the decision stays
\* consumed.
Broadcast(w) ==
    LET tx == CandidateOf(w).transaction
    IN  /\ pc[w] = "send"
        /\ sent' = Append(sent, decision[w])
        /\ \/ /\ eth_sendTransaction(tx, OriginOf(w, "broadcast"))
              /\ Finish(w, "sent")
           \/ /\ Refuses(tx)
              /\ Finish(w, "error")
              /\ UNCHANGED nodeVars
        /\ UNCHANGED <<req, obs, decision, consumed, used>>

Step(w) ==
    \/ CaptureBlock(w) \/ CaptureNonce(w) \/ ResolveGas(w) \/ TakeSnapshot(w)
    \/ SenderBefore(w) \/ RecipientBefore(w) \/ SimulateSend(w)
    \/ PollReceipt(w) \/ PollTimeout(w) \/ SenderAfter(w) \/ RecipientAfter(w)
    \/ RevertSnapshot(w) \/ CheckSender(w) \/ CheckRecipient(w) \/ CheckNonce(w)
    \/ Decide(w) \/ GateBlock(w) \/ GateBalance(w) \/ GateNonce(w)
    \/ Consume(w) \/ Broadcast(w)

-----------------------------------------------------------------------------
(* Others who use the node. *)

ExternalTx(from, to, nonce, selector) ==
    [chainId |-> NodeChain, fromAddress |-> from, toAddress |-> Token,
     nonce |-> nonce, gasLimit |-> TransferGas,
     data |-> [selector |-> selector, recipient |-> to, amount |-> EventAmount]]

Event(kind, tx) ==
    /\ kind \in Events /\ used.events < MaxEvents
    /\ EventAmount <= chain.balances[Payer(tx)]
    /\ \E s \in Stamps : chain' = Mined(chain, tx, External, s)
    /\ used' = [used EXCEPT !.events = @ + 1]
    /\ UNCHANGED <<snapshots, nextId, queue, pc, req, decision, result, gateVars>>

\* The wallet's owner transfers through another application; like any other
\* the node refuses a transaction it already holds.
OwnTransfer ==
    \E to \in Recipients :
        /\ ~Refuses(ExternalTx(Wallet, to, chain.nonce, "transfer"))
        /\ Event("own", ExternalTx(Wallet, to, chain.nonce, "transfer"))
        /\ UNCHANGED obs

\* Somebody pays the wallet.
IncomingTransfer ==
    \E from \in Recipients :
        /\ Event("incoming", ExternalTx(from, Wallet, 0, "transfer"))
        /\ UNCHANGED obs

\* A spender uses an allowance the wallet gave it: the wallet's balance falls
\* and its nonce does not move.  Executions whose gate has already read the
\* balance can no longer notice.
AllowanceSpend ==
    \E spender \in Recipients :
        /\ Event("spend", ExternalTx(spender, spender, 0, "other"))
        /\ obs' = [w \in Worker |->
                       IF pc[w] \in {"gateNonce", "consume", "send"}
                       THEN [obs[w] EXCEPT !.drained = TRUE] ELSE obs[w]]

-----------------------------------------------------------------------------
(* Faults. *)

Fault(kind) ==
    /\ kind \in Faults /\ used.faults < MaxFaults
    /\ used' = [used EXCEPT !.faults = @ + 1]

\* A fault after which a snapshot may stay unreverted.
TearingFault(kind) ==
    /\ kind \in Faults /\ used.faults < MaxFaults
    /\ used' = [used EXCEPT !.faults = @ + 1, !.torn = TRUE]

\* A call never reaches the node: JsonRpcClient.call raises.  The gate has
\* consumed the decision before it calls the sender.
TransportFails(w) ==
    /\ IF pc[w] = "revert" THEN TearingFault("transport") ELSE Fault("transport")
    /\ pc[w] \in Calls
    /\ Raise(w)
    /\ sent' = IF pc[w] = "send" THEN Append(sent, decision[w]) ELSE sent
    /\ UNCHANGED <<nodeVars, req, decision, consumed>>

\* The node acts and its answer is lost: JsonRpcClient.call raises all the same.
ResponseLost(w) ==
    /\ Fault("responseLost")
    /\ \/ /\ pc[w] = "simSend"
          /\ eth_sendTransaction(SimulatedTx(w), OriginOf(w, "simulation"))
          /\ UNCHANGED sent
       \/ /\ pc[w] = "revert"
          /\ evm_revert(obs[w].snapshot)
          /\ UNCHANGED sent
       \/ /\ pc[w] = "send"
          /\ eth_sendTransaction(CandidateOf(w).transaction, OriginOf(w, "broadcast"))
          /\ sent' = Append(sent, decision[w])
    /\ Raise(w)
    /\ UNCHANGED <<req, decision, consumed>>

\* evm_revert answers true without restoring the state.
NoopRevert(w) ==
    /\ TearingFault("noopRevert")
    /\ Live(obs[w].snapshot)
    /\ ~obs[w].failed
    /\ Goto(w, "revert", "checkSender")
    /\ snapshots' = {s \in snapshots : s.id < obs[w].snapshot}
    /\ UNCHANGED <<chain, nextId, queue, req, obs, decision, result, gateVars>>

\* The server process dies and restarts: its threads and the gate's memory are
\* gone, the node is not.
Crash ==
    /\ IF \E w \in Worker : pc[w] \in InsideSnapshot \cup {"revert"}
       THEN TearingFault("crash") ELSE Fault("crash")
    /\ pc' = [w \in Worker |-> "idle"]
    /\ result' = [w \in Worker |-> IF pc[w] = "idle" THEN result[w] ELSE "error"]
    /\ consumed' = {}
    /\ sent' = <<>>
    /\ UNCHANGED <<nodeVars, req, obs, decision>>

-----------------------------------------------------------------------------
Init ==
    /\ NodeInit
    /\ pc = [w \in Worker |-> "idle"]
    /\ req \in [Worker -> {CHOOSE r \in Request : TRUE}]
    /\ obs = [w \in Worker |-> Nothing(0)]
    /\ decision = [w \in Worker |-> NoDecision]
    /\ result = [w \in Worker |-> "none"]
    /\ consumed = {}
    /\ sent = <<>>
    /\ used = [runs |-> 0, events |-> 0, faults |-> 0, torn |-> FALSE]

Environment ==
    \/ MineQueued /\ UNCHANGED <<workerVars, gateVars, used>>
    \/ OwnTransfer
    \/ IncomingTransfer
    \/ AllowanceSpend
    \/ Crash

Next ==
    \/ \E w \in Worker :
        Start(w) \/ Step(w) \/ TransportFails(w) \/ ResponseLost(w) \/ NoopRevert(w)
    \/ Environment

Spec == Init /\ [][Next]_vars

\* A thread that was given a request keeps running: the code never waits for
\* anything but the node's answers and the receipt deadline.
FairSpec == Spec /\ \A w \in Worker : WF_vars(Step(w))

-----------------------------------------------------------------------------
(* Properties. *)

\* The type invariant.
TypeOK ==
    /\ chain \in ChainState
    /\ \A s \in snapshots : s.id \in 0 .. nextId - 1 /\ s.chain \in ChainState
    /\ nextId \in Nat
    /\ \A q \in queue : q.tx \in Transaction /\ q.origin \in Origin
    /\ pc \in [Worker -> Locations]
    /\ req \in [Worker -> Request]
    /\ obs \in [Worker -> Observation]
    /\ decision \in [Worker -> Decision \cup {NoDecision}]
    /\ result \in [Worker -> {"none", "running", "sent", "rejected", "error"}]
    /\ consumed \subseteq Decision
    /\ sent \in Seq(Decision)
    /\ used \in [runs : 0 .. MaxRuns, events : 0 .. MaxEvents,
                 faults : 0 .. MaxFaults, torn : BOOLEAN]

\* One process never hands the same accepted decision to the sender twice, not
\* even after a send that raised (core/gate.py:29-33: "A send exception still
\* consumes the decision").
SendOnce == \A i, j \in 1 .. Len(sent) : sent[i] = sent[j] => i = j

\* Whatever reaches the sender was judged: the balance captured in the
\* simulation less the amount in its calldata is not below the floor of the
\* approval it was judged under (core/execution_service.py:138-188).
SentKeepsFloor ==
    \A i \in 1 .. Len(sent) :
        KeepsFloor(sent[i].approvalSha256, sent[i].candidateSha256)

\* When a decision is taken, and until it is sent, no block of this execution's
\* own simulation is on the chain: evidence is evidence of an undone transfer
\* (core/rpc_simulator.py:9-12, _verify_restored_state).
DecidedOnRestoredChain ==
    \A w \in Worker : pc[w] \in AfterRestore =>
        \A i \in DOMAIN chain.by :
            ~(chain.by[i].kind = "simulation" /\ chain.by[i].run = obs[w].run)

\* Every transfer the gate let through succeeds on the chain and leaves the
\* wallet at or above the floor it was approved under, whatever the owner, the
\* payers and the spenders did meanwhile; excepted is an allowance spend behind
\* the gate's last look (core/execution_service.py:9-10, core/gate.py:58-66).
BroadcastKeepsFloor ==
    \A i \in DOMAIN chain.by :
        chain.by[i].kind = "broadcast" /\ ~chain.by[i].drained =>
            chain.blocks[i].ok /\ chain.left[i] >= chain.by[i].floor

\* With every worker idle no simulated transfer is left on the chain or waiting
\* to be mined (core/rpc_simulator.py:9: "It always reverts the snapshot"),
\* whichever call failed and whichever answer was lost, unless evm_revert itself
\* was not carried out or the process died with a snapshot open.
SimulationLeavesNoTrace ==
    ~used.torn /\ (\A w \in Worker : pc[w] = "idle") =>
        /\ \A i \in DOMAIN chain.by : chain.by[i].kind # "simulation"
        /\ \A q \in queue : q.origin.kind # "simulation"

\* Every execution that starts comes to an outcome: sent, rejected or an error,
\* even when its simulated transaction disappears under it.
ExecutionEnds == \A w \in Worker : pc[w] # "idle" ~> pc[w] = "idle"

\* A simulated transfer that is mined is taken off the chain again, under the
\* same exception (core/rpc_simulator.py:265-303).
SimulationOnChain(run) ==
    \E i \in DOMAIN chain.by :
        chain.by[i].kind = "simulation" /\ chain.by[i].run = run
SimulationEventuallyUndone ==
    \A run \in 1 .. MaxRuns :
        SimulationOnChain(run) ~> ~SimulationOnChain(run) \/ used.torn

\* The gate of the process implements OnceGate: under every interleaving, fault
\* and restart, each step of the system is a step of that gate or none of its
\* business (core/gate.py:29-68).
MayBeSent(d) == KeepsFloor(d.approvalSha256, d.candidateSha256)
Gate == INSTANCE OnceGate
            WITH Allowed <- MayBeSent, spent <- consumed, handed <- sent
IsOnceGate == Gate!Spec

=============================================================================
