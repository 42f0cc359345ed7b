--------------------- MODULE ControlledExecutionProofs ---------------------
(***************************************************************************)
(* What holds of the controlled path for every number of threads,          *)
(* requests, events and faults: an accepted decision is handed to the      *)
(* sender once (GateInv), it keeps the approved floor (FloorInv), and it   *)
(* was taken on a chain without the execution's own simulation             *)
(* (RestoreInv).  With the first two the gate implements OnceGate.  As     *)
(* long as threads keep out of each other's snapshots (ApartInv) the floor *)
(* is also kept on the chain, and no simulation stays there.  Everything   *)
(* that is computed with fits into a word (TypeInv, CountInv).             *)
(***************************************************************************)
EXTENDS ControlledExecution, FloorEvaluatorProofs, FiniteSetTheorems, TLAPS

\* A thread inside the gate's sender call owns a decision that is consumed,
\* was not sent, and that no other thread there owns.
OwnsDecision(w) ==
    /\ decision[w] \in consumed
    /\ \A i \in 1 .. Len(sent) : sent[i] # decision[w]
    /\ \A v \in Worker : v # w /\ pc[v] = "send" => decision[v] # decision[w]

\* SendOnce is not inductive: what was sent must also be consumed, and a thread
\* at the sender must be the only one that can still send its decision.
GateInv ==
    /\ DOMAIN pc = Worker
    /\ DOMAIN decision = Worker
    /\ sent \in Seq(consumed)
    /\ SendOnce
    /\ \A w \in Worker : pc[w] = "send" => OwnsDecision(w)

LEMMA GateInit == Init => GateInv
  BY DEF Init, GateInv, SendOnce, OwnsDecision

\* A step that leaves the gate's memory alone and brings no thread to the
\* sender keeps the invariant.
LEMMA OutsideGate ==
    ASSUME GateInv, NEW w \in Worker,
           UNCHANGED gateVars,
           DOMAIN pc' = Worker, DOMAIN decision' = Worker,
           pc'[w] # "send",
           \A v \in Worker \ {w} : pc'[v] = pc[v] /\ decision'[v] = decision[v]
    PROVE  GateInv'
  <1>1. sent' = sent /\ consumed' = consumed
    BY DEF gateVars
  <1>2. ASSUME NEW v \in Worker, pc'[v] = "send"
        PROVE  OwnsDecision(v)'
    BY <1>1, <1>2 DEF GateInv, OwnsDecision
  <1> QED
    BY <1>1, <1>2 DEF GateInv, SendOnce

\* Appending to sent a decision its owner at the sender just gave up.
LEMMA SenderCalled ==
    ASSUME GateInv, NEW w \in Worker,
           pc[w] = "send",
           sent' = Append(sent, decision[w]),
           consumed' = consumed,
           decision' = decision,
           DOMAIN pc' = Worker,
           pc'[w] # "send",
           \A v \in Worker \ {w} : pc'[v] = pc[v]
    PROVE  GateInv'
  <1>1. OwnsDecision(w)
    BY DEF GateInv
  <1>2. sent \in Seq(consumed) /\ decision[w] \in consumed
    BY <1>1 DEF GateInv, OwnsDecision
  <1>3. /\ sent' \in Seq(consumed')
        /\ Len(sent') = Len(sent) + 1
        /\ Len(sent) \in Nat
        /\ \A i \in 1 .. Len(sent) : sent'[i] = sent[i]
        /\ sent'[Len(sent) + 1] = decision[w]
    BY <1>2
  <1>4. SendOnce'
    BY <1>1, <1>3 DEF GateInv, SendOnce, OwnsDecision
  <1>5. ASSUME NEW v \in Worker, pc'[v] = "send"
        PROVE  OwnsDecision(v)'
    <2>1. v # w /\ pc[v] = "send" /\ OwnsDecision(v)
      BY <1>5 DEF GateInv
    <2>2. \A i \in 1 .. Len(sent') : sent'[i] # decision'[v]
      BY <1>3, <1>1, <2>1 DEF OwnsDecision
    <2> QED
      BY <2>1, <2>2 DEF OwnsDecision
  <1> QED
    BY <1>3, <1>4, <1>5 DEF GateInv

\* Where Goto, Finish and Raise leave the threads.
LEMMA MovesOnlyOne ==
    ASSUME NEW w \in Worker, NEW here, NEW next, NEW how, DOMAIN pc = Worker,
           \/ Goto(w, here, next) /\ next # "send"
           \/ Finish(w, how)
           \/ Raise(w)
    PROVE  /\ DOMAIN pc' = Worker
           /\ pc'[w] # "send"
           /\ \A v \in Worker \ {w} : pc'[v] = pc[v]
  BY DEF Goto, Finish, Raise

\* Every step of a thread outside the gate and the sender.
LEMMA StepsOutsideGate ==
    ASSUME GateInv, NEW w \in Worker,
           \/ Start(w) \/ CaptureBlock(w) \/ CaptureNonce(w) \/ ResolveGas(w)
           \/ TakeSnapshot(w) \/ SenderBefore(w) \/ RecipientBefore(w)
           \/ SimulateSend(w) \/ PollReceipt(w) \/ PollTimeout(w)
           \/ SenderAfter(w) \/ RecipientAfter(w) \/ RevertSnapshot(w)
           \/ CheckSender(w) \/ CheckRecipient(w) \/ CheckNonce(w)
           \/ Decide(w) \/ GateBlock(w) \/ GateBalance(w) \/ GateNonce(w)
           \/ NoopRevert(w)
    PROVE  GateInv'
  <1>1. DOMAIN pc = Worker /\ DOMAIN decision = Worker
    BY DEF GateInv
  <1>2. /\ UNCHANGED gateVars
        /\ DOMAIN decision' = Worker
        /\ \A v \in Worker \ {w} : decision'[v] = decision[v]
    BY <1>1 DEF Start, CaptureBlock, CaptureNonce, ResolveGas, TakeSnapshot,
       SenderBefore, RecipientBefore, SimulateSend, PollReceipt, PollTimeout,
       SenderAfter, RecipientAfter, RevertSnapshot, CheckSender, CheckRecipient,
       CheckNonce, Decide, GateBlock, GateBalance, GateNonce, NoopRevert, Read
  <1>3. /\ DOMAIN pc' = Worker
        /\ pc'[w] # "send"
        /\ \A v \in Worker \ {w} : pc'[v] = pc[v]
    <2>1. CASE Start(w)
      BY <1>1, <2>1, MovesOnlyOne DEF Start
    <2>2. CASE \/ CaptureBlock(w) \/ CaptureNonce(w) \/ SenderBefore(w)
               \/ RecipientBefore(w) \/ SenderAfter(w) \/ RecipientAfter(w)
               \/ CheckSender(w) \/ CheckRecipient(w) \/ GateBlock(w)
               \/ GateBalance(w) \/ ResolveGas(w)
      BY <1>1, <2>2, MovesOnlyOne DEF CaptureBlock, CaptureNonce, SenderBefore,
         RecipientBefore, SenderAfter, RecipientAfter, CheckSender,
         CheckRecipient, GateBlock, GateBalance, ResolveGas, Read
    <2>3. CASE TakeSnapshot(w) \/ SimulateSend(w) \/ NoopRevert(w)
      BY <1>1, <2>3, MovesOnlyOne DEF TakeSnapshot, SimulateSend, NoopRevert
    <2>4. CASE PollReceipt(w) \/ PollTimeout(w)
      BY <1>1, <2>4, MovesOnlyOne DEF PollReceipt, PollTimeout
    <2>5. CASE RevertSnapshot(w) \/ CheckNonce(w) \/ GateNonce(w)
      BY <1>1, <2>5, MovesOnlyOne DEF RevertSnapshot, CheckNonce, GateNonce
    <2>6. CASE Decide(w)
      BY <1>1, <2>6, MovesOnlyOne DEF Decide
    <2> QED
      BY <2>1, <2>2, <2>3, <2>4, <2>5, <2>6
  <1> QED
    BY <1>2, <1>3, OutsideGate

\* Only Consume brings a thread to the sender, with a decision nobody consumed.
LEMMA ConsumeKeepsGateInv ==
    ASSUME GateInv, NEW w \in Worker, Consume(w)
    PROVE  GateInv'
  <1>1. CASE decision[w] \in consumed
    <2>1. UNCHANGED gateVars /\ decision' = decision
      BY <1>1 DEF Consume, gateVars
    <2>2. /\ DOMAIN pc' = Worker
          /\ pc'[w] # "send"
          /\ \A v \in Worker \ {w} : pc'[v] = pc[v]
      BY <1>1, MovesOnlyOne DEF Consume, GateInv
    <2> QED
      BY <2>1, <2>2, OutsideGate DEF GateInv
  <1>2. CASE decision[w] \notin consumed
    <2>1. /\ consumed' = consumed \cup {decision[w]}
          /\ sent' = sent /\ decision' = decision
          /\ DOMAIN pc' = Worker
          /\ \A v \in Worker \ {w} : pc'[v] = pc[v]
      BY <1>2 DEF Consume, Goto, GateInv
    <2>2. sent \in Seq(consumed) /\ sent' \in Seq(consumed')
      BY <2>1 DEF GateInv
    <2>3. \A i \in 1 .. Len(sent) : sent[i] # decision[w]
      BY <1>2, <2>2
    <2>4. ASSUME NEW v \in Worker, pc'[v] = "send"
          PROVE  OwnsDecision(v)'
      <3>1. CASE v = w
        <4>1. \A u \in Worker : u # w /\ pc'[u] = "send" => decision[u] # decision[w]
          BY <1>2, <2>1 DEF GateInv, OwnsDecision
        <4> QED
          BY <2>1, <2>3, <3>1, <4>1 DEF OwnsDecision
      <3>2. CASE v # w
        <4>1. pc[v] = "send" /\ OwnsDecision(v)
          BY <2>1, <2>4, <3>2 DEF GateInv
        <4> QED
          BY <1>2, <2>1, <4>1 DEF OwnsDecision
      <3> QED
        BY <3>1, <3>2
    <2> QED
      BY <2>1, <2>2, <2>4 DEF GateInv, SendOnce
  <1> QED
    BY <1>1, <1>2

\* The sender call ends: it was accepted, refused, or it failed in transport.
LEMMA SenderKeepsGateInv ==
    ASSUME GateInv, NEW w \in Worker,
           Broadcast(w) \/ TransportFails(w) \/ ResponseLost(w)
    PROVE  GateInv'
  <1>1. /\ DOMAIN pc' = Worker
        /\ pc'[w] # "send"
        /\ \A v \in Worker \ {w} : pc'[v] = pc[v]
    BY MovesOnlyOne DEF GateInv, Broadcast, TransportFails, ResponseLost
  <1>2. consumed' = consumed /\ decision' = decision /\ DOMAIN decision = Worker
    BY DEF GateInv, Broadcast, TransportFails, ResponseLost
  <1>3. \/ pc[w] = "send" /\ sent' = Append(sent, decision[w])
        \/ sent' = sent
    BY DEF Broadcast, TransportFails, ResponseLost
  <1> QED
    BY <1>1, <1>2, <1>3, SenderCalled, OutsideGate DEF gateVars

\* Steps of others, and a crash, which empties the gate's memory.
LEMMA EnvironmentKeepsGateInv ==
    ASSUME GateInv, Environment
    PROVE  GateInv'
  <1>1. CASE Crash
    <2>1. /\ consumed' = {} /\ sent' = <<>> /\ decision' = decision
          /\ pc' = [w \in Worker |-> "idle"]
      BY <1>1 DEF Crash
    <2> QED
      BY <2>1 DEF GateInv, SendOnce
  <1>2. CASE ~Crash
    <2>1. UNCHANGED <<pc, decision, consumed, sent>>
      BY <1>2 DEF Environment, OwnTransfer, IncomingTransfer, AllowanceSpend,
         Event, workerVars, gateVars
    <2> QED
      BY <2>1 DEF GateInv, SendOnce, OwnsDecision
  <1> QED
    BY <1>1, <1>2

LEMMA GateStep == GateInv /\ [Next]_vars => GateInv'
  <1> SUFFICES ASSUME GateInv, [Next]_vars
               PROVE  GateInv'
    OBVIOUS
  <1>1. CASE Next
    <2>1. ASSUME NEW w \in Worker, Start(w) \/ Step(w) \/ NoopRevert(w)
          PROVE  GateInv'
      BY <2>1, StepsOutsideGate, ConsumeKeepsGateInv, SenderKeepsGateInv DEF Step
    <2>2. ASSUME NEW w \in Worker, TransportFails(w) \/ ResponseLost(w)
          PROVE  GateInv'
      BY <2>2, SenderKeepsGateInv
    <2> QED
      BY <1>1, <2>1, <2>2, EnvironmentKeepsGateInv DEF Next
  <1>2. CASE UNCHANGED vars
    BY <1>2 DEF vars, workerVars, gateVars, GateInv, SendOnce, OwnsDecision
  <1> QED
    BY <1>1, <1>2

\* One process hands no accepted decision to the sender twice, whatever the
\* threads, the node and the transport do (core/gate.py:29-33, 62-66).
THEOREM DecisionsAreSentOnce == Spec => []SendOnce
  <1>1. Spec => []GateInv
    BY GateInit, GateStep, PTL DEF Spec
  <1>2. GateInv => SendOnce
    BY DEF GateInv
  <1> QED
    BY <1>1, <1>2, PTL

-----------------------------------------------------------------------------
(* What reaches the sender keeps the floor.  The argument goes from the    *)
(* balances the node holds, through what a thread observed, to the         *)
(* candidate it judged: each link is a conjunct of FloorInv.               *)

IntBalances(c) == c.balances \in [Account -> Int]
IntAmount(tx) == tx.data.amount \in Int

\* The node never holds anything but numbers of tokens.
NodeNumbers ==
    /\ IntBalances(chain)
    /\ \A s \in snapshots : IntBalances(s.chain)
    /\ \A q \in queue : IntAmount(q.tx)

\* The two observations the verdict computes with are numbers.
ObservedNumbers(o) ==
    /\ DOMAIN o = DOMAIN Nothing(0)
    /\ o.senderBefore \in Int
    /\ o.senderAfter \in Int

Judged(d) ==
    /\ KeepsFloor(d.approvalSha256, d.candidateSha256)
    /\ IntAmount(d.candidateSha256.transaction)

\* Where a thread holds an accepted decision.
Accepting == {"gateBlock", "gateBalance", "gateNonce", "consume", "send"}

FloorInv ==
    /\ NodeNumbers
    /\ req \in [Worker -> Request]
    /\ DOMAIN obs = Worker /\ \A w \in Worker : ObservedNumbers(obs[w])
    /\ \A w \in Worker : pc[w] \in Accepting => Judged(decision[w])
    /\ \A i \in 1 .. Len(sent) : Judged(sent[i])

\* A request as ExecutionAssumption describes it.
LEMMA RequestNumbers ==
    ASSUME NEW r \in Request
    PROVE  /\ r.amount \in Nat
           /\ r.approval.policy.assetBalanceFloor \in Nat
           /\ r.recipient \in Account
  <1>1. /\ r.amount \in UInt /\ r.approval \in Approval
        /\ r.recipient \in Recipients
    BY ExecutionAssumption
  <1> QED
    BY <1>1, MaxUintAssumption DEF UInt, Approval, Policy, Account

\* Mining moves numbers of tokens.
LEMMA MinedNumbers ==
    ASSUME NEW c, NEW tx, NEW origin, NEW stamp, IntBalances(c), IntAmount(tx)
    PROVE  IntBalances(Mined(c, tx, origin, stamp))
  <1> DEFINE moved == Moved(c.balances, Payer(tx), tx.data.recipient, tx.data.amount)
  <1>1. moved \in [Account -> Int]
    BY DEF Moved, IntBalances, IntAmount
  <1>2. Mined(c, tx, origin, stamp).balances \in {moved, c.balances}
    BY DEF Mined
  <1> QED
    BY <1>1, <1>2 DEF IntBalances

LEMMA SendNumbers ==
    ASSUME NodeNumbers, NEW tx, NEW origin, IntAmount(tx),
           eth_sendTransaction(tx, origin)
    PROVE  NodeNumbers'
  BY MinedNumbers DEF NodeNumbers, eth_sendTransaction

LEMMA RevertNumbers ==
    ASSUME NodeNumbers, NEW id, evm_revert(id)
    PROVE  NodeNumbers'
  BY DEF NodeNumbers, evm_revert

\* Recording an observation keeps the fields and the two numbers, unless it
\* records one of the two.
LEMMA RecordObservation ==
    ASSUME NEW o, NEW v, ObservedNumbers(o)
    PROVE  /\ ObservedNumbers([o EXCEPT !.block = v])
           /\ ObservedNumbers([o EXCEPT !.nonce = v])
           /\ ObservedNumbers([o EXCEPT !.gas = v])
           /\ ObservedNumbers([o EXCEPT !.snapshot = v])
           /\ ObservedNumbers([o EXCEPT !.recipientBefore = v])
           /\ ObservedNumbers([o EXCEPT !.failed = v])
           /\ ObservedNumbers([o EXCEPT !.restoredSender = v])
           /\ ObservedNumbers([o EXCEPT !.restoredRecipient = v])
           /\ ObservedNumbers([o EXCEPT !.gateBlock = v])
           /\ ObservedNumbers([o EXCEPT !.gateBalance = v])
           /\ ObservedNumbers([o EXCEPT !.drained = v])
           /\ v \in Int => ObservedNumbers([o EXCEPT !.senderBefore = v])
           /\ v \in Int => ObservedNumbers([o EXCEPT !.senderAfter = v])
           /\ \A u : ObservedNumbers([o EXCEPT !.recipientAfter = v, !.failed = u])
  BY DEF ObservedNumbers, Nothing

LEMMA FloorInit == Init => FloorInv
  <1> SUFFICES ASSUME Init PROVE FloorInv
    OBVIOUS
  <1>1. NodeNumbers
    BY NodeAssumption, MaxUintAssumption
       DEF Init, NodeInit, NodeNumbers, IntBalances, Genesis, UInt
  <1>2. req \in [Worker -> Request]
    BY ExecutionAssumption DEF Init
  <1>3. /\ DOMAIN obs = Worker
        /\ \A w \in Worker : ObservedNumbers(obs[w])
    BY DEF Init, ObservedNumbers, Nothing
  <1> QED
    BY <1>1, <1>2, <1>3 DEF Init, FloorInv, Accepting

\* A step of one thread that leaves the sender alone: what is left to show is
\* what became of the node, of its observations and of its decision.
LEMMA ThreadStep ==
    ASSUME GateInv, FloorInv, NEW w \in Worker,
           NodeNumbers',
           UNCHANGED <<req, sent>>,
           DOMAIN obs' = Worker, ObservedNumbers(obs'[w]),
           pc'[w] \in Accepting => Judged(decision'[w]),
           \A v \in Worker \ {w} :
               pc'[v] = pc[v] /\ obs'[v] = obs[v] /\ decision'[v] = decision[v]
    PROVE  FloorInv'
  BY DEF FloorInv

\* A recorded observation, and no change of the node.
LEMMA ReadStep ==
    ASSUME GateInv, FloorInv, NEW w \in Worker, NEW here, NEW next, NEW o,
           Read(w, here, next, o), ObservedNumbers(o),
           next \in Accepting => here \in Accepting
    PROVE  FloorInv'
  <1>1. /\ UNCHANGED <<req, sent, decision>>
        /\ NodeNumbers'
    BY DEF Read, gateVars, nodeVars, FloorInv, NodeNumbers
  <1>2. /\ DOMAIN obs' = Worker /\ obs'[w] = o
        /\ \A v \in Worker \ {w} : pc'[v] = pc[v] /\ obs'[v] = obs[v]
        /\ pc[w] = here /\ pc'[w] = next
    BY DEF Read, Goto, FloorInv, GateInv
  <1>3. pc'[w] \in Accepting => Judged(decision'[w])
    BY <1>1, <1>2 DEF FloorInv
  <1> QED
    BY <1>1, <1>2, <1>3, ThreadStep DEF FloorInv

LEMMA ReadsKeepFloorInv ==
    ASSUME GateInv, FloorInv, NEW w \in Worker,
           \/ CaptureBlock(w) \/ CaptureNonce(w)
           \/ SenderBefore(w) \/ RecipientBefore(w)
           \/ SenderAfter(w) \/ RecipientAfter(w)
           \/ CheckSender(w) \/ CheckRecipient(w)
           \/ GateBlock(w) \/ GateBalance(w)
    PROVE  FloorInv'
  <1>1. ObservedNumbers(obs[w]) /\ IntBalances(chain)
    BY DEF FloorInv, NodeNumbers
  <1>2. chain.balances[Wallet] \in Int
    BY <1>1 DEF IntBalances, Account
  <1>3. CASE CaptureBlock(w)
    BY <1>1, <1>3, ReadStep, RecordObservation DEF CaptureBlock, Accepting
  <1>4. CASE CaptureNonce(w)
    BY <1>1, <1>4, ReadStep, RecordObservation DEF CaptureNonce, Accepting
  <1>5. CASE SenderBefore(w)
    BY <1>1, <1>2, <1>5, ReadStep, RecordObservation DEF SenderBefore, Accepting
  <1>6. CASE RecipientBefore(w)
    BY <1>1, <1>6, ReadStep, RecordObservation DEF RecipientBefore, Accepting
  <1>7. CASE SenderAfter(w)
    BY <1>1, <1>2, <1>7, ReadStep, RecordObservation DEF SenderAfter, Accepting
  <1>8. CASE RecipientAfter(w)
    <2> DEFINE after == chain.balances[req[w].recipient]
               failed == \/ obs[w].senderBefore - obs[w].senderAfter # req[w].amount
                         \/ after - obs[w].recipientBefore # req[w].amount
               o == [obs[w] EXCEPT !.recipientAfter = after, !.failed = failed]
    <2>1. Read(w, "recipientAfter", "revert", o)
      BY <1>8 DEF RecipientAfter
    <2>2. ObservedNumbers(o)
      <3> HIDE DEF after, failed
      <3> QED
        BY <1>1, RecordObservation
    <2> HIDE DEF o
    <2> QED
      BY <2>1, <2>2, ReadStep DEF Accepting
  <1>9. CASE CheckSender(w)
    BY <1>1, <1>9, ReadStep, RecordObservation DEF CheckSender, Accepting
  <1>10. CASE CheckRecipient(w)
    BY <1>1, <1>10, ReadStep, RecordObservation DEF CheckRecipient, Accepting
  <1>11. CASE GateBlock(w)
    BY <1>1, <1>11, ReadStep, RecordObservation DEF GateBlock, Accepting
  <1>12. CASE GateBalance(w)
    BY <1>1, <1>12, ReadStep, RecordObservation DEF GateBalance, Accepting
  <1> QED
    BY <1>3, <1>4, <1>5, <1>6, <1>7, <1>8, <1>9, <1>10, <1>11, <1>12

\* An exception drops or has no decision, and only marks the observation.
LEMMA RaiseNumbers ==
    ASSUME GateInv, FloorInv, NEW w \in Worker, Raise(w)
    PROVE  /\ DOMAIN obs' = Worker
           /\ ObservedNumbers(obs'[w])
           /\ pc'[w] \notin Accepting
           /\ \A v \in Worker \ {w} : pc'[v] = pc[v] /\ obs'[v] = obs[v]
  <1>1. DOMAIN obs = Worker /\ DOMAIN pc = Worker /\ ObservedNumbers(obs[w])
    BY DEF FloorInv, GateInv
  <1>2. ObservedNumbers([obs[w] EXCEPT !.failed = TRUE])
    BY <1>1, RecordObservation
  <1>3. \/ obs' = [obs EXCEPT ![w] = [obs[w] EXCEPT !.failed = TRUE]]
        \/ obs' = obs
    BY DEF Raise
  <1>4. \/ pc' = [pc EXCEPT ![w] = "revert"]
        \/ pc' = [pc EXCEPT ![w] = "idle"]
    BY DEF Raise, Finish
  <1> HIDE DEF ObservedNumbers
  <1>5. DOMAIN obs' = Worker /\ ObservedNumbers(obs'[w])
    BY <1>1, <1>2, <1>3
  <1>6. pc'[w] \notin Accepting
    BY <1>1, <1>4 DEF Accepting
  <1> QED
    BY <1>1, <1>3, <1>4, <1>5, <1>6

\* Calls that may raise and whose success is an observation or a receipt.
LEMMA FallibleKeepFloorInv ==
    ASSUME GateInv, FloorInv, NEW w \in Worker,
           ResolveGas(w) \/ PollReceipt(w) \/ PollTimeout(w)
    PROVE  FloorInv'
  <1>1. CASE \E g : Read(w, "gas", "snapshot", [obs[w] EXCEPT !.gas = g])
    <2>1. PICK g : Read(w, "gas", "snapshot", [obs[w] EXCEPT !.gas = g])
      BY <1>1
    <2>2. ObservedNumbers([obs[w] EXCEPT !.gas = g])
      BY RecordObservation DEF FloorInv
    <2> QED
      BY <2>1, <2>2, ReadStep DEF Accepting
  <1>2. CASE /\ Raise(w)
             /\ UNCHANGED <<nodeVars, req, decision, gateVars>>
    <2>1. NodeNumbers' /\ UNCHANGED <<req, sent, decision>>
      BY <1>2 DEF nodeVars, gateVars, FloorInv, NodeNumbers
    <2> QED
      BY <1>2, <2>1, RaiseNumbers, ThreadStep
  <1>3. CASE /\ Goto(w, "poll", "senderAfter")
             /\ UNCHANGED <<nodeVars, req, obs, decision, gateVars>>
    <2>1. NodeNumbers' /\ UNCHANGED <<req, sent, decision, obs>>
      BY <1>3 DEF nodeVars, gateVars, FloorInv, NodeNumbers
    <2>2. pc'[w] \notin Accepting /\ \A v \in Worker \ {w} : pc'[v] = pc[v]
      BY <1>3 DEF Goto, GateInv, Accepting
    <2> QED
      BY <2>1, <2>2, ThreadStep DEF FloorInv
  <1> QED
    BY <1>1, <1>2, <1>3 DEF ResolveGas, PollReceipt, PollTimeout

\* A step without a Judged decision that leaves observations alone.
LEMMA PlainStep ==
    ASSUME GateInv, FloorInv, NEW w \in Worker,
           NodeNumbers', UNCHANGED <<req, sent, obs, decision>>,
           \A v \in Worker \ {w} : pc'[v] = pc[v],
           pc'[w] \in Accepting => pc[w] \in Accepting
    PROVE  FloorInv'
  BY ThreadStep DEF FloorInv

LEMMA StartKeepsFloorInv ==
    ASSUME GateInv, FloorInv, NEW w \in Worker, Start(w)
    PROVE  FloorInv'
  <1>1. NodeNumbers' /\ sent' = sent
    BY DEF Start, nodeVars, gateVars, FloorInv, NodeNumbers
  <1>2. req' \in [Worker -> Request]
    BY DEF Start, FloorInv
  <1>3. PICK run : obs' = [obs EXCEPT ![w] = Nothing(run)]
    BY DEF Start
  <1>4. ObservedNumbers(Nothing(run))
    BY DEF ObservedNumbers, Nothing
  <1> HIDE DEF ObservedNumbers, Nothing
  <1>5. DOMAIN obs' = Worker /\ \A v \in Worker : ObservedNumbers(obs'[v])
    BY <1>3, <1>4 DEF FloorInv
  <1>6. \A v \in Worker : pc'[v] \in Accepting =>
            pc[v] \in Accepting /\ decision'[v] = decision[v]
    BY DEF Start, Goto, GateInv, Accepting
  <1> QED
    BY <1>1, <1>2, <1>5, <1>6 DEF FloorInv

\* Calls that change the node inside the simulation.
LEMMA SimulationKeepsFloorInv ==
    ASSUME GateInv, FloorInv, NEW w \in Worker,
           TakeSnapshot(w) \/ SimulateSend(w) \/ RevertSnapshot(w) \/ NoopRevert(w)
    PROVE  FloorInv'
  <1>0. DOMAIN pc = Worker /\ DOMAIN obs = Worker /\ ObservedNumbers(obs[w])
    BY DEF GateInv, FloorInv
  <1>1. CASE TakeSnapshot(w)
    <2>1. NodeNumbers' /\ UNCHANGED <<req, sent, decision>>
      BY <1>1 DEF TakeSnapshot, evm_snapshot, gateVars, FloorInv, NodeNumbers, IntBalances
    <2>2. obs' = [obs EXCEPT ![w] = [obs[w] EXCEPT !.snapshot = nextId]]
      BY <1>1 DEF TakeSnapshot
    <2>3. ObservedNumbers([obs[w] EXCEPT !.snapshot = nextId])
      BY <1>0, RecordObservation
    <2>4. pc'[w] \notin Accepting /\ \A v \in Worker \ {w} : pc'[v] = pc[v]
      BY <1>0, <1>1 DEF TakeSnapshot, Goto, Accepting
    <2> QED
      BY <1>0, <2>1, <2>2, <2>3, <2>4, ThreadStep
  <1>2. CASE SimulateSend(w)
    <2>1. UNCHANGED <<req, sent, decision>>
      BY <1>2 DEF SimulateSend, gateVars
    <2>2. IntAmount(SimulatedTx(w))
      BY RequestNumbers DEF IntAmount, SimulatedTx, TransferCall, FloorInv
    <2>3. NodeNumbers'
      BY <1>2, <2>2, SendNumbers
         DEF SimulateSend, FloorInv, nodeVars, NodeNumbers
    <2>4. CASE Raise(w)
      BY <2>1, <2>3, <2>4, RaiseNumbers, ThreadStep
    <2>5. CASE Goto(w, "simSend", "poll") /\ UNCHANGED obs
      <3>1. pc'[w] \notin Accepting /\ \A v \in Worker \ {w} : pc'[v] = pc[v]
        BY <1>0, <2>5 DEF Goto, Accepting
      <3> QED
        BY <2>1, <2>3, <2>5, <3>1, PlainStep
    <2> QED
      BY <1>2, <2>4, <2>5 DEF SimulateSend
  <1>3. CASE RevertSnapshot(w) \/ NoopRevert(w)
    <2>1. UNCHANGED <<req, sent, decision, obs>>
      BY <1>3 DEF RevertSnapshot, NoopRevert, gateVars
    <2>2. NodeNumbers'
      <3>1. CASE \E id : evm_revert(id)
        BY <3>1, RevertNumbers DEF FloorInv
      <3>2. CASE UNCHANGED <<chain, queue>> /\ snapshots' \subseteq snapshots
        BY <3>2 DEF FloorInv, NodeNumbers, IntBalances
      <3> QED
        BY <1>3, <3>1, <3>2 DEF RevertSnapshot, NoopRevert, nodeVars
    <2>3. pc'[w] \notin Accepting /\ \A v \in Worker \ {w} : pc'[v] = pc[v]
      BY <1>0, <1>3 DEF RevertSnapshot, NoopRevert, Goto, Finish, Accepting
    <2> QED
      BY <2>1, <2>2, <2>3, PlainStep
  <1> QED
    BY <1>1, <1>2, <1>3

LEMMA ChecksKeepFloorInv ==
    ASSUME GateInv, FloorInv, NEW w \in Worker,
           CheckNonce(w) \/ GateNonce(w) \/ Consume(w)
    PROVE  FloorInv'
  <1>1. NodeNumbers' /\ UNCHANGED <<req, sent, obs, decision>>
    BY DEF CheckNonce, GateNonce, Consume, nodeVars, gateVars, FloorInv, NodeNumbers
  <1>2. /\ \A v \in Worker \ {w} : pc'[v] = pc[v]
        /\ pc'[w] \in Accepting => pc[w] \in Accepting
    BY DEF CheckNonce, GateNonce, Consume, Goto, Finish, GateInv, Accepting
  <1> QED
    BY <1>1, <1>2, PlainStep

\* The verdict: only an accepted candidate goes on to the gate.
LEMMA DecideKeepsFloorInv ==
    ASSUME GateInv, FloorInv, NEW w \in Worker, Decide(w)
    PROVE  FloorInv'
  <1> DEFINE a == req[w].approval
             e == EvidenceOf(w)
             c == candidate_from_evidence(a, e, req[w])
  <1>1. NodeNumbers' /\ UNCHANGED <<req, sent, obs>>
    BY DEF Decide, nodeVars, gateVars, FloorInv, NodeNumbers
  <1>2. /\ \A v \in Worker \ {w} : pc'[v] = pc[v] /\ decision'[v] = decision[v]
        /\ DOMAIN decision = Worker /\ DOMAIN pc = Worker
    BY DEF Decide, Goto, Finish, GateInv
  <1>3. ASSUME pc'[w] \in Accepting
        PROVE  /\ decision' = [decision EXCEPT ![w] = evaluate(a, c)]
               /\ accepted(a, c)
    <2> HIDE DEF c, e, a
    <2>1. \A how : ~Finish(w, how)
      BY <1>2, <1>3 DEF Finish, Accepting
    <2> USE DEF c, e, a
    <2> QED
      BY <2>1 DEF Decide
  <1>4. ASSUME pc'[w] \in Accepting
        PROVE  Judged(decision'[w])
    <2>1. /\ e.senderBefore = obs[w].senderBefore
          /\ e.senderAfter = obs[w].senderAfter
          /\ e.transaction.data.amount = req[w].amount
          /\ e.request.amount = req[w].amount
      BY DEF EvidenceOf, SimulatedTx, TransferCall
    <2>2. /\ a.policy.assetBalanceFloor \in Int
          /\ e.senderBefore \in Int /\ e.senderAfter \in Int
          /\ e.transaction.data.amount \in Nat
      BY <2>1, RequestNumbers DEF FloorInv, ObservedNumbers
    <2>3. KeepsFloor(a, c)
      <3> HIDE DEF a, e
      <3> QED
        BY <1>3, <1>4, <2>1, <2>2, AcceptedEvidenceKeepsFloor
    <2>4. IntAmount(c.transaction)
      BY <2>2 DEF IntAmount, candidate_from_evidence, transaction_from_evidence
    <2>5. decision'[w] = evaluate(a, c)
      BY <1>2, <1>3, <1>4
    <2> HIDE DEF a, c
    <2> QED
      BY <2>3, <2>4, <2>5 DEF Judged, evaluate
  <1> QED
    BY <1>1, <1>2, <1>4, ThreadStep DEF FloorInv

\* The sender call: the decision handed over was judged.
LEMMA SenderKeepsFloorInv ==
    ASSUME GateInv, FloorInv, NEW w \in Worker,
           Broadcast(w) \/ TransportFails(w) \/ ResponseLost(w)
    PROVE  FloorInv'
  <1>1. UNCHANGED <<req, decision>>
    BY DEF Broadcast, TransportFails, ResponseLost
  <1>2. pc[w] = "send" => Judged(decision[w])
    BY DEF FloorInv, Accepting
  <1>3. NodeNumbers'
    <2>1. IntAmount(SimulatedTx(w))
      BY RequestNumbers DEF IntAmount, SimulatedTx, TransferCall, FloorInv
    <2>2. pc[w] = "send" => IntAmount(CandidateOf(w).transaction)
      BY <1>2 DEF Judged, CandidateOf
    <2>3. \/ UNCHANGED nodeVars
          \/ \E id : evm_revert(id)
          \/ \E origin : eth_sendTransaction(SimulatedTx(w), origin)
          \/ /\ pc[w] = "send"
             /\ \E origin : eth_sendTransaction(CandidateOf(w).transaction, origin)
      BY DEF Broadcast, TransportFails, ResponseLost
    <2>4. UNCHANGED nodeVars => NodeNumbers'
      BY DEF nodeVars, FloorInv, NodeNumbers
    <2> QED
      BY <2>1, <2>2, <2>3, <2>4, SendNumbers, RevertNumbers DEF FloorInv
  <1>4. /\ DOMAIN obs' = Worker /\ ObservedNumbers(obs'[w])
        /\ pc'[w] \notin Accepting
        /\ \A v \in Worker \ {w} : pc'[v] = pc[v] /\ obs'[v] = obs[v]
    <2>1. CASE Broadcast(w)
      BY <2>1 DEF Broadcast, Finish, FloorInv, GateInv, Accepting
    <2>2. CASE Raise(w)
      BY <2>2, RaiseNumbers
    <2> QED
      BY <2>1, <2>2 DEF TransportFails, ResponseLost
  <1>5. \A i \in 1 .. Len(sent') : Judged(sent'[i])
    <2>1. \/ sent' = sent
          \/ pc[w] = "send" /\ sent' = Append(sent, decision[w])
      BY DEF Broadcast, TransportFails, ResponseLost
    <2>2. sent \in Seq(consumed)
      BY DEF GateInv
    <2> QED
      BY <1>2, <2>1, <2>2 DEF FloorInv
  <1> QED
    BY <1>1, <1>3, <1>4, <1>5 DEF FloorInv

\* Others move numbers of tokens, and touch no decision.
LEMMA EnvironmentKeepsFloorInv ==
    ASSUME GateInv, FloorInv, Environment
    PROVE  FloorInv'
  <1>1. NodeNumbers'
    <2>1. CASE MineQueued
      BY <2>1, MinedNumbers DEF MineQueued, FloorInv, NodeNumbers
    <2>2. CASE OwnTransfer \/ IncomingTransfer \/ AllowanceSpend
      <3>1. PICK from, to, nonce, selector, kind :
                Event(kind, ExternalTx(from, to, nonce, selector))
        BY <2>2 DEF OwnTransfer, IncomingTransfer, AllowanceSpend
      <3> DEFINE tx == ExternalTx(from, to, nonce, selector)
      <3>2. IntAmount(tx)
        BY ExecutionAssumption, MaxUintAssumption DEF IntAmount, ExternalTx, UInt
      <3> HIDE DEF tx
      <3>3. /\ \E s \in Stamps : chain' = Mined(chain, tx, External, s)
            /\ UNCHANGED <<snapshots, queue>>
        BY <3>1 DEF Event, tx
      <3> QED
        BY <3>2, <3>3, MinedNumbers DEF FloorInv, NodeNumbers
    <2>3. CASE Crash
      BY <2>3 DEF Crash, nodeVars, FloorInv, NodeNumbers
    <2> QED
      BY <2>1, <2>2, <2>3 DEF Environment
  <1>2. DOMAIN obs' = Worker /\ \A w \in Worker : ObservedNumbers(obs'[w])
    <2>1. CASE obs' = obs
      BY <2>1 DEF FloorInv
    <2>2. CASE obs' = [w \in Worker |->
                          IF pc[w] \in {"gateNonce", "consume", "send"}
                          THEN [obs[w] EXCEPT !.drained = TRUE] ELSE obs[w]]
      <3>1. \A w \in Worker : ObservedNumbers([obs[w] EXCEPT !.drained = TRUE])
        BY RecordObservation DEF FloorInv
      <3> HIDE DEF ObservedNumbers
      <3> QED
        BY <2>2, <3>1 DEF FloorInv
    <2> QED
      BY <2>1, <2>2 DEF Environment, OwnTransfer, IncomingTransfer,
         AllowanceSpend, Crash, workerVars
  <1>3. UNCHANGED <<req, decision>>
    BY DEF Environment, OwnTransfer, IncomingTransfer, AllowanceSpend, Event,
       Crash, workerVars
  <1>4. /\ \A w \in Worker : pc'[w] \in Accepting => pc[w] \in Accepting
        /\ sent' = sent \/ sent' = <<>>
    BY DEF Environment, OwnTransfer, IncomingTransfer, AllowanceSpend, Event,
       Crash, workerVars, gateVars, Accepting
  <1> QED
    BY <1>1, <1>2, <1>3, <1>4 DEF FloorInv

LEMMA FloorStep == GateInv /\ FloorInv /\ [Next]_vars => FloorInv'
  <1> SUFFICES ASSUME GateInv, FloorInv, [Next]_vars
               PROVE  FloorInv'
    OBVIOUS
  <1>1. ASSUME NEW w \in Worker, Step(w) \/ NoopRevert(w)
        PROVE  FloorInv'
    BY <1>1, ReadsKeepFloorInv, FallibleKeepFloorInv, SimulationKeepsFloorInv,
       ChecksKeepFloorInv, DecideKeepsFloorInv, SenderKeepsFloorInv DEF Step
  <1>2. ASSUME NEW w \in Worker, Start(w) \/ TransportFails(w) \/ ResponseLost(w)
        PROVE  FloorInv'
    BY <1>2, StartKeepsFloorInv, SenderKeepsFloorInv
  <1>3. CASE UNCHANGED vars
    BY <1>3 DEF vars, nodeVars, workerVars, gateVars, FloorInv, NodeNumbers
  <1> QED
    BY <1>1, <1>2, <1>3, EnvironmentKeepsFloorInv DEF Next

\* Every decision that reaches the sender keeps the approved floor, for every
\* balance, floor, request, interleaving and fault: the captured balance less
\* the amount in the calldata is at least the floor (execution_service.py).
THEOREM SentDecisionsKeepFloor == Spec => []SentKeepsFloor
  <1>1. Spec => []GateInv
    BY GateInit, GateStep, PTL DEF Spec
  <1>2. Spec => [](GateInv /\ FloorInv)
    BY <1>1, FloorInit, FloorStep, PTL DEF Spec
  <1>3. FloorInv => SentKeepsFloor
    BY DEF FloorInv, SentKeepsFloor, Judged
  <1> QED
    BY <1>2, <1>3, PTL

-----------------------------------------------------------------------------
(* The gate of the process implements OnceGate.  GateInv gives the sender a  *)
(* decision nobody handed over, FloorInv one that keeps its floor.           *)

\* A step that leaves the memory of the gate alone is none of its business.
LEMMA GateStutters ==
    ASSUME UNCHANGED gateVars
    PROVE  [Gate!Next]_Gate!gate
  BY DEF gateVars, Gate!gate

LEMMA ConsumeSpends ==
    ASSUME FloorInv, NEW w \in Worker, Consume(w)
    PROVE  [Gate!Next]_Gate!gate
  <1>1. CASE decision[w] \in consumed
    BY <1>1, GateStutters DEF Consume, gateVars
  <1>2. CASE decision[w] \notin consumed
    <2>1. pc[w] = "consume" /\ consumed' = consumed \cup {decision[w]} /\ sent' = sent
      BY <1>2 DEF Consume
    <2>2. MayBeSent(decision[w])
      BY <2>1 DEF FloorInv, Accepting, Judged, MayBeSent
    <2>3. Gate!Spend(decision[w])
      BY <1>2, <2>1, <2>2 DEF Gate!Spend
    <2>4. decision[w] \in consumed'
      BY <2>1
    <2> QED
      BY <2>3, <2>4 DEF Gate!Next
  <1> QED
    BY <1>1, <1>2

LEMMA SenderHands ==
    ASSUME GateInv, NEW w \in Worker,
           pc[w] = "send",
           sent' = Append(sent, decision[w]), consumed' = consumed
    PROVE  [Gate!Next]_Gate!gate
  <1>1. decision[w] \in consumed /\ ~Gate!Handed(decision[w])
    BY DEF GateInv, OwnsDecision, Gate!Handed
  <1>2. Gate!Hand(decision[w])
    BY <1>1 DEF Gate!Hand
  <1> QED
    BY <1>1, <1>2 DEF Gate!Next

\* The steps of a thread outside Consume and the sender.
LEMMA OthersStutter ==
    ASSUME NEW w \in Worker, Start(w) \/ Step(w) \/ NoopRevert(w),
           ~Consume(w), ~Broadcast(w)
    PROVE  UNCHANGED gateVars
  BY DEF Step, Start, CaptureBlock, CaptureNonce, ResolveGas, TakeSnapshot,
     SenderBefore, RecipientBefore, SimulateSend, PollReceipt, PollTimeout,
     SenderAfter, RecipientAfter, RevertSnapshot, CheckSender, CheckRecipient,
     CheckNonce, Decide, GateBlock, GateBalance, GateNonce, NoopRevert, Read

LEMMA StepIsGateStep ==
    GateInv /\ FloorInv /\ [Next]_vars => [Gate!Next]_Gate!gate
  <1> SUFFICES ASSUME GateInv, FloorInv, [Next]_vars
               PROVE  [Gate!Next]_Gate!gate
    OBVIOUS
  <1>1. ASSUME NEW w \in Worker, Start(w) \/ Step(w) \/ NoopRevert(w)
        PROVE  [Gate!Next]_Gate!gate
    <2>1. CASE Consume(w)
      BY <2>1, ConsumeSpends
    <2>2. CASE Broadcast(w)
      BY <2>2, SenderHands DEF Broadcast
    <2>3. CASE ~Consume(w) /\ ~Broadcast(w)
      BY <1>1, <2>3, OthersStutter, GateStutters
    <2> QED
      BY <2>1, <2>2, <2>3
  <1>2. ASSUME NEW w \in Worker, TransportFails(w) \/ ResponseLost(w)
        PROVE  [Gate!Next]_Gate!gate
    <2>1. consumed' = consumed
      BY <1>2 DEF TransportFails, ResponseLost
    <2>2. \/ pc[w] = "send" /\ sent' = Append(sent, decision[w])
          \/ sent' = sent
      BY <1>2 DEF TransportFails, ResponseLost
    <2> QED
      BY <2>1, <2>2, SenderHands, GateStutters DEF gateVars
  <1>3. CASE Crash
    <2>1. Gate!Restart
      BY <1>3 DEF Crash, Gate!Restart
    <2> QED
      BY <2>1 DEF Gate!Next
  <1>4. CASE Environment /\ ~Crash
    <2>1. UNCHANGED gateVars
      BY <1>4 DEF Environment, OwnTransfer, IncomingTransfer, AllowanceSpend,
         Event, workerVars
    <2> QED
      BY <2>1, GateStutters
  <1>5. CASE UNCHANGED vars
    BY <1>5, GateStutters DEF vars
  <1> QED
    BY <1>1, <1>2, <1>3, <1>4, <1>5 DEF Next

\* The gate implements OnceGate for every number of threads, requests, balances
\* and faults: a decision is spent before it is handed over, keeps its floor, is
\* handed over once, and is forgotten only by a restart (core/gate.py:29-68).
THEOREM GateImplementsOnceGate == Spec => IsOnceGate
  <1>1. Init => Gate!Init
    BY DEF Init, Gate!Init
  <1>2. Spec => []GateInv
    BY GateInit, GateStep, PTL DEF Spec
  <1>3. Spec => [](GateInv /\ FloorInv)
    BY <1>2, FloorInit, FloorStep, PTL DEF Spec
  <1> QED
    BY <1>1, <1>3, StepIsGateStep, PTL DEF Spec, Gate!Spec, IsOnceGate

\* What OnceGate keeps: whatever it spent may be spent, and whatever it handed
\* over it spent before.
SpentInv ==
    /\ \A d \in consumed : MayBeSent(d)
    /\ sent \in Seq(consumed)
    /\ SendOnce

LEMMA OnceGateStep ==
    ASSUME SpentInv, [Gate!Next]_Gate!gate
    PROVE  SpentInv'
  <1>1. ASSUME NEW d, Gate!Spend(d) PROVE SpentInv'
    <2>1. sent' = sent /\ consumed' = consumed \cup {d} /\ MayBeSent(d)
      BY <1>1 DEF Gate!Spend
    <2>2. sent' \in Seq(consumed')
      BY <2>1 DEF SpentInv
    <2> QED
      BY <2>1, <2>2 DEF SpentInv, SendOnce
  <1>2. ASSUME NEW d, Gate!Hand(d) PROVE SpentInv'
    <2>1. /\ d \in consumed /\ consumed' = consumed /\ sent' = Append(sent, d)
          /\ \A i \in 1 .. Len(sent) : sent[i] # d
      BY <1>2 DEF Gate!Hand, Gate!Handed
    <2>2. sent \in Seq(consumed)
      BY DEF SpentInv
    <2>3. /\ sent' \in Seq(consumed') /\ Len(sent') = Len(sent) + 1
          /\ \A i \in 1 .. Len(sent) : sent'[i] = sent[i]
          /\ sent'[Len(sent) + 1] = d /\ Len(sent) \in Nat
      BY <2>1, <2>2
    <2>4. SendOnce'
      BY <2>1, <2>3 DEF SpentInv, SendOnce
    <2> QED
      BY <2>1, <2>3, <2>4 DEF SpentInv
  <1>3. ASSUME Gate!Restart PROVE SpentInv'
    BY <1>3 DEF Gate!Restart, SpentInv, SendOnce
  <1>4. ASSUME UNCHANGED Gate!gate PROVE SpentInv'
    BY <1>4 DEF Gate!gate, SpentInv, SendOnce
  <1> QED
    BY <1>1, <1>2, <1>3, <1>4 DEF Gate!Next

\* OnceGate alone, whatever implements it, promises what the caller relies on:
\* no decision is handed over twice, and none that breaks its floor
\* (core/gate.py:29-68).
THEOREM OnceGateMeans == IsOnceGate => [](SendOnce /\ SentKeepsFloor)
  <1>1. Gate!Init => SpentInv
    BY DEF Gate!Init, SpentInv, SendOnce
  <1>2. SpentInv => SendOnce /\ SentKeepsFloor
    <2> SUFFICES ASSUME SpentInv, NEW i \in 1 .. Len(sent)
                 PROVE  KeepsFloor(sent[i].approvalSha256, sent[i].candidateSha256)
      BY DEF SentKeepsFloor, SpentInv
    <2>1. sent[i] \in consumed
      BY DEF SpentInv
    <2> QED
      BY <2>1 DEF SpentInv, MayBeSent
  <1> QED
    BY <1>1, <1>2, OnceGateStep, PTL DEF IsOnceGate, Gate!Spec

-----------------------------------------------------------------------------
(* A decision is taken on a chain without the own simulation.  The argument *)
(* is about the wallet's nonce: a block of the wallet carries a nonce below *)
(* that of its chain, and no live snapshot has a higher nonce than the      *)
(* chain.  So a thread that reads the nonce it captured before sends no     *)
(* simulation of its own back to the chain by any later evm_revert; what is *)
(* left is the queue, which a transaction with a receipt is not in.         *)

\* A transaction on a chain or in the queue, and whose it is.
Entry(tx, origin) == [tx |-> tx, origin |-> origin]
Entries(c) == {Entry(c.blocks[i].tx, c.by[i]) : i \in DOMAIN c.blocks}

\* The chains the node can be on: the canonical one and the snapshots.
Chains == {chain} \cup {s.chain : s \in snapshots}
Everywhere == queue \cup UNION {Entries(c) : c \in Chains}

IsSeq(s) == s \in Seq({s[i] : i \in DOMAIN s})

\* The wallet's blocks have used the nonces below the chain's.
Ledger(c) ==
    /\ c.nonce \in Nat
    /\ IsSeq(c.blocks) /\ IsSeq(c.by) /\ Len(c.by) = Len(c.blocks)
    /\ \A e \in Entries(c) :
          e.tx.fromAddress = Wallet => e.tx.nonce \in Nat /\ e.tx.nonce < c.nonce

\* Snapshots are taken one after the other and forgotten in the reverse order;
\* what waits in the queue is the wallet's, there once, and on no chain.
NodeInv ==
    /\ nextId \in Nat
    /\ \A c \in Chains : Ledger(c) /\ c.nonce <= chain.nonce
    /\ \A s \in snapshots : s.id \in Nat /\ s.id < nextId
    /\ \A s, t \in snapshots : s.id < t.id => s.chain.nonce <= t.chain.nonce
    /\ \A q \in queue : /\ q = Entry(q.tx, q.origin)
                       /\ q.tx.fromAddress = Wallet /\ q.tx.nonce \in Nat
    /\ \A q, r \in queue : q.tx = r.tx => q = r
    /\ \A q \in queue : \A c \in Chains : \A e \in Entries(c) : e.tx # q.tx

\* The simulation of the execution a thread works on.
Own(w, e) == e.origin.kind = "simulation" /\ e.origin.run = obs[w].run

\* Where a thread may have sent its simulation.
Simulated == {"poll", "senderAfter", "recipientAfter", "revert", "checkSender",
              "checkRecipient", "checkNonce"} \cup AfterRestore

\* Where a thread has seen its receipt and nothing raised.
Settled(w) ==
    \/ pc[w] \in Simulated \ {"poll", "revert"}
    \/ pc[w] = "revert" /\ ~obs[w].failed

\* Two threads never work on the same execution.
RunInv ==
    /\ used.runs \in Nat /\ DOMAIN used = {"runs", "events", "faults", "torn"}
    /\ \A w \in Worker :
          /\ obs[w].run \in Nat /\ obs[w].run <= used.runs
          /\ obs[w].nonce \in Nat
          /\ pc[w] \in Accepting =>
                /\ CandidateOf(w).transaction.fromAddress = Wallet
                /\ CandidateOf(w).transaction.nonce \in Nat
    /\ \A v, w \in Worker :
          v # w /\ pc[v] # "idle" /\ pc[w] # "idle" => obs[v].run # obs[w].run

\* Every simulated transaction is the one its execution resolved, if that
\* execution is still going on.
OwnInv ==
    /\ \A e \in Everywhere : e.origin.kind = "simulation" =>
          e.origin.run \in Nat /\ e.origin.run <= used.runs
    /\ \A w \in Worker : pc[w] # "idle" =>
          \A e \in Everywhere : Own(w, e) => pc[w] \in Simulated /\ e.tx = SimulatedTx(w)
    /\ \A w \in Worker : Settled(w) => \A q \in queue : ~Own(w, q)
    /\ \A w \in Worker : pc[w] \in AfterRestore => \A e \in Everywhere : ~Own(w, e)

RestoreInv == NodeInv /\ RunInv /\ OwnInv

LEMMA AppendIsSeq ==
    ASSUME NEW s, NEW e, IsSeq(s)
    PROVE  /\ IsSeq(Append(s, e))
           /\ Len(s) \in Nat /\ DOMAIN s = 1 .. Len(s)
           /\ DOMAIN Append(s, e) = DOMAIN s \cup {Len(s) + 1}
           /\ Len(Append(s, e)) = Len(s) + 1
           /\ \A i \in DOMAIN s : Append(s, e)[i] = s[i]
           /\ Append(s, e)[Len(s) + 1] = e
  <1> DEFINE S == {s[i] : i \in DOMAIN s}
             t == Append(s, e)
             T == {t[i] : i \in DOMAIN t}
  <1>1. s \in Seq(S)
    BY DEF IsSeq
  <1>2. Len(s) \in Nat /\ DOMAIN s = 1 .. Len(s)
    BY <1>1
  <1>3. t \in Seq(S \cup {e}) /\ Len(t) = Len(s) + 1
    <2>1. s \in Seq(S \cup {e})
      BY <1>1
    <2> HIDE DEF S
    <2> QED
      BY <2>1
  <1>4. DOMAIN t = 1 .. Len(s) + 1
    BY <1>3
  <1>5. DOMAIN t = DOMAIN s \cup {Len(s) + 1}
    BY <1>2, <1>4
  <1>6. /\ \A i \in DOMAIN s : t[i] = s[i]
        /\ t[Len(s) + 1] = e
    BY <1>1, <1>2
  <1>7. t \in Seq(T)
    <2>1. \A i \in 1 .. Len(t) : t[i] \in T
      BY <1>3, <1>4
    <2> HIDE DEF T, t
    <2> QED
      BY <1>3, <2>1
  <1> QED
    BY <1>2, <1>3, <1>5, <1>6, <1>7 DEF IsSeq

\* Mining adds one entry to a chain and keeps the ledger.
LEMMA MinedLedger ==
    ASSUME NEW c, NEW tx, NEW origin, NEW stamp, Ledger(c),
           tx.fromAddress = Wallet => tx.nonce = c.nonce
    PROVE  /\ Ledger(Mined(c, tx, origin, stamp))
           /\ c.nonce <= Mined(c, tx, origin, stamp).nonce
           /\ Entries(Mined(c, tx, origin, stamp)) = Entries(c) \cup {Entry(tx, origin)}
  <1> DEFINE d == Mined(c, tx, origin, stamp)
  <1>1. PICK ok : d.blocks = Append(c.blocks, [tx |-> tx, ok |-> ok, stamp |-> stamp])
    BY DEF Mined
  <1>2. /\ d.by = Append(c.by, origin)
        /\ d.nonce = IF tx.fromAddress = Wallet THEN c.nonce + 1 ELSE c.nonce
    BY DEF Mined
  <1> HIDE DEF d
  <1> DEFINE block == [tx |-> tx, ok |-> ok, stamp |-> stamp]
             n == Len(c.blocks)
  <1>3. /\ IsSeq(c.blocks) /\ IsSeq(c.by) /\ Len(c.by) = n
        /\ c.nonce \in Nat
    BY DEF Ledger
  <1>4. block.tx = tx /\ d.blocks = Append(c.blocks, block)
    BY <1>1
  <1>5. /\ IsSeq(d.blocks) /\ IsSeq(d.by) /\ Len(d.by) = Len(d.blocks)
    <2> HIDE DEF block
    <2> QED
      BY <1>2, <1>3, <1>4, AppendIsSeq
  <1>6. /\ n \in Nat
        /\ DOMAIN c.blocks = DOMAIN c.by
        /\ DOMAIN d.blocks = DOMAIN c.blocks \cup {n + 1}
        /\ \A i \in DOMAIN c.blocks : d.blocks[i] = c.blocks[i] /\ d.by[i] = c.by[i]
        /\ d.blocks[n + 1] = block /\ d.by[n + 1] = origin
    <2>1. /\ n \in Nat /\ DOMAIN c.blocks = 1 .. n /\ DOMAIN c.by = 1 .. n
      BY <1>3, AppendIsSeq
    <2> HIDE DEF block
    <2>2. /\ DOMAIN d.blocks = DOMAIN c.blocks \cup {n + 1}
          /\ \A i \in DOMAIN c.blocks : d.blocks[i] = c.blocks[i]
          /\ d.blocks[n + 1] = block
      BY <1>3, <1>4, AppendIsSeq
    <2> HIDE DEF n
    <2>3. /\ \A i \in DOMAIN c.by : d.by[i] = c.by[i]
          /\ d.by[n + 1] = origin
      BY <1>2, <1>3, AppendIsSeq
    <2> QED
      BY <2>1, <2>2, <2>3
  <1>7. Entries(d) = Entries(c) \cup {Entry(tx, origin)}
    <2> HIDE DEF block, n
    <2> QED
      BY <1>4, <1>6 DEF Entries
  <1>8. d.nonce \in Nat /\ c.nonce <= d.nonce
    BY <1>2, <1>3
  <1>9. \A e \in Entries(d) :
            e.tx.fromAddress = Wallet => e.tx.nonce \in Nat /\ e.tx.nonce < d.nonce
    <2>1. ASSUME NEW e \in Entries(c), e.tx.fromAddress = Wallet
          PROVE  e.tx.nonce \in Nat /\ e.tx.nonce < d.nonce
      <3>1. e.tx.nonce \in Nat /\ e.tx.nonce < c.nonce
        BY <2>1 DEF Ledger
      <3> QED
        BY <1>3, <1>8, <3>1
    <2>2. tx.fromAddress = Wallet => tx.nonce \in Nat /\ tx.nonce < d.nonce
      BY <1>2, <1>3
    <2>3. Entry(tx, origin).tx = tx
      BY DEF Entry
    <2> QED
      BY <1>7, <2>1, <2>2, <2>3
  <1> QED
    BY <1>5, <1>7, <1>8, <1>9 DEF Ledger, d

\* The chain grows by one transaction that is not left waiting in the queue.
LEMMA ChainExtended ==
    ASSUME NodeInv, NEW tx, NEW origin, NEW stamp,
           chain' = Mined(chain, tx, origin, stamp),
           UNCHANGED <<snapshots, nextId>>, queue' \subseteq queue,
           tx.fromAddress = Wallet => tx.nonce = chain.nonce,
           \A q \in queue' : q.tx # tx
    PROVE  /\ NodeInv'
           /\ \A e \in Everywhere' : e \in Everywhere \/ e = Entry(tx, origin)
  <1>1. /\ Ledger(chain') /\ chain.nonce <= chain'.nonce
        /\ Entries(chain') = Entries(chain) \cup {Entry(tx, origin)}
    <2>1. Ledger(chain)
      BY DEF NodeInv, Chains
    <2> QED
      BY <2>1, MinedLedger
  <1>2. \A c \in Chains' : c \in Chains \/ c = chain'
    BY DEF Chains
  <1>3. chain \in Chains /\ chain.nonce \in Nat /\ chain'.nonce \in Nat
    BY <1>1 DEF NodeInv, Chains, Ledger
  <1>4. \A c \in Chains' : Ledger(c) /\ c.nonce <= chain'.nonce
    <2>1. \A c \in Chains : c.nonce \in Nat /\ c.nonce <= chain.nonce /\ Ledger(c)
      BY DEF NodeInv, Ledger
    <2> QED
      BY <1>1, <1>2, <1>3, <2>1
  <1>5. \A q \in queue' : \A c \in Chains' : \A e \in Entries(c) : e.tx # q.tx
    <2>1. Entry(tx, origin).tx = tx
      BY DEF Entry
    <2>2. \A q \in queue' : \A e \in Entries(chain') : e.tx # q.tx
      BY <1>1, <1>3, <2>1 DEF NodeInv
    <2> QED
      BY <1>2, <2>2 DEF NodeInv
  <1>6. NodeInv'
    BY <1>4, <1>5 DEF NodeInv
  <1>7. \A e \in Everywhere' : e \in Everywhere \/ e = Entry(tx, origin)
    BY <1>1, <1>2, <1>3 DEF Everywhere
  <1> QED
    BY <1>6, <1>7

\* A transaction of the wallet is mined, or waits because its nonce is ahead of
\* every chain the node can be on.
LEMMA SendKeepsNodeInv ==
    ASSUME NodeInv, NEW tx, NEW origin, eth_sendTransaction(tx, origin),
           tx.fromAddress = Wallet, tx.nonce \in Nat
    PROVE  /\ NodeInv'
           /\ \A e \in Everywhere' : e \in Everywhere \/ e = Entry(tx, origin)
           /\ \A q \in queue' : q \in queue \/ q = Entry(tx, origin)
  <1>1. /\ ~(tx.nonce < chain.nonce) /\ \A q \in queue : q.tx # tx
        /\ UNCHANGED <<snapshots, nextId>>
    BY DEF eth_sendTransaction, Refuses
  <1>2. CASE /\ tx.nonce = chain.nonce /\ queue' = queue
             /\ \E s \in Stamps : chain' = Mined(chain, tx, origin, s)
    BY <1>1, <1>2, ChainExtended
  <1>3. CASE /\ tx.nonce > chain.nonce /\ chain' = chain
             /\ queue' = queue \cup {Entry(tx, origin)}
    <2>1. Chains' = Chains
      BY <1>1, <1>3 DEF Chains
    <2>2. Entry(tx, origin).tx = tx /\ Entry(tx, origin).origin = origin
      BY DEF Entry
    <2>3. \A c \in Chains : \A e \in Entries(c) : e.tx # tx
      <3>1. SUFFICES ASSUME NEW c \in Chains, NEW e \in Entries(c), e.tx = tx
                     PROVE  FALSE
        OBVIOUS
      <3>2. /\ Ledger(c) /\ c.nonce <= chain.nonce
            /\ Ledger(chain)
        BY DEF NodeInv, Chains
      <3>3. /\ e.tx.nonce < c.nonce /\ c.nonce \in Nat /\ chain.nonce \in Nat
        BY <3>1, <3>2 DEF Ledger
      <3> QED
        BY <1>3, <3>1, <3>2, <3>3
    <2>4. \A q \in queue' : q \in queue \/ q = Entry(tx, origin)
      BY <1>3
    <2>5. /\ \A q \in queue' : /\ q = Entry(q.tx, q.origin)
                              /\ q.tx.fromAddress = Wallet /\ q.tx.nonce \in Nat
          /\ \A q, r \in queue' : q.tx = r.tx => q = r
      BY <1>1, <2>2, <2>4 DEF NodeInv
    <2>6. \A q \in queue' : \A c \in Chains : \A e \in Entries(c) : e.tx # q.tx
      BY <2>2, <2>3, <2>4 DEF NodeInv
    <2>7. NodeInv'
      <3>1. \A c \in Chains' : Ledger(c) /\ c.nonce <= chain'.nonce
        BY <1>3, <2>1 DEF NodeInv
      <3>2. /\ nextId' \in Nat
            /\ \A s \in snapshots' : s.id \in Nat /\ s.id < nextId'
            /\ \A s, t \in snapshots' : s.id < t.id => s.chain.nonce <= t.chain.nonce
        BY <1>1 DEF NodeInv
      <3> QED
        BY <2>1, <2>5, <2>6, <3>1, <3>2 DEF NodeInv
    <2>8. \A e \in Everywhere' : e \in Everywhere \/ e = Entry(tx, origin)
      BY <2>1, <2>4 DEF Everywhere
    <2> QED
      BY <2>4, <2>7, <2>8
  <1> QED
    BY <1>2, <1>3 DEF eth_sendTransaction, Entry

LEMMA MineQueuedKeepsNodeInv ==
    ASSUME NodeInv, MineQueued
    PROVE  NodeInv' /\ Everywhere' \subseteq Everywhere /\ queue' \subseteq queue
  <1>1. PICK q \in queue :
            /\ q.tx.nonce = chain.nonce
            /\ \E s \in Stamps : chain' = Mined(chain, q.tx, q.origin, s)
            /\ queue' = queue \ {q}
            /\ UNCHANGED <<snapshots, nextId>>
    BY DEF MineQueued
  <1>2. \A r \in queue' : r.tx # q.tx
    BY <1>1 DEF NodeInv
  <1>3. /\ NodeInv'
        /\ \A e \in Everywhere' : e \in Everywhere \/ e = Entry(q.tx, q.origin)
    BY <1>1, <1>2, ChainExtended
  <1>4. Entry(q.tx, q.origin) = q
    BY DEF NodeInv
  <1>5. q \in Everywhere
    BY DEF Everywhere
  <1> QED
    BY <1>1, <1>3, <1>4, <1>5

LEMMA SnapshotKeepsNodeInv ==
    ASSUME NodeInv, evm_snapshot
    PROVE  NodeInv' /\ Everywhere' = Everywhere /\ queue' = queue
  <1>1. /\ snapshots' = snapshots \cup {[id |-> nextId, chain |-> chain]}
        /\ nextId' = nextId + 1 /\ chain' = chain /\ queue' = queue
    BY DEF evm_snapshot
  <1>2. Chains' = Chains
    BY <1>1 DEF Chains
  <1>3. /\ nextId' \in Nat
        /\ \A s \in snapshots' : s.id \in Nat /\ s.id < nextId'
    BY <1>1 DEF NodeInv
  <1>4. \A s, t \in snapshots' : s.id < t.id => s.chain.nonce <= t.chain.nonce
    <2>1. \A s \in snapshots : s.chain.nonce <= chain.nonce /\ s.id < nextId /\ s.id \in Nat
      BY DEF NodeInv, Chains
    <2>2. chain.nonce \in Nat /\ nextId \in Nat
      BY DEF NodeInv, Chains, Ledger
    <2> QED
      BY <1>1, <2>1, <2>2 DEF NodeInv
  <1>5. NodeInv'
    BY <1>1, <1>2, <1>3, <1>4 DEF NodeInv
  <1> QED
    BY <1>1, <1>2, <1>5 DEF Everywhere

\* Snapshots are forgotten, and the chain stays or becomes the oldest of them.
LEMMA ForgetKeepsNodeInv ==
    ASSUME NodeInv, NEW id, UNCHANGED <<nextId, queue>>,
           snapshots' = {s \in snapshots : s.id < id},
           \/ chain' = chain
           \/ \E s \in snapshots : s.id = id /\ chain' = s.chain
    PROVE  NodeInv' /\ Everywhere' \subseteq Everywhere /\ queue' = queue
  <1>1. Chains' \subseteq Chains
    BY DEF Chains
  <1>2. \A c \in Chains' : c.nonce <= chain'.nonce
    BY DEF Chains, NodeInv, Ledger
  <1>3. NodeInv'
    BY <1>1, <1>2 DEF NodeInv
  <1> QED
    BY <1>1, <1>3 DEF Everywhere

LEMMA RevertKeepsNodeInv ==
    ASSUME NodeInv, NEW id, evm_revert(id)
    PROVE  NodeInv' /\ Everywhere' \subseteq Everywhere /\ queue' = queue
  BY ForgetKeepsNodeInv DEF evm_revert

\* Transactions of others are mined at once, at the nonce that is due if they
\* are the wallet's.
LEMMA EventKeepsNodeInv ==
    ASSUME NodeInv, OwnTransfer \/ IncomingTransfer \/ AllowanceSpend
    PROVE  /\ NodeInv'
           /\ \A e \in Everywhere' : e \in Everywhere \/ e.origin.kind # "simulation"
           /\ queue' = queue
  <1>1. PICK tx : /\ \E s \in Stamps : chain' = Mined(chain, tx, External, s)
                  /\ UNCHANGED <<snapshots, nextId, queue>>
                  /\ \/ tx.fromAddress # Wallet
                     \/ tx.nonce = chain.nonce /\ ~Refuses(tx)
    <2>1. CASE OwnTransfer
      <3>1. PICK to \in Recipients :
                /\ ~Refuses(ExternalTx(Wallet, to, chain.nonce, "transfer"))
                /\ Event("own", ExternalTx(Wallet, to, chain.nonce, "transfer"))
        BY <2>1 DEF OwnTransfer
      <3>2. ExternalTx(Wallet, to, chain.nonce, "transfer").nonce = chain.nonce
        BY DEF ExternalTx
      <3> QED
        BY <3>1, <3>2 DEF Event
    <2>2. CASE IncomingTransfer \/ AllowanceSpend
      <3>0. PICK from \in Recipients :
                \E to, selector, kind : Event(kind, ExternalTx(from, to, 0, selector))
        BY <2>2 DEF IncomingTransfer, AllowanceSpend
      <3>1. PICK to, selector, kind : Event(kind, ExternalTx(from, to, 0, selector))
        BY <3>0
      <3>2. ExternalTx(from, to, 0, selector).fromAddress # Wallet
        BY NodeAssumption DEF ExternalTx
      <3> QED
        BY <3>1, <3>2 DEF Event
    <2> QED
      BY <2>1, <2>2
  <1>2. \A q \in queue : q.tx # tx
    BY <1>1 DEF NodeInv, Refuses
  <1>3. /\ NodeInv'
        /\ \A e \in Everywhere' : e \in Everywhere \/ e = Entry(tx, External)
    BY <1>1, <1>2, ChainExtended
  <1>4. Entry(tx, External).origin.kind # "simulation"
    BY DEF Entry, External
  <1> QED
    BY <1>1, <1>3, <1>4

\* What a step of the threads has to respect: v goes on with the execution it
\* works on, and past a location of OwnInv only with what OwnInv asks there.
GoesOn(v) ==
    /\ pc[v] # "idle"
    /\ pc[v] \in Simulated =>
          pc'[v] \in Simulated /\ obs'[v].nonce = obs[v].nonce /\ obs'[v].gas = obs[v].gas
    /\ \/ Settled(v) \/ pc'[v] \notin Simulated \/ pc'[v] = "poll"
       \/ pc'[v] = "revert" /\ obs'[v].failed
       \/ \A q \in queue : ~Own(v, q)
    /\ \/ pc[v] \in AfterRestore \/ pc'[v] \notin AfterRestore
       \/ \A e \in Everywhere : ~Own(v, e)

LEMMA GoingOnKeepsOwnInv ==
    ASSUME RunInv, OwnInv,
           used'.runs = used.runs, req' = req,
           \A e \in Everywhere' : e \in Everywhere \/ e.origin.kind # "simulation",
           \A q \in queue' : q \in queue \/ q.origin.kind # "simulation",
           \A v \in Worker : obs'[v].run = obs[v].run,
           \A v \in Worker : pc'[v] = "idle" \/ GoesOn(v)
    PROVE  OwnInv'
  <1>1. \A e \in Everywhere' : e.origin.kind = "simulation" =>
            e \in Everywhere /\ e.origin.run \in Nat /\ e.origin.run <= used'.runs
    BY DEF OwnInv
  <1>2. ASSUME NEW w \in Worker, pc'[w] # "idle",
               NEW e \in Everywhere', e.origin.kind = "simulation",
               e.origin.run = obs'[w].run
        PROVE  /\ pc'[w] \in Simulated /\ e.tx = SimulatedTx(w)'
               /\ pc'[w] \notin AfterRestore
    <2>1. e \in Everywhere /\ Own(w, e) /\ GoesOn(w)
      BY <1>1, <1>2 DEF Own
    <2>2. pc[w] \in Simulated /\ e.tx = SimulatedTx(w)
      BY <2>1 DEF OwnInv, GoesOn
    <2>3. pc'[w] \in Simulated /\ SimulatedTx(w)' = SimulatedTx(w)
      BY <2>1, <2>2 DEF GoesOn, SimulatedTx, TransferCall
    <2>4. pc'[w] \notin AfterRestore
      BY <2>1 DEF OwnInv, GoesOn
    <2> QED
      BY <2>2, <2>3, <2>4
  <1>3. ASSUME NEW w \in Worker, Settled(w)',
               NEW q \in queue', q.origin.kind = "simulation",
               q.origin.run = obs'[w].run
        PROVE  FALSE
    <2>1. q \in queue /\ Own(w, q)
      BY <1>3 DEF Own
    <2>2. /\ pc'[w] \in Simulated /\ pc'[w] # "poll" /\ pc'[w] # "idle"
          /\ ~(pc'[w] = "revert" /\ obs'[w].failed)
      BY <1>3 DEF Settled, Simulated, AfterRestore
    <2> QED
      BY <2>1, <2>2 DEF GoesOn, OwnInv
  <1>4. \A w \in Worker : pc'[w] \in AfterRestore => pc'[w] # "idle"
    BY DEF AfterRestore
  <1> QED
    BY <1>1, <1>2, <1>3, <1>4 DEF OwnInv, Own

LEMMA GoingOnKeepsRunInv ==
    ASSUME RunInv,
           used'.runs = used.runs, DOMAIN used' = DOMAIN used,
           \A v \in Worker : obs'[v].run = obs[v].run /\ obs'[v].nonce \in Nat,
           \A v \in Worker : pc'[v] = "idle" \/ pc[v] # "idle",
           \A v \in Worker : pc'[v] \in Accepting =>
               \/ pc[v] \in Accepting /\ decision'[v] = decision[v]
               \/ LET tx == decision'[v].candidateSha256.transaction
                  IN  tx.fromAddress = Wallet /\ tx.nonce \in Nat
    PROVE  RunInv'
  <1>1. \A v \in Worker : pc'[v] \in Accepting =>
            LET tx == decision'[v].candidateSha256.transaction
            IN  tx.fromAddress = Wallet /\ tx.nonce \in Nat
    BY DEF RunInv, CandidateOf
  <1> QED
    BY <1>1 DEF RunInv, CandidateOf

\* A step of one thread.
LEMMA OneGoesOn ==
    ASSUME GateInv, RestoreInv, NEW w \in Worker,
           NodeInv', req' = req,
           used'.runs = used.runs, DOMAIN used' = DOMAIN used,
           \A e \in Everywhere' : e \in Everywhere \/ e.origin.kind # "simulation",
           \A q \in queue' : q \in queue \/ q.origin.kind # "simulation",
           \A v \in Worker \ {w} :
               pc'[v] = pc[v] /\ obs'[v] = obs[v] /\ decision'[v] = decision[v],
           obs'[w].run = obs[w].run, obs'[w].nonce \in Nat,
           pc'[w] = "idle" \/ GoesOn(w),
           pc'[w] \in Accepting =>
               \/ pc[w] \in Accepting /\ decision'[w] = decision[w]
               \/ LET tx == decision'[w].candidateSha256.transaction
                  IN  tx.fromAddress = Wallet /\ tx.nonce \in Nat
    PROVE  RestoreInv'
  <1>1. \A v \in Worker \ {w} : pc'[v] = "idle" \/ GoesOn(v)
    BY DEF GoesOn, Settled
  <1>2. \A v \in Worker \ {w} : obs'[v].nonce \in Nat
    BY DEF RestoreInv, RunInv
  <1>3. pc'[w] = "idle" \/ pc[w] # "idle"
    BY DEF GoesOn
  <1> HIDE DEF GoesOn
  <1>4. OwnInv'
    <2>1. \A v \in Worker : obs'[v].run = obs[v].run
      OBVIOUS
    <2>2. \A v \in Worker : pc'[v] = "idle" \/ GoesOn(v)
      BY <1>1
    <2> QED
      BY <2>1, <2>2, GoingOnKeepsOwnInv DEF RestoreInv
  <1>5. RunInv'
    BY <1>2, <1>3, GoingOnKeepsRunInv DEF RestoreInv
  <1> QED
    BY <1>4, <1>5 DEF RestoreInv

\* Recording an observation leaves the execution it belongs to alone, and its
\* transaction unless that is what is resolved.
SameRun(p, o) == p.run = o.run /\ p.nonce = o.nonce /\ p.gas = o.gas

LEMMA RecordSameRun ==
    ASSUME NEW o, NEW v, ObservedNumbers(o)
    PROVE  /\ SameRun([o EXCEPT !.block = v], o)
           /\ SameRun([o EXCEPT !.snapshot = v], o)
           /\ SameRun([o EXCEPT !.senderBefore = v], o)
           /\ SameRun([o EXCEPT !.recipientBefore = v], o)
           /\ SameRun([o EXCEPT !.senderAfter = v], o)
           /\ \A u : SameRun([o EXCEPT !.recipientAfter = v, !.failed = u], o)
           /\ SameRun([o EXCEPT !.failed = v], o)
           /\ [o EXCEPT !.failed = v].failed = v
           /\ SameRun([o EXCEPT !.restoredSender = v], o)
           /\ SameRun([o EXCEPT !.restoredRecipient = v], o)
           /\ SameRun([o EXCEPT !.gateBlock = v], o)
           /\ SameRun([o EXCEPT !.gateBalance = v], o)
           /\ SameRun([o EXCEPT !.drained = v], o)
           /\ [o EXCEPT !.nonce = v].run = o.run /\ [o EXCEPT !.nonce = v].nonce = v
           /\ [o EXCEPT !.gas = v].run = o.run /\ [o EXCEPT !.gas = v].nonce = o.nonce
  BY DEF ObservedNumbers, Nothing, SameRun

LEMMA ReadKeepsRestoreInv ==
    ASSUME GateInv, FloorInv, RestoreInv, NEW w \in Worker,
           NEW here, NEW next, NEW o, Read(w, here, next, o),
           here # "idle", o.run = obs[w].run, o.nonce \in Nat,
           \/ here \notin Simulated /\ next \notin Simulated
           \/ /\ here \in Simulated \ {"poll", "revert"} /\ next \in Simulated
              /\ SameRun(o, obs[w]),
           next \in AfterRestore => here \in AfterRestore,
           next \in Accepting => here \in Accepting
    PROVE  RestoreInv'
  <1>1. /\ UNCHANGED <<chain, snapshots, nextId, queue, req, decision, used>>
        /\ pc[w] = here /\ pc'[w] = next /\ obs'[w] = o
        /\ \A v \in Worker \ {w} : pc'[v] = pc[v] /\ obs'[v] = obs[v]
    BY DEF Read, Goto, nodeVars, GateInv, FloorInv
  <1>2. NodeInv' /\ Everywhere' = Everywhere
    BY <1>1 DEF NodeInv, Everywhere, Chains, RestoreInv
  <1>3. GoesOn(w)
    BY <1>1 DEF GoesOn, Settled, SameRun
  <1> QED
    BY <1>1, <1>2, <1>3, OneGoesOn

LEMMA ReadsKeepRestoreInv ==
    ASSUME GateInv, FloorInv, RestoreInv, NEW w \in Worker,
           \/ CaptureBlock(w) \/ CaptureNonce(w)
           \/ SenderBefore(w) \/ RecipientBefore(w)
           \/ SenderAfter(w) \/ RecipientAfter(w)
           \/ CheckSender(w) \/ CheckRecipient(w)
           \/ GateBlock(w) \/ GateBalance(w)
    PROVE  RestoreInv'
  <1>1. ObservedNumbers(obs[w]) /\ obs[w].nonce \in Nat /\ chain.nonce \in Nat
    BY DEF FloorInv, RestoreInv, RunInv, NodeInv, Chains, Ledger
  <1> DEFINE Resolving(here, next) ==
                 {here, next} \cap (Simulated \cup Accepting \cup {"idle"}) = {}
  <1>0. /\ Resolving("block", "nonce") /\ Resolving("nonce", "gas")
        /\ Resolving("senderBefore", "recipientBefore")
        /\ Resolving("recipientBefore", "simSend")
    BY DEF Simulated, AfterRestore, Accepting
  <1>2. ASSUME NEW here, NEW next, NEW o, Resolving(here, next),
               o.run = obs[w].run, o.nonce \in Nat, Read(w, here, next, o)
        PROVE  RestoreInv'
    <2>1. /\ here # "idle" /\ here \notin Simulated /\ next \notin Simulated
          /\ next \notin AfterRestore /\ next \notin Accepting
      BY <1>2 DEF Simulated
    <2> QED
      BY <1>2, <2>1, ReadKeepsRestoreInv
  <1> HIDE DEF Resolving
  <1>3. CASE CaptureBlock(w)
    <2> DEFINE o == [obs[w] EXCEPT !.block = chain.blocks]
    <2>1. o.run = obs[w].run /\ o.nonce \in Nat
      BY <1>1, RecordSameRun DEF SameRun
    <2>2. Read(w, "block", "nonce", o)
      BY <1>3 DEF CaptureBlock
    <2> HIDE DEF o
    <2> QED
      BY <1>0, <1>2, <2>1, <2>2
  <1>4. CASE CaptureNonce(w)
    <2> DEFINE o == [obs[w] EXCEPT !.nonce = chain.nonce]
    <2>1. o.run = obs[w].run /\ o.nonce \in Nat
      BY <1>1, RecordSameRun
    <2>2. Read(w, "nonce", "gas", o)
      BY <1>4 DEF CaptureNonce
    <2> HIDE DEF o
    <2> QED
      BY <1>0, <1>2, <2>1, <2>2
  <1>5. CASE SenderBefore(w)
    <2> DEFINE o == [obs[w] EXCEPT !.senderBefore = chain.balances[Wallet]]
    <2>1. o.run = obs[w].run /\ o.nonce \in Nat
      BY <1>1, RecordSameRun DEF SameRun
    <2>2. Read(w, "senderBefore", "recipientBefore", o)
      BY <1>5 DEF SenderBefore
    <2> HIDE DEF o
    <2> QED
      BY <1>0, <1>2, <2>1, <2>2
  <1>6. CASE RecipientBefore(w)
    <2> DEFINE o == [obs[w] EXCEPT !.recipientBefore = chain.balances[req[w].recipient]]
    <2>1. o.run = obs[w].run /\ o.nonce \in Nat
      BY <1>1, RecordSameRun DEF SameRun
    <2>2. Read(w, "recipientBefore", "simSend", o)
      BY <1>6 DEF RecipientBefore
    <2> HIDE DEF o
    <2> QED
      BY <1>0, <1>2, <2>1, <2>2
  <1> DEFINE Passing(here, next) ==
                 /\ here \in Simulated \ {"poll", "revert"} /\ next \in Simulated
                 /\ next \in AfterRestore => here \in AfterRestore
                 /\ next \in Accepting => here \in Accepting
                 /\ here # "idle"
  <1>7. ASSUME NEW here, NEW next, NEW o, Passing(here, next),
               SameRun(o, obs[w]), Read(w, here, next, o)
        PROVE  RestoreInv'
    <2>1. o.run = obs[w].run /\ o.nonce \in Nat
      BY <1>1, <1>7 DEF SameRun
    <2> QED
      BY <1>7, <2>1, ReadKeepsRestoreInv
  <1>8. /\ Passing("senderAfter", "recipientAfter") /\ Passing("recipientAfter", "revert")
        /\ Passing("checkSender", "checkRecipient") /\ Passing("checkRecipient", "checkNonce")
        /\ Passing("gateBlock", "gateBalance") /\ Passing("gateBalance", "gateNonce")
    BY DEF Simulated, AfterRestore, Accepting
  <1> HIDE DEF Passing
  <1>9. CASE SenderAfter(w)
    <2>1. SameRun([obs[w] EXCEPT !.senderAfter = chain.balances[Wallet]], obs[w])
      BY <1>1, RecordSameRun
    <2> HIDE DEF SameRun
    <2>2. Read(w, "senderAfter", "recipientAfter",
               [obs[w] EXCEPT !.senderAfter = chain.balances[Wallet]])
      BY <1>9 DEF SenderAfter
    <2> QED
      BY <1>7, <1>8, <2>1, <2>2
  <1>10. CASE RecipientAfter(w)
    <2>1. PICK after, failed :
              Read(w, "recipientAfter", "revert",
                   [obs[w] EXCEPT !.recipientAfter = after, !.failed = failed])
      BY <1>10 DEF RecipientAfter
    <2>2. SameRun([obs[w] EXCEPT !.recipientAfter = after, !.failed = failed], obs[w])
      BY <1>1, RecordSameRun
    <2> HIDE DEF SameRun
    <2> QED
      BY <1>7, <1>8, <2>1, <2>2
  <1>11. CASE CheckSender(w)
    <2>1. SameRun([obs[w] EXCEPT !.restoredSender = chain.balances[Wallet]], obs[w])
      BY <1>1, RecordSameRun
    <2> HIDE DEF SameRun
    <2>2. Read(w, "checkSender", "checkRecipient",
               [obs[w] EXCEPT !.restoredSender = chain.balances[Wallet]])
      BY <1>11 DEF CheckSender
    <2> QED
      BY <1>7, <1>8, <2>1, <2>2
  <1>12. CASE CheckRecipient(w)
    <2>1. SameRun([obs[w] EXCEPT !.restoredRecipient = chain.balances[req[w].recipient]], obs[w])
      BY <1>1, RecordSameRun
    <2> HIDE DEF SameRun
    <2>2. Read(w, "checkRecipient", "checkNonce",
               [obs[w] EXCEPT !.restoredRecipient = chain.balances[req[w].recipient]])
      BY <1>12 DEF CheckRecipient
    <2> QED
      BY <1>7, <1>8, <2>1, <2>2
  <1>13. CASE GateBlock(w)
    <2>1. SameRun([obs[w] EXCEPT !.gateBlock = chain.blocks], obs[w])
      BY <1>1, RecordSameRun
    <2> HIDE DEF SameRun
    <2>2. Read(w, "gateBlock", "gateBalance",
               [obs[w] EXCEPT !.gateBlock = chain.blocks])
      BY <1>13 DEF GateBlock
    <2> QED
      BY <1>7, <1>8, <2>1, <2>2
  <1>14. CASE GateBalance(w)
    <2>1. SameRun([obs[w] EXCEPT !.gateBalance = chain.balances[Wallet]], obs[w])
      BY <1>1, RecordSameRun
    <2> HIDE DEF SameRun
    <2>2. Read(w, "gateBalance", "gateNonce",
               [obs[w] EXCEPT !.gateBalance = chain.balances[Wallet]])
      BY <1>14 DEF GateBalance
    <2> QED
      BY <1>7, <1>8, <2>1, <2>2
  <1> QED
    BY <1>3, <1>4, <1>5, <1>6, <1>9, <1>10, <1>11, <1>12, <1>13, <1>14

\* An exception gives the execution up, or marks it and goes on to the revert.
LEMMA RaiseGoesOn ==
    ASSUME GateInv, FloorInv, RestoreInv, NEW w \in Worker, Raise(w), pc[w] # "idle"
    PROVE  /\ pc'[w] = "idle" \/ GoesOn(w)
           /\ obs'[w].run = obs[w].run /\ obs'[w].nonce \in Nat
           /\ pc'[w] \notin Accepting
           /\ \A v \in Worker \ {w} : pc'[v] = pc[v] /\ obs'[v] = obs[v]
  <1>1. /\ ObservedNumbers(obs[w]) /\ obs[w].nonce \in Nat
        /\ DOMAIN pc = Worker /\ DOMAIN obs = Worker
    BY DEF FloorInv, RestoreInv, RunInv, GateInv
  <1>2. CASE /\ pc' = [pc EXCEPT ![w] = "idle"]
             /\ obs' = obs
    BY <1>1, <1>2 DEF Accepting
  <1>3. CASE /\ pc' = [pc EXCEPT ![w] = "revert"]
             /\ obs' = [obs EXCEPT ![w] = [obs[w] EXCEPT !.failed = TRUE]]
    <2>1. /\ SameRun([obs[w] EXCEPT !.failed = TRUE], obs[w])
          /\ [obs[w] EXCEPT !.failed = TRUE].failed = TRUE
      BY <1>1, RecordSameRun
    <2>2. /\ obs'[w] = [obs[w] EXCEPT !.failed = TRUE] /\ pc'[w] = "revert"
          /\ \A v \in Worker \ {w} : pc'[v] = pc[v] /\ obs'[v] = obs[v]
      BY <1>1, <1>3
    <2>3. SameRun(obs'[w], obs[w]) /\ obs'[w].failed
      BY <2>1, <2>2
    <2> QED
      BY <1>1, <2>2, <2>3 DEF GoesOn, SameRun, Simulated, AfterRestore, Accepting
  <1> QED
    BY <1>2, <1>3 DEF Raise, Finish

\* The bounded counters other than the runs may move.
LEMMA CountersKept ==
    ASSUME RunInv, NEW kind, used' = used \/ Fault(kind) \/ TearingFault(kind)
    PROVE  used'.runs = used.runs /\ DOMAIN used' = DOMAIN used
  BY DEF RunInv, Fault, TearingFault

LEMMA RaiseKeepsRestoreInv ==
    ASSUME GateInv, FloorInv, RestoreInv, NEW w \in Worker, Raise(w), pc[w] # "idle",
           NodeInv', UNCHANGED <<req, decision>>,
           used'.runs = used.runs, DOMAIN used' = DOMAIN used,
           \A e \in Everywhere' : e \in Everywhere \/ e.origin.kind # "simulation",
           \A q \in queue' : q \in queue \/ q.origin.kind # "simulation"
    PROVE  RestoreInv'
  BY RaiseGoesOn, OneGoesOn

\* A step of a thread that leaves the node and its observations alone.
LEMMA NodeUntouched ==
    ASSUME NodeInv, UNCHANGED nodeVars
    PROVE  NodeInv' /\ Everywhere' = Everywhere /\ queue' = queue
  BY DEF nodeVars, NodeInv, Everywhere, Chains

LEMMA FallibleKeepRestoreInv ==
    ASSUME GateInv, FloorInv, RestoreInv, NEW w \in Worker,
           ResolveGas(w) \/ PollTimeout(w) \/ PollReceipt(w)
    PROVE  RestoreInv'
  <1>1. /\ ObservedNumbers(obs[w]) /\ obs[w].nonce \in Nat
        /\ RunInv /\ NodeInv /\ OwnInv
    BY DEF FloorInv, RestoreInv, RunInv
  <1>2. CASE /\ Raise(w) /\ pc[w] # "idle"
             /\ UNCHANGED <<nodeVars, req, decision, used>>
    BY <1>1, <1>2, NodeUntouched, RaiseKeepsRestoreInv
  <1>3. CASE \E g : Read(w, "gas", "snapshot", [obs[w] EXCEPT !.gas = g])
    <2>1. PICK g : Read(w, "gas", "snapshot", [obs[w] EXCEPT !.gas = g])
      BY <1>3
    <2> DEFINE o == [obs[w] EXCEPT !.gas = g]
    <2>2. o.run = obs[w].run /\ o.nonce \in Nat
      BY <1>1, RecordSameRun
    <2> HIDE DEF o
    <2>3. /\ "gas" \notin Simulated /\ "snapshot" \notin Simulated
          /\ "snapshot" \notin AfterRestore /\ "snapshot" \notin Accepting
      BY DEF Simulated, AfterRestore, Accepting
    <2> QED
      BY <2>1, <2>2, <2>3, ReadKeepsRestoreInv DEF o
  <1>4. CASE /\ Goto(w, "poll", "senderAfter")
             /\ \E i \in Receipts(SimulatedTx(w)) : TRUE
             /\ UNCHANGED <<nodeVars, req, obs, decision, used>>
    <2>1. PICK i \in DOMAIN chain.blocks : chain.blocks[i].tx = SimulatedTx(w)
      BY <1>4 DEF Receipts
    <2> DEFINE e == Entry(chain.blocks[i].tx, chain.by[i])
    <2>2. e \in Entries(chain) /\ e.tx = SimulatedTx(w)
      BY <2>1 DEF Entries, Entry
    <2>3. pc[w] = "poll" /\ pc'[w] = "senderAfter"
      BY <1>4 DEF Goto, GateInv
    <2>4. \A q \in queue : ~Own(w, q)
      <3>1. \A q \in queue : q.tx # SimulatedTx(w)
        BY <1>1, <2>2 DEF NodeInv, Chains
      <3> QED
        BY <1>1, <2>3, <3>1 DEF OwnInv, Everywhere
    <2>5. GoesOn(w)
      BY <1>4, <2>3, <2>4 DEF GoesOn, Simulated, AfterRestore
    <2>6. \A v \in Worker \ {w} : pc'[v] = pc[v]
      BY <1>4 DEF Goto, GateInv
    <2>7. pc'[w] \notin Accepting
      BY <2>3 DEF Accepting
    <2> QED
      BY <1>1, <1>4, <2>5, <2>6, <2>7, NodeUntouched, OneGoesOn
  <1> QED
    BY <1>2, <1>3, <1>4 DEF ResolveGas, PollTimeout, PollReceipt, Goto

\* A thread is given an execution nobody has worked on.
LEMMA StartKeepsRestoreInv ==
    ASSUME GateInv, FloorInv, RestoreInv, NEW w \in Worker, Start(w)
    PROVE  RestoreInv'
  <1>1. /\ NodeInv /\ RunInv /\ OwnInv
        /\ DOMAIN pc = Worker /\ DOMAIN obs = Worker
    BY DEF RestoreInv, GateInv, FloorInv
  <1>2. NodeInv' /\ Everywhere' = Everywhere /\ queue' = queue
    BY <1>1, NodeUntouched DEF Start
  <1>3. /\ obs'[w].run = used.runs + 1 /\ obs'[w].nonce = 0
        /\ pc'[w] = "block"
        /\ \A v \in Worker \ {w} : pc'[v] = pc[v] /\ obs'[v] = obs[v]
                                /\ req'[v] = req[v] /\ decision'[v] = decision[v]
        /\ used'.runs = used.runs + 1 /\ DOMAIN used' = DOMAIN used
    <2>1. /\ Nothing(used.runs + 1).run = used.runs + 1
          /\ Nothing(used.runs + 1).nonce = 0
      BY DEF Nothing
    <2> QED
      BY <1>1, <2>1 DEF Start, Goto, RunInv, FloorInv, GateInv
  <1>4. RunInv'
    <2>1. pc'[w] \notin Accepting
      BY <1>3 DEF Accepting
    <2> QED
      BY <1>1, <1>3, <2>1 DEF RunInv, CandidateOf
  <1>5. OwnInv'
    <2>1. \A e \in Everywhere : e.origin.kind = "simulation" =>
              /\ e.origin.run \in Nat /\ e.origin.run <= used'.runs
              /\ e.origin.run # obs'[w].run
      <3>1. ASSUME NEW e \in Everywhere, e.origin.kind = "simulation",
                   e.origin.run = used.runs + 1
            PROVE  FALSE
        <4>1. e.origin.run <= used.runs
          BY <1>1, <3>1 DEF OwnInv
        <4> QED
          BY <1>1, <3>1, <4>1 DEF RunInv
      <3>2. ASSUME NEW e \in Everywhere, e.origin.kind = "simulation"
            PROVE  e.origin.run \in Nat /\ e.origin.run <= used.runs + 1
        <4>1. e.origin.run \in Nat /\ e.origin.run <= used.runs
          BY <1>1, <3>2 DEF OwnInv
        <4> QED
          BY <1>1, <4>1 DEF RunInv
      <3> QED
        BY <1>3, <3>1, <3>2
    <2>2. \A v \in Worker \ {w} : SimulatedTx(v)' = SimulatedTx(v)
      BY <1>3 DEF SimulatedTx
    <2>3. pc'[w] \notin Simulated
      BY <1>3 DEF Simulated, AfterRestore
    <2> QED
      BY <1>1, <1>2, <1>3, <2>1, <2>2, <2>3 DEF OwnInv, Own, Settled
  <1> QED
    BY <1>2, <1>4, <1>5 DEF RestoreInv

\* A simulated transaction is sent: nobody else works on its execution.
LEMMA SimulationSent ==
    ASSUME GateInv, FloorInv, RestoreInv, NEW w \in Worker,
           pc[w] = "simSend",
           eth_sendTransaction(SimulatedTx(w), OriginOf(w, "simulation")),
           UNCHANGED <<req, decision>>,
           used'.runs = used.runs, DOMAIN used' = DOMAIN used,
           pc'[w] = "poll" \/ (pc'[w] = "revert" /\ obs'[w].failed),
           SameRun(obs'[w], obs[w]),
           \A v \in Worker \ {w} : pc'[v] = pc[v] /\ obs'[v] = obs[v]
    PROVE  RestoreInv'
  <1> DEFINE e0 == Entry(SimulatedTx(w), OriginOf(w, "simulation"))
  <1>1. NodeInv /\ RunInv /\ OwnInv
    BY DEF RestoreInv
  <1>2. /\ e0.tx = SimulatedTx(w)
        /\ e0.origin.run = obs[w].run /\ e0.origin.kind = "simulation"
    BY DEF Entry, OriginOf
  <1>3. /\ NodeInv'
        /\ \A e \in Everywhere' : e \in Everywhere \/ e = e0
        /\ \A q \in queue' : q \in queue \/ q = e0
    <2>1. SimulatedTx(w).fromAddress = Wallet /\ SimulatedTx(w).nonce \in Nat
      BY <1>1 DEF SimulatedTx, RunInv
    <2> QED
      BY <1>1, <2>1, SendKeepsNodeInv
  <1> HIDE DEF e0
  <1>4. /\ \A v \in Worker : obs'[v].run = obs[v].run /\ obs'[v].nonce \in Nat
        /\ \A v \in Worker : SimulatedTx(v)' = SimulatedTx(v)
    BY <1>1 DEF SameRun, RunInv, SimulatedTx
  <1>5. pc'[w] \in Simulated /\ ~Settled(w)' /\ pc'[w] \notin AfterRestore
    BY DEF Settled, Simulated, AfterRestore
  <1>6. RunInv'
    <2>1. pc'[w] \notin Accepting
      BY DEF Accepting
    <2>2. \A v \in Worker : pc'[v] = "idle" \/ pc[v] # "idle"
      OBVIOUS
    <2> QED
      BY <1>1, <1>4, <2>1, <2>2, GoingOnKeepsRunInv
  <1>7. \A e \in Everywhere : ~Own(w, e)
    BY <1>1 DEF OwnInv, Simulated, AfterRestore
  <1>8. \A v \in Worker \ {w} : pc[v] # "idle" => obs[v].run # e0.origin.run
    BY <1>1, <1>2 DEF RunInv
  <1>9. OwnInv'
    <2>1. \A e \in Everywhere' : e.origin.kind = "simulation" =>
              e.origin.run \in Nat /\ e.origin.run <= used'.runs
      BY <1>1, <1>2, <1>3 DEF OwnInv, RunInv
    <2>2. ASSUME NEW v \in Worker, v # w, pc[v] # "idle"
          PROVE  \A e \in Everywhere' : Own(v, e)' => e \in Everywhere /\ Own(v, e)
      BY <1>3, <1>4, <1>8, <2>2 DEF Own
    <2>3. ASSUME NEW v \in Worker, pc'[v] # "idle",
                 NEW e \in Everywhere', Own(v, e)'
          PROVE  /\ pc'[v] \in Simulated /\ e.tx = SimulatedTx(v)'
                 /\ pc'[v] \notin AfterRestore
      <3>1. CASE v = w
        <4>1. Own(w, e)
          BY <1>4, <2>3, <3>1 DEF Own
        <4>2. e = e0
          BY <1>3, <1>7, <4>1
        <4> QED
          BY <1>2, <1>4, <1>5, <3>1, <4>2
      <3>2. CASE v # w
        BY <1>1, <1>4, <2>2, <2>3, <3>2 DEF OwnInv
      <3> QED
        BY <3>1, <3>2
    <2>4. ASSUME NEW v \in Worker, Settled(v)', NEW q \in queue', Own(v, q)'
          PROVE  FALSE
      <3>1. v # w /\ Settled(v) /\ pc[v] # "idle"
        BY <1>5, <2>4 DEF Settled, Simulated, AfterRestore
      <3>2. q \in queue /\ Own(v, q)
        BY <1>3, <1>4, <1>8, <2>4, <3>1, <1>2 DEF Own
      <3> QED
        BY <1>1, <3>1, <3>2 DEF OwnInv
    <2>5. \A v \in Worker : pc'[v] \in AfterRestore => pc'[v] # "idle"
      BY DEF AfterRestore
    <2> QED
      BY <2>1, <2>3, <2>4, <2>5 DEF OwnInv
  <1> QED
    BY <1>3, <1>6, <1>9 DEF RestoreInv

LEMMA SimulationKeepsRestoreInv ==
    ASSUME GateInv, FloorInv, RestoreInv, NEW w \in Worker,
           TakeSnapshot(w) \/ SimulateSend(w)
    PROVE  RestoreInv'
  <1>1. /\ ObservedNumbers(obs[w]) /\ obs[w].nonce \in Nat
        /\ DOMAIN pc = Worker /\ DOMAIN obs = Worker
        /\ RunInv /\ NodeInv
    BY DEF FloorInv, RestoreInv, RunInv, GateInv
  <1>2. CASE TakeSnapshot(w)
    <2>1. NodeInv' /\ Everywhere' = Everywhere /\ queue' = queue
      BY <1>1, <1>2, SnapshotKeepsNodeInv DEF TakeSnapshot
    <2>2. SameRun([obs[w] EXCEPT !.snapshot = nextId], obs[w])
      BY <1>1, RecordSameRun
    <2>3. /\ obs'[w] = [obs[w] EXCEPT !.snapshot = nextId]
          /\ pc[w] = "snapshot" /\ pc'[w] = "senderBefore"
          /\ \A v \in Worker \ {w} : pc'[v] = pc[v] /\ obs'[v] = obs[v]
          /\ UNCHANGED <<req, decision, used>>
      BY <1>1, <1>2 DEF TakeSnapshot, Goto
    <2>4. obs'[w].run = obs[w].run /\ obs'[w].nonce \in Nat
      <3>1. SameRun(obs'[w], obs[w])
        BY <2>2, <2>3
      <3> QED
        BY <1>1, <3>1 DEF SameRun
    <2>5. GoesOn(w) /\ pc'[w] \notin Accepting
      BY <2>3 DEF GoesOn, Simulated, AfterRestore, Accepting
    <2> QED
      BY <2>1, <2>3, <2>4, <2>5, OneGoesOn
  <1>3. CASE SimulateSend(w)
    <2>1. CASE Raise(w) /\ UNCHANGED nodeVars
      BY <1>1, <1>3, <2>1, NodeUntouched, RaiseKeepsRestoreInv DEF SimulateSend
    <2>2. CASE /\ Goto(w, "simSend", "poll") /\ UNCHANGED obs
               /\ eth_sendTransaction(SimulatedTx(w), OriginOf(w, "simulation"))
      <3>1. /\ pc'[w] = "poll" /\ \A v \in Worker \ {w} : pc'[v] = pc[v]
        BY <1>1, <2>2 DEF Goto
      <3> QED
        BY <1>3, <2>2, <3>1, SimulationSent DEF SimulateSend, SameRun
    <2> QED
      BY <1>3, <2>1, <2>2 DEF SimulateSend
  <1> QED
    BY <1>2, <1>3

\* Undoing the simulation, or being told so: nothing is added anywhere.
LEMMA RevertKeepsRestoreInv ==
    ASSUME GateInv, FloorInv, RestoreInv, NEW w \in Worker,
           RevertSnapshot(w) \/ NoopRevert(w)
    PROVE  RestoreInv'
  <1>1. /\ obs[w].nonce \in Nat /\ DOMAIN pc = Worker
        /\ RunInv /\ NodeInv
    BY DEF RestoreInv, RunInv, GateInv
  <1>2. /\ NodeInv' /\ queue' = queue
        /\ \A e \in Everywhere' : e \in Everywhere
    <2>1. CASE RevertSnapshot(w)
      BY <1>1, <2>1, RevertKeepsNodeInv, NodeUntouched DEF RevertSnapshot
    <2>2. CASE NoopRevert(w)
      BY <1>1, <2>2, ForgetKeepsNodeInv DEF NoopRevert
    <2> QED
      BY <2>1, <2>2
  <1>3. /\ UNCHANGED <<req, obs, decision>>
        /\ \A v \in Worker \ {w} : pc'[v] = pc[v]
        /\ \/ pc'[w] = "idle"
           \/ pc[w] = "revert" /\ pc'[w] = "checkSender" /\ ~obs[w].failed
    BY <1>1 DEF RevertSnapshot, NoopRevert, Goto, Finish
  <1>4. used'.runs = used.runs /\ DOMAIN used' = DOMAIN used
    <2>1. \E kind : used' = used \/ TearingFault(kind)
      BY DEF RevertSnapshot, NoopRevert
    <2> QED
      BY <1>1, <2>1, CountersKept
  <1>5. pc'[w] = "idle" \/ GoesOn(w)
    BY <1>3 DEF GoesOn, Settled, Simulated, AfterRestore
  <1>6. pc'[w] \notin Accepting
    BY <1>3 DEF Accepting
  <1> QED
    BY <1>1, <1>2, <1>3, <1>4, <1>5, <1>6, OneGoesOn

\* The nonce the thread captured is due again: its simulation, which would have
\* used it, is on no chain the node can be on.
LEMMA NonceShowsRestored ==
    ASSUME RestoreInv, NEW w \in Worker,
           pc[w] \in Simulated, Settled(w), chain.nonce = obs[w].nonce
    PROVE  \A e \in Everywhere : ~Own(w, e)
  <1>1. NodeInv /\ RunInv /\ OwnInv /\ pc[w] # "idle"
    BY DEF RestoreInv, Simulated, AfterRestore
  <1>2. ASSUME NEW e \in Everywhere, Own(w, e)
        PROVE  FALSE
    <2>1. e.tx = SimulatedTx(w)
      BY <1>1, <1>2 DEF OwnInv
    <2>2. e.tx.fromAddress = Wallet /\ e.tx.nonce = chain.nonce
      BY <2>1 DEF SimulatedTx
    <2>3. e \notin queue
      BY <1>1, <1>2 DEF OwnInv
    <2>4. PICK c \in Chains : e \in Entries(c)
      BY <2>3 DEF Everywhere
    <2>5. Ledger(c) /\ c.nonce <= chain.nonce
      BY <1>1 DEF NodeInv
    <2>6. e.tx.nonce < c.nonce /\ c.nonce \in Nat /\ e.tx.nonce \in Nat
      BY <2>2, <2>4, <2>5 DEF Ledger
    <2> QED
      BY <2>2, <2>5, <2>6
  <1> QED
    BY <1>2

LEMMA ChecksKeepRestoreInv ==
    ASSUME GateInv, FloorInv, RestoreInv, NEW w \in Worker,
           CheckNonce(w) \/ GateNonce(w) \/ Consume(w)
    PROVE  RestoreInv'
  <1>1. /\ obs[w].nonce \in Nat /\ DOMAIN pc = Worker
        /\ RunInv /\ NodeInv
    BY DEF RestoreInv, RunInv, GateInv
  <1>2. /\ UNCHANGED <<nodeVars, req, obs, decision, used>>
        /\ \A v \in Worker \ {w} : pc'[v] = pc[v]
        /\ \/ pc'[w] = "idle"
           \/ pc[w] = "checkNonce" /\ pc'[w] = "decide" /\ Restored(w)
           \/ pc[w] = "gateNonce" /\ pc'[w] = "consume"
           \/ pc[w] = "consume" /\ pc'[w] = "send"
    BY <1>1 DEF CheckNonce, GateNonce, Consume, Goto, Finish
  <1>3. pc'[w] = "idle" \/ GoesOn(w)
    <2>1. CASE pc[w] = "checkNonce" /\ pc'[w] = "decide" /\ Restored(w)
      <3>1. Settled(w) /\ pc[w] \in Simulated /\ pc'[w] \in Simulated
        BY <2>1 DEF Settled, Simulated, AfterRestore
      <3>2. \A e \in Everywhere : ~Own(w, e)
        BY <2>1, <3>1, NonceShowsRestored DEF Restored
      <3> QED
        BY <1>2, <2>1, <3>1, <3>2 DEF GoesOn
    <2>2. CASE \/ pc[w] = "gateNonce" /\ pc'[w] = "consume"
               \/ pc[w] = "consume" /\ pc'[w] = "send"
      BY <1>2, <2>2 DEF GoesOn, Settled, Simulated, AfterRestore
    <2> QED
      BY <1>2, <2>1, <2>2
  <1>4. pc'[w] \in Accepting => pc[w] \in Accepting
    BY <1>2 DEF Accepting
  <1> QED
    BY <1>1, <1>2, <1>3, <1>4, NodeUntouched, OneGoesOn

LEMMA DecideKeepsRestoreInv ==
    ASSUME GateInv, FloorInv, RestoreInv, NEW w \in Worker, Decide(w)
    PROVE  RestoreInv'
  <1> DEFINE a == req[w].approval
             c == candidate_from_evidence(a, EvidenceOf(w), req[w])
  <1>1. /\ obs[w].nonce \in Nat /\ DOMAIN pc = Worker /\ DOMAIN decision = Worker
        /\ RunInv /\ NodeInv
    BY DEF RestoreInv, RunInv, GateInv
  <1>2. /\ UNCHANGED <<nodeVars, req, obs, used>>
        /\ \A v \in Worker \ {w} : pc'[v] = pc[v] /\ decision'[v] = decision[v]
        /\ pc[w] = "decide" /\ pc'[w] \in {"idle", "gateBlock"}
    BY <1>1 DEF Decide, Goto, Finish
  <1>3. CASE pc'[w] = "idle"
    BY <1>1, <1>2, <1>3, NodeUntouched, OneGoesOn DEF Accepting
  <1>4. CASE pc'[w] = "gateBlock"
    <2>1. decision'[w] = evaluate(a, c)
      <3> HIDE DEF c, a
      <3>1. \A how : ~Finish(w, how)
        BY <1>1, <1>4 DEF Finish
      <3> USE DEF c, a
      <3> QED
        BY <1>1, <3>1 DEF Decide
    <2>2. /\ c.transaction.fromAddress = Wallet
          /\ c.transaction.nonce = obs[w].nonce
      BY DEF candidate_from_evidence, transaction_from_evidence, EvidenceOf
    <2> HIDE DEF c, a
    <2>3. LET tx == decision'[w].candidateSha256.transaction
          IN  tx.fromAddress = Wallet /\ tx.nonce \in Nat
      BY <1>1, <2>1, <2>2 DEF evaluate
    <2>4. GoesOn(w)
      BY <1>2, <1>4 DEF GoesOn, Settled, Simulated, AfterRestore
    <2> QED
      BY <1>1, <1>2, <2>3, <2>4, NodeUntouched, OneGoesOn
  <1> QED
    BY <1>2, <1>3, <1>4

\* The transport fails, an answer is lost, or the decision is handed over.
LEMMA SenderKeepsRestoreInv ==
    ASSUME GateInv, FloorInv, RestoreInv, NEW w \in Worker,
           Broadcast(w) \/ TransportFails(w) \/ ResponseLost(w)
    PROVE  RestoreInv'
  <1>1. /\ ObservedNumbers(obs[w]) /\ obs[w].nonce \in Nat
        /\ DOMAIN pc = Worker /\ DOMAIN obs = Worker
        /\ RunInv /\ NodeInv
    BY DEF FloorInv, RestoreInv, RunInv, GateInv
  <1>2. ASSUME NEW tx, eth_sendTransaction(tx, OriginOf(w, "broadcast")),
               tx = CandidateOf(w).transaction, pc[w] = "send"
        PROVE  /\ NodeInv'
               /\ \A e \in Everywhere' : e \in Everywhere \/ e.origin.kind # "simulation"
               /\ \A q \in queue' : q \in queue \/ q.origin.kind # "simulation"
    <2>1. tx.fromAddress = Wallet /\ tx.nonce \in Nat
      BY <1>1, <1>2 DEF RunInv, Accepting
    <2>2. Entry(tx, OriginOf(w, "broadcast")).origin.kind # "simulation"
      BY DEF Entry, OriginOf
    <2> QED
      BY <1>1, <1>2, <2>1, <2>2, SendKeepsNodeInv
  <1>3. CASE Broadcast(w)
    <2>1. /\ NodeInv'
          /\ \A e \in Everywhere' : e \in Everywhere \/ e.origin.kind # "simulation"
          /\ \A q \in queue' : q \in queue \/ q.origin.kind # "simulation"
      BY <1>1, <1>2, <1>3, NodeUntouched DEF Broadcast
    <2>2. /\ UNCHANGED <<req, obs, decision, used>> /\ pc'[w] = "idle"
          /\ \A v \in Worker \ {w} : pc'[v] = pc[v]
      BY <1>1, <1>3 DEF Broadcast, Finish
    <2> QED
      BY <1>1, <2>1, <2>2, OneGoesOn DEF Accepting
  <1>4. CASE TransportFails(w)
    <2>1. /\ Raise(w) /\ UNCHANGED <<nodeVars, req, decision>>
          /\ pc[w] # "idle"
      BY <1>4 DEF TransportFails, Calls
    <2>2. used'.runs = used.runs /\ DOMAIN used' = DOMAIN used
      BY <1>1, <1>4, CountersKept DEF TransportFails
    <2> QED
      BY <1>1, <2>1, <2>2, NodeUntouched, RaiseKeepsRestoreInv
  <1>5. CASE ResponseLost(w)
    <2>1. Raise(w) /\ UNCHANGED <<req, decision>>
      BY <1>5 DEF ResponseLost
    <2>2. used'.runs = used.runs /\ DOMAIN used' = DOMAIN used
      BY <1>1, <1>5, CountersKept DEF ResponseLost
    <2>3. CASE /\ pc[w] = "simSend"
               /\ eth_sendTransaction(SimulatedTx(w), OriginOf(w, "simulation"))
      <3>1. /\ SameRun([obs[w] EXCEPT !.failed = TRUE], obs[w])
            /\ [obs[w] EXCEPT !.failed = TRUE].failed = TRUE
        BY <1>1, RecordSameRun
      <3>2. /\ obs'[w] = [obs[w] EXCEPT !.failed = TRUE] /\ pc'[w] = "revert"
            /\ \A v \in Worker \ {w} : pc'[v] = pc[v] /\ obs'[v] = obs[v]
        BY <1>1, <2>1, <2>3 DEF Raise, InsideSnapshot
      <3>3. SameRun(obs'[w], obs[w]) /\ obs'[w].failed
        BY <3>1, <3>2
      <3> QED
        BY <2>1, <2>2, <2>3, <3>2, <3>3, SimulationSent
    <2>4. CASE pc[w] = "revert" /\ evm_revert(obs[w].snapshot)
      <3>1. NodeInv' /\ Everywhere' \subseteq Everywhere /\ queue' = queue
        BY <1>1, <2>4, RevertKeepsNodeInv
      <3> QED
        BY <2>1, <2>2, <2>4, <3>1, RaiseKeepsRestoreInv
    <2>5. CASE /\ pc[w] = "send"
               /\ eth_sendTransaction(CandidateOf(w).transaction, OriginOf(w, "broadcast"))
      BY <1>2, <2>1, <2>2, <2>5, RaiseKeepsRestoreInv
    <2> QED
      BY <1>5, <2>3, <2>4, <2>5 DEF ResponseLost
  <1> QED
    BY <1>3, <1>4, <1>5

\* The node mines what is due, others use it, or the process dies.
LEMMA EnvironmentKeepsRestoreInv ==
    ASSUME GateInv, FloorInv, RestoreInv, Environment
    PROVE  RestoreInv'
  <1>1. /\ RunInv /\ NodeInv /\ OwnInv /\ DOMAIN obs = Worker
        /\ \A w \in Worker : ObservedNumbers(obs[w])
    BY DEF FloorInv, RestoreInv
  <1>2. /\ NodeInv'
        /\ \A e \in Everywhere' : e \in Everywhere \/ e.origin.kind # "simulation"
        /\ \A q \in queue' : q \in queue
    <2>1. CASE Crash
      BY <1>1, <2>1, NodeUntouched DEF Crash
    <2> QED
      BY <1>1, <2>1, MineQueuedKeepsNodeInv, EventKeepsNodeInv DEF Environment
  <1>3. used'.runs = used.runs /\ DOMAIN used' = DOMAIN used
    <2>1. CASE Crash
      BY <1>1, <2>1, CountersKept DEF Crash
    <2>2. CASE OwnTransfer \/ IncomingTransfer \/ AllowanceSpend
      BY <1>1, <2>2 DEF OwnTransfer, IncomingTransfer, AllowanceSpend, Event, RunInv
    <2> QED
      BY <2>1, <2>2 DEF Environment
  <1>4. req' = req /\ decision' = decision
    BY DEF Environment, OwnTransfer, IncomingTransfer, AllowanceSpend, Event,
       Crash, workerVars
  <1>5. ASSUME NEW w \in Worker
        PROVE  SameRun(obs'[w], obs[w]) /\ (pc'[w] = "idle" \/ pc'[w] = pc[w])
    <2>1. SameRun([obs[w] EXCEPT !.drained = TRUE], obs[w]) /\ SameRun(obs[w], obs[w])
      BY <1>1, RecordSameRun DEF SameRun
    <2>2. obs'[w] = obs[w] \/ obs'[w] = [obs[w] EXCEPT !.drained = TRUE]
      BY DEF Environment, OwnTransfer, IncomingTransfer, AllowanceSpend, Crash,
         workerVars
    <2>3. pc'[w] = "idle" \/ pc'[w] = pc[w]
      BY DEF Environment, OwnTransfer, IncomingTransfer, AllowanceSpend, Event,
         Crash, workerVars
    <2> QED
      BY <2>1, <2>2, <2>3
  <1>6. ASSUME NEW w \in Worker, pc'[w] # "idle"
        PROVE  GoesOn(w)
    <2>1. \/ pc'[w] = pc[w] /\ obs'[w] = obs[w]
          \/ /\ pc'[w] = pc[w] /\ pc[w] \in {"gateNonce", "consume", "send"}
      BY <1>6 DEF Environment, OwnTransfer, IncomingTransfer, AllowanceSpend,
         Event, Crash, workerVars
    <2> QED
      BY <1>5, <1>6, <2>1 DEF GoesOn, Settled, SameRun, Simulated, AfterRestore
  <1>7. \A w \in Worker : obs'[w].run = obs[w].run /\ obs'[w].nonce \in Nat
    BY <1>1, <1>5 DEF SameRun, RunInv
  <1>8. OwnInv'
    BY <1>1, <1>2, <1>3, <1>4, <1>6, <1>7, GoingOnKeepsOwnInv
  <1>9. RunInv'
    <2>1. \A w \in Worker : pc'[w] = "idle" \/ pc[w] # "idle"
      BY <1>5
    <2>2. \A w \in Worker : pc'[w] \in Accepting => pc[w] \in Accepting
      BY <1>5 DEF Accepting
    <2> QED
      BY <1>1, <1>3, <1>4, <1>7, <2>1, <2>2, GoingOnKeepsRunInv
  <1> QED
    BY <1>2, <1>8, <1>9 DEF RestoreInv

LEMMA RestoreInit == Init => RestoreInv
  <1> SUFFICES ASSUME Init PROVE RestoreInv
    OBVIOUS
  <1>1. /\ chain = Genesis /\ snapshots = {} /\ nextId = 0 /\ queue = {}
        /\ used = [runs |-> 0, events |-> 0, faults |-> 0, torn |-> FALSE]
        /\ \A w \in Worker : pc[w] = "idle" /\ obs[w] = Nothing(0)
    BY DEF Init, NodeInit
  <1>2. Ledger(Genesis) /\ Entries(Genesis) = {}
    <2>1. Genesis.blocks = <<>> /\ Genesis.by = <<>> /\ Genesis.nonce = 0
      BY DEF Genesis
    <2>2. Entries(Genesis) = {}
      BY <2>1 DEF Entries
    <2>3. IsSeq(<<>>)
      BY DEF IsSeq
    <2> QED
      BY <2>1, <2>2, <2>3 DEF Ledger
  <1>3. Chains = {Genesis} /\ Everywhere = {}
    BY <1>1, <1>2 DEF Chains, Everywhere
  <1>4. NodeInv
    <2>1. Genesis.nonce = 0
      BY DEF Genesis
    <2> QED
      BY <1>1, <1>2, <1>3, <2>1 DEF NodeInv
  <1>5. RunInv
    BY <1>1 DEF RunInv, Nothing, Accepting
  <1>6. OwnInv
    BY <1>1, <1>3 DEF OwnInv, Settled, Simulated, AfterRestore
  <1> QED
    BY <1>4, <1>5, <1>6 DEF RestoreInv

LEMMA RestoreStep == GateInv /\ FloorInv /\ RestoreInv /\ [Next]_vars => RestoreInv'
  <1> SUFFICES ASSUME GateInv, FloorInv, RestoreInv, [Next]_vars
               PROVE  RestoreInv'
    OBVIOUS
  <1>1. ASSUME NEW w \in Worker, Step(w) \/ NoopRevert(w)
        PROVE  RestoreInv'
    BY <1>1, ReadsKeepRestoreInv, FallibleKeepRestoreInv,
       SimulationKeepsRestoreInv, RevertKeepsRestoreInv, ChecksKeepRestoreInv,
       DecideKeepsRestoreInv, SenderKeepsRestoreInv DEF Step
  <1>2. ASSUME NEW w \in Worker, Start(w) \/ TransportFails(w) \/ ResponseLost(w)
        PROVE  RestoreInv'
    BY <1>2, StartKeepsRestoreInv, SenderKeepsRestoreInv
  <1>3. CASE UNCHANGED vars
    <2>1. /\ UNCHANGED nodeVars /\ UNCHANGED <<pc, req, obs, decision, used>>
      BY <1>3 DEF vars, workerVars
    <2>2. NodeInv' /\ Everywhere' = Everywhere /\ queue' = queue
      BY <2>1, NodeUntouched DEF RestoreInv
    <2> QED
      BY <2>1, <2>2 DEF RestoreInv, RunInv, OwnInv, Own, Settled, SimulatedTx,
         CandidateOf
  <1> QED
    BY <1>1, <1>2, <1>3, EnvironmentKeepsRestoreInv DEF Next

\* A decision is taken, and held until it is sent, on a chain without a block of
\* the execution's own simulation, for every number of threads, owners, payers,
\* spenders and faults, an evm_revert that undid nothing included: the check of
\* the nonce after the revert is what shows it (core/rpc_simulator.py:9-12,
\* _verify_restored_state).
THEOREM DecisionsFollowRestoration == Spec => []DecidedOnRestoredChain
  <1>1. Spec => []GateInv
    BY GateInit, GateStep, PTL DEF Spec
  <1>2. Spec => [](GateInv /\ FloorInv)
    BY <1>1, FloorInit, FloorStep, PTL DEF Spec
  <1>3. Spec => []RestoreInv
    BY <1>2, RestoreInit, RestoreStep, PTL DEF Spec
  <1>4. RestoreInv => DecidedOnRestoredChain
    <2> SUFFICES ASSUME RestoreInv,
                        NEW w \in Worker, pc[w] \in AfterRestore,
                        NEW i \in DOMAIN chain.by,
                        chain.by[i].kind = "simulation", chain.by[i].run = obs[w].run
                 PROVE  FALSE
      BY DEF DecidedOnRestoredChain
    <2>1. Ledger(chain)
      BY DEF RestoreInv, NodeInv, Chains
    <2>2. DOMAIN chain.blocks = DOMAIN chain.by
      BY <2>1, AppendIsSeq DEF Ledger
    <2> DEFINE e == Entry(chain.blocks[i].tx, chain.by[i])
    <2>3. e \in Everywhere
      BY <2>2 DEF Everywhere, Chains, Entries
    <2>4. Own(w, e)
      BY DEF Own, Entry
    <2> QED
      BY <2>3, <2>4 DEF RestoreInv, OwnInv
  <1> QED
    BY <1>3, <1>4, PTL

-----------------------------------------------------------------------------
(* Executions kept apart.  As long as no thread is past capturing the        *)
(* wallet's nonce while another one has its snapshot open (Apart), a thread  *)
(* reverts to the snapshot it took, and no revert of another takes the nonce *)
(* back behind it: nothing ever waits in the queue, the simulation is undone *)
(* unless a fault tears it, and between the gate's last look and the send    *)
(* the wallet's balance falls only with its nonce or by an allowance spend.  *)
(* Deciding, checking and sending may overlap.  The server does not enforce  *)
(* Apart; with one execution at a time it holds.                             *)

\* Where a thread knows the wallet's nonce, where its snapshot is open, and
\* where the gate has read the balance.
Captured == Locations \ {"idle", "block", "nonce"}
InSnapshot == InsideSnapshot \cup {"revert"}
Looked == {"gateNonce", "consume", "send"}

\* No thread that knows the nonce runs while another has its snapshot open.
Apart ==
    \A v, w \in Worker : v # w /\ pc[v] \in InSnapshot => pc[w] \notin Captured

\* A step of one thread is a step of no other.
Alone(w) ==
    \A v \in Worker \ {w} : /\ pc'[v] = pc[v] /\ obs'[v] = obs[v]
                           /\ req'[v] = req[v] /\ decision'[v] = decision[v]

NoSimulation(c) == \A i \in DOMAIN c.by : c.by[i].kind # "simulation"

\* What BroadcastKeepsFloor says of one block, and of every block of a chain.
FloorKept(block, origin, left) ==
    origin.kind = "broadcast" /\ ~origin.drained
        => block.ok /\ left >= origin.floor
FloorsKept(c) ==
    /\ IsSeq(c.left) /\ Len(c.left) = Len(c.by)
    /\ \A i \in DOMAIN c.by : FloorKept(c.blocks[i], c.by[i], c.left[i])

\* The thread's snapshot is live, and going back to it undoes the simulation
\* but not the nonce.
Undoable(w) ==
    /\ Live(obs[w].snapshot)
    /\ \A s \in snapshots : s.id = obs[w].snapshot =>
          /\ obs[w].nonce <= s.chain.nonce
          /\ ~used.torn => NoSimulation(s.chain)

\* The accepted decision is about the transfer the thread was asked for.
Sendable(w) ==
    LET tx == CandidateOf(w).transaction
    IN  /\ decision[w].approvalSha256 = req[w].approval
        /\ CandidateOf(w).context.assetBalance \in Int
        /\ tx.fromAddress = Wallet /\ tx.nonce = obs[w].nonce
        /\ tx.gasLimit >= TransferGas
        /\ tx.data.recipient \in Recipients

\* As long as the nonce is due, what the gate has seen is still there, but for
\* what allowance spends took.
GateSaw(w) == IF pc[w] = "gateNonce" THEN obs[w].gateBalance
              ELSE CandidateOf(w).context.assetBalance
Covered(w) ==
    /\ GateSaw(w) \in Int
    /\ chain.nonce = obs[w].nonce =>
          obs[w].drained \/ chain.balances[Wallet] >= GateSaw(w)

\* No snapshot of a thread is open.
Closed == \A w \in Worker : pc[w] \notin InSnapshot

\* What holds of the node, and of each thread.
NodeHolds ==
    /\ queue = {}
    /\ \A c \in Chains : FloorsKept(c)
    /\ ~used.torn /\ Closed => NoSimulation(chain)
ThreadHolds(w) ==
    /\ pc[w] \in Captured => obs[w].nonce <= chain.nonce
    /\ pc[w] \in InSnapshot => Undoable(w)
    /\ pc[w] \in Accepting => Sendable(w)
    /\ pc[w] \in Looked => Covered(w)
HoldInv(w) == NodeHolds /\ ThreadHolds(w)
ApartInv == NodeHolds /\ \A w \in Worker : ThreadHolds(w)

LEMMA ApartInit == Init => ApartInv
  <1> SUFFICES ASSUME Init PROVE ApartInv
    OBVIOUS
  <1>1. /\ queue = {} /\ snapshots = {} /\ chain = Genesis
        /\ \A w \in Worker : pc[w] = "idle"
    BY DEF Init, NodeInit
  <1>2. Genesis.left = <<>> /\ Genesis.by = <<>>
    BY DEF Genesis
  <1>3. FloorsKept(Genesis) /\ NoSimulation(Genesis)
    BY <1>2 DEF FloorsKept, NoSimulation, IsSeq
  <1>4. Chains = {Genesis}
    BY <1>1 DEF Chains
  <1>5. \A w \in Worker : ThreadHolds(w)
    BY <1>1 DEF ThreadHolds, Captured, InSnapshot, InsideSnapshot, Accepting, Looked
  <1> QED
    BY <1>1, <1>3, <1>4, <1>5 DEF ApartInv, NodeHolds

\* Mining adds one block, whose floor is kept if it is nobody's broadcast.
LEMMA MinedKeepsFloors ==
    ASSUME NEW c, NEW tx, NEW origin, NEW stamp, Ledger(c), FloorsKept(c),
           LET m == Mined(c, tx, origin, stamp)
           IN  \A block : block.ok = Executes(c, tx)
                   => FloorKept(block, origin, m.balances[Wallet])
    PROVE  FloorsKept(Mined(c, tx, origin, stamp))
  <1> DEFINE m == Mined(c, tx, origin, stamp)
             block == [tx |-> tx, ok |-> Executes(c, tx), stamp |-> stamp]
             n == Len(c.by)
  <1>1. /\ m.blocks = Append(c.blocks, block)
        /\ m.by = Append(c.by, origin)
        /\ m.left = Append(c.left, m.balances[Wallet])
    BY DEF Mined
  <1>2. FloorKept(block, origin, m.balances[Wallet])
    BY DEF Mined
  <1> HIDE DEF block
  <1> DEFINE rest == m.balances[Wallet]
  <1>3. FloorKept(block, origin, rest) /\ m.left = Append(c.left, rest)
    BY <1>1, <1>2
  <1> HIDE DEF m, rest
  <1>4. /\ IsSeq(c.blocks) /\ IsSeq(c.by) /\ IsSeq(c.left)
        /\ Len(c.by) = n /\ Len(c.blocks) = n /\ Len(c.left) = n
    BY DEF Ledger, FloorsKept
  <1> HIDE DEF n
  <1>5. /\ n \in Nat /\ DOMAIN c.by = 1 .. n
        /\ DOMAIN m.by = 1 .. n \cup {n + 1} /\ Len(m.by) = n + 1
        /\ \A i \in 1 .. n : m.by[i] = c.by[i]
        /\ m.by[n + 1] = origin
    BY <1>1, <1>4, AppendIsSeq
  <1>6. /\ \A i \in 1 .. n : m.blocks[i] = c.blocks[i]
        /\ m.blocks[n + 1] = block
    BY <1>1, <1>4, AppendIsSeq
  <1>7. /\ IsSeq(m.left) /\ Len(m.left) = n + 1
        /\ \A i \in 1 .. n : m.left[i] = c.left[i]
        /\ m.left[n + 1] = rest
    BY <1>3, <1>4, AppendIsSeq
  <1>8. \A i \in DOMAIN m.by : FloorKept(m.blocks[i], m.by[i], m.left[i])
    BY <1>3, <1>5, <1>6, <1>7 DEF FloorsKept
  <1> QED
    BY <1>5, <1>7, <1>8 DEF FloorsKept, m

LEMMA MinedByOthers ==
    ASSUME NEW c, NEW tx, NEW origin, NEW stamp, Ledger(c),
           origin.kind # "simulation", NoSimulation(c)
    PROVE  NoSimulation(Mined(c, tx, origin, stamp))
  <1> DEFINE m == Mined(c, tx, origin, stamp)
  <1>1. m.by = Append(c.by, origin) /\ IsSeq(c.by)
    BY DEF Mined, Ledger
  <1> HIDE DEF m
  <1>2. /\ DOMAIN m.by = DOMAIN c.by \cup {Len(c.by) + 1}
        /\ \A i \in DOMAIN c.by : m.by[i] = c.by[i]
        /\ m.by[Len(c.by) + 1] = origin
    BY <1>1, AppendIsSeq
  <1> QED
    BY <1>2 DEF NoSimulation, m

\* The chain grows by a transaction of w or of others; w's own position is the
\* caller's to show.
LEMMA GrowingKeepsChains ==
    ASSUME NodeInv, \A c \in Chains : FloorsKept(c),
           NEW tx, NEW origin, NEW stamp,
           chain' = Mined(chain, tx, origin, stamp), snapshots' = snapshots,
           \A block : block.ok = Executes(chain, tx)
               => FloorKept(block, origin, chain'.balances[Wallet])
    PROVE  \A c \in Chains' : FloorsKept(c)
  <1>1. Ledger(chain) /\ FloorsKept(chain)
    BY DEF NodeInv, Chains
  <1>2. FloorsKept(chain')
    BY <1>1, MinedKeepsFloors
  <1> QED
    BY <1>2 DEF Chains

\* A step that leaves the node alone.
LEMMA WatchingKeepsHoldInv ==
    ASSUME NEW w \in Worker, Alone(w), HoldInv(w), UNCHANGED nodeVars,
           NodeInv, obs[w].nonce \in Nat,
           used'.torn = used.torn \/ (used'.torn /\ pc'[w] \notin InSnapshot),
           pc'[w] \in Captured =>
               \/ pc[w] \in Captured /\ obs'[w].nonce = obs[w].nonce
               \/ obs'[w].nonce = chain.nonce,
           pc'[w] \in InSnapshot =>
               /\ pc[w] \in InSnapshot
               /\ obs'[w].nonce = obs[w].nonce /\ obs'[w].snapshot = obs[w].snapshot,
           pc[w] \in InSnapshot => pc'[w] \in InSnapshot \/ used'.torn,
           pc'[w] \in Accepting => Sendable(w)',
           pc'[w] \in Looked => Covered(w)'
    PROVE  HoldInv(w)'
  <1>1. chain' = chain /\ queue' = queue /\ snapshots' = snapshots
    BY DEF nodeVars
  <1>2. \A c \in Chains' : FloorsKept(c)
    BY <1>1 DEF HoldInv, NodeHolds, ThreadHolds, Chains
  <1>3. chain.nonce \in Nat
    BY DEF NodeInv, Chains, Ledger
  <1>4. pc'[w] \in Captured => obs'[w].nonce <= chain'.nonce
    BY <1>1, <1>3 DEF HoldInv, NodeHolds, ThreadHolds
  <1>5. pc'[w] \in InSnapshot => Undoable(w)'
    BY <1>1 DEF HoldInv, NodeHolds, ThreadHolds, Undoable, Live
  <1>6. ~used'.torn /\ Closed' => NoSimulation(chain')
    <2> SUFFICES ASSUME ~used'.torn, Closed' PROVE NoSimulation(chain')
      OBVIOUS
    <2>1. pc[w] \notin InSnapshot /\ ~used.torn
      BY DEF Closed
    <2>2. Closed
      BY <2>1 DEF Closed, Alone
    <2> QED
      BY <1>1, <2>1, <2>2 DEF HoldInv, NodeHolds, ThreadHolds
  <1> QED
    BY <1>1, <1>2, <1>4, <1>5, <1>6 DEF HoldInv, NodeHolds, ThreadHolds

\* What recording an observation leaves for HoldInv, NodeHolds, ThreadHolds.
SameHold(p, o) == p.nonce = o.nonce /\ p.snapshot = o.snapshot

LEMMA RecordSameHold ==
    ASSUME NEW o, NEW v, ObservedNumbers(o)
    PROVE  /\ SameHold([o EXCEPT !.block = v], o)
           /\ SameHold([o EXCEPT !.senderBefore = v], o)
           /\ SameHold([o EXCEPT !.recipientBefore = v], o)
           /\ SameHold([o EXCEPT !.senderAfter = v], o)
           /\ \A u : SameHold([o EXCEPT !.recipientAfter = v, !.failed = u], o)
           /\ SameHold([o EXCEPT !.failed = v], o)
           /\ SameHold([o EXCEPT !.restoredSender = v], o)
           /\ SameHold([o EXCEPT !.restoredRecipient = v], o)
           /\ SameHold([o EXCEPT !.gateBlock = v], o)
           /\ SameHold([o EXCEPT !.gateBalance = v], o)
           /\ SameHold([o EXCEPT !.gas = v], o)
           /\ [o EXCEPT !.gateBalance = v].gateBalance = v
           /\ [o EXCEPT !.snapshot = v].snapshot = v
           /\ [o EXCEPT !.snapshot = v].nonce = o.nonce
           /\ [o EXCEPT !.drained = v].drained = v
           /\ SameHold([o EXCEPT !.drained = v], o)
           /\ [o EXCEPT !.drained = v].gateBalance = o.gateBalance
  BY DEF ObservedNumbers, Nothing, SameHold

LEMMA ReadKeepsHoldInv ==
    ASSUME GateInv, FloorInv, RestoreInv, NEW w \in Worker, Alone(w), HoldInv(w),
           NEW here, NEW next, NEW o, Read(w, here, next, o),
           next \in Captured =>
               (here \in Captured /\ o.nonce = obs[w].nonce) \/ o.nonce = chain.nonce,
           next \in InSnapshot => here \in InSnapshot /\ SameHold(o, obs[w]),
           here \in InSnapshot => next \in InSnapshot,
           next \in Accepting => here \in Accepting /\ SameHold(o, obs[w]),
           next \in Looked =>
               next = "gateNonce" /\ o.gateBalance = chain.balances[Wallet]
    PROVE  HoldInv(w)'
  <1>1. /\ pc[w] = here /\ pc'[w] = next /\ obs'[w] = o
        /\ UNCHANGED <<nodeVars, req, decision, used>>
    BY DEF Read, Goto, FloorInv, GateInv
  <1>2. NodeInv /\ obs[w].nonce \in Nat
    BY DEF RestoreInv, RunInv
  <1>3. pc'[w] \in Accepting => Sendable(w)'
    BY <1>1 DEF HoldInv, NodeHolds, ThreadHolds, Sendable, CandidateOf, SameHold
  <1>4. pc'[w] \in Looked => Covered(w)'
    <2>1. chain.balances[Wallet] \in Int
      BY DEF FloorInv, NodeNumbers, IntBalances, Account
    <2>2. chain' = chain
      BY <1>1 DEF nodeVars
    <2> QED
      BY <1>1, <2>1, <2>2 DEF Covered, GateSaw
  <1> QED
    BY <1>1, <1>2, <1>3, <1>4, WatchingKeepsHoldInv DEF SameHold

LEMMA ReadsKeepHoldInv ==
    ASSUME GateInv, FloorInv, RestoreInv, NEW w \in Worker, Alone(w), HoldInv(w),
           \/ CaptureBlock(w) \/ CaptureNonce(w)
           \/ SenderBefore(w) \/ RecipientBefore(w)
           \/ SenderAfter(w) \/ RecipientAfter(w)
           \/ CheckSender(w) \/ CheckRecipient(w)
           \/ GateBlock(w) \/ GateBalance(w)
    PROVE  HoldInv(w)'
  <1>1. ObservedNumbers(obs[w])
    BY DEF FloorInv
  <1> USE DEF Captured, Locations, Calls, InSnapshot, InsideSnapshot, Accepting, Looked
  <1>3. CASE CaptureNonce(w)
    <2>1. [obs[w] EXCEPT !.nonce = chain.nonce].nonce = chain.nonce
      BY <1>1, RecordSameRun
    <2> QED
      BY <1>3, <2>1, ReadKeepsHoldInv DEF CaptureNonce
  <1> DEFINE Passing(here, next) ==
          \E o : Read(w, here, next, o) /\ SameHold(o, obs[w])
  <1>4. ASSUME NEW here, NEW next, Passing(here, next),
               next \in Captured => here \in Captured,
               next \in InSnapshot <=> here \in InSnapshot,
               next \in Accepting => here \in Accepting,
               next \notin Looked
        PROVE  HoldInv(w)'
    <2>1. PICK o : Read(w, here, next, o) /\ SameHold(o, obs[w])
      BY <1>4
    <2> QED
      BY <1>4, <2>1, ReadKeepsHoldInv DEF SameHold
  <1>2. CASE CaptureBlock(w)
    <2>1. SameHold([obs[w] EXCEPT !.block = chain.blocks], obs[w])
      BY <1>1, RecordSameHold
    <2>2. Passing("block", "nonce")
      BY <1>2, <2>1 DEF CaptureBlock
    <2> HIDE DEF Passing
    <2> QED
      BY <1>4, <2>2
  <1>5. CASE SenderBefore(w)
    <2>1. SameHold([obs[w] EXCEPT !.senderBefore = chain.balances[Wallet]], obs[w])
      BY <1>1, RecordSameHold
    <2>2. Passing("senderBefore", "recipientBefore")
      BY <1>5, <2>1 DEF SenderBefore
    <2> HIDE DEF Passing
    <2> QED
      BY <1>4, <2>2
  <1>6. CASE RecipientBefore(w)
    <2>1. SameHold([obs[w] EXCEPT !.recipientBefore = chain.balances[req[w].recipient]],
                   obs[w])
      BY <1>1, RecordSameHold
    <2>2. Passing("recipientBefore", "simSend")
      BY <1>6, <2>1 DEF RecipientBefore
    <2> HIDE DEF Passing
    <2> QED
      BY <1>4, <2>2
  <1>7. CASE SenderAfter(w)
    <2>1. SameHold([obs[w] EXCEPT !.senderAfter = chain.balances[Wallet]], obs[w])
      BY <1>1, RecordSameHold
    <2>2. Passing("senderAfter", "recipientAfter")
      BY <1>7, <2>1 DEF SenderAfter
    <2> HIDE DEF Passing
    <2> QED
      BY <1>4, <2>2
  <1>8. CASE RecipientAfter(w)
    <2> DEFINE after == chain.balances[req[w].recipient]
               failed == \/ obs[w].senderBefore - obs[w].senderAfter # req[w].amount
                         \/ after - obs[w].recipientBefore # req[w].amount
               o == [obs[w] EXCEPT !.recipientAfter = after, !.failed = failed]
    <2>1. Read(w, "recipientAfter", "revert", o)
      BY <1>8 DEF RecipientAfter
    <2> HIDE DEF failed, after
    <2>2. SameHold(o, obs[w])
      BY <1>1, RecordSameHold
    <2>3. Passing("recipientAfter", "revert")
      BY <2>1, <2>2
    <2> HIDE DEF Passing
    <2> QED
      BY <1>4, <2>3
  <1>9. CASE CheckSender(w)
    <2>1. SameHold([obs[w] EXCEPT !.restoredSender = chain.balances[Wallet]], obs[w])
      BY <1>1, RecordSameHold
    <2>2. Passing("checkSender", "checkRecipient")
      BY <1>9, <2>1 DEF CheckSender
    <2> HIDE DEF Passing
    <2> QED
      BY <1>4, <2>2
  <1>10. CASE CheckRecipient(w)
    <2>1. SameHold([obs[w] EXCEPT !.restoredRecipient = chain.balances[req[w].recipient]],
                   obs[w])
      BY <1>1, RecordSameHold
    <2>2. Passing("checkRecipient", "checkNonce")
      BY <1>10, <2>1 DEF CheckRecipient
    <2> HIDE DEF Passing
    <2> QED
      BY <1>4, <2>2
  <1>11. CASE GateBlock(w)
    <2>1. SameHold([obs[w] EXCEPT !.gateBlock = chain.blocks], obs[w])
      BY <1>1, RecordSameHold
    <2>2. Passing("gateBlock", "gateBalance")
      BY <1>11, <2>1 DEF GateBlock
    <2> HIDE DEF Passing
    <2> QED
      BY <1>4, <2>2
  <1>12. CASE GateBalance(w)
    <2> DEFINE o == [obs[w] EXCEPT !.gateBalance = chain.balances[Wallet]]
    <2>1. SameHold(o, obs[w]) /\ o.gateBalance = chain.balances[Wallet]
      BY <1>1, RecordSameHold
    <2>2. Read(w, "gateBalance", "gateNonce", o)
      BY <1>12 DEF GateBalance
    <2> HIDE DEF o
    <2> QED
      BY <2>1, <2>2, ReadKeepsHoldInv DEF SameHold
  <1> QED
    BY <1>2, <1>3, <1>5, <1>6, <1>7, <1>8, <1>9, <1>10, <1>11, <1>12

\* An exception before the node was changed: it leads to the revert, or away
\* from every snapshot, or a fault kept the revert from being carried out.
LEMMA RaiseKeepsHoldInv ==
    ASSUME GateInv, FloorInv, RestoreInv, NEW w \in Worker, Alone(w), HoldInv(w),
           Raise(w), UNCHANGED nodeVars,
           IF pc[w] = "revert" THEN used'.torn ELSE used'.torn = used.torn
    PROVE  HoldInv(w)'
  <1>1. /\ ObservedNumbers(obs[w]) /\ obs[w].nonce \in Nat /\ NodeInv
        /\ DOMAIN pc = Worker /\ DOMAIN obs = Worker
    BY DEF FloorInv, RestoreInv, RunInv, GateInv
  <1> USE DEF Captured, Locations, Calls, InSnapshot, InsideSnapshot, Accepting, Looked
  <1>2. CASE pc[w] \in InsideSnapshot
    <2>1. obs'[w] = [obs[w] EXCEPT !.failed = TRUE] /\ pc'[w] = "revert"
      BY <1>1, <1>2 DEF Raise
    <2>2. SameHold([obs[w] EXCEPT !.failed = TRUE], obs[w])
      BY <1>1, RecordSameHold
    <2>3. SameHold(obs'[w], obs[w])
      BY <2>1, <2>2
    <2> QED
      BY <1>1, <1>2, <2>1, <2>3, WatchingKeepsHoldInv DEF SameHold
  <1>3. CASE pc[w] \notin InsideSnapshot
    <2>1. pc'[w] = "idle"
      BY <1>1, <1>3 DEF Raise, Finish
    <2>2. used'.torn = used.torn \/ used'.torn
      OBVIOUS
    <2>3. pc[w] \in InSnapshot => used'.torn
      BY <1>3
    <2> QED
      BY <1>1, <2>1, <2>2, <2>3, WatchingKeepsHoldInv
  <1> QED
    BY <1>2, <1>3

\* The faults' counter moves; whether one tore a simulation is said apart.
LEMMA FaultsCounted ==
    ASSUME RunInv, NEW kind
    PROVE  /\ Fault(kind) => used'.torn = used.torn
           /\ TearingFault(kind) => used'.torn
  BY DEF RunInv, Fault, TearingFault

LEMMA FallibleKeepHoldInv ==
    ASSUME GateInv, FloorInv, RestoreInv, NEW w \in Worker, Alone(w), HoldInv(w),
           ResolveGas(w) \/ PollTimeout(w) \/ PollReceipt(w) \/ TransportFails(w)
    PROVE  HoldInv(w)'
  <1>1. /\ ObservedNumbers(obs[w]) /\ obs[w].nonce \in Nat
        /\ RunInv /\ NodeInv /\ DOMAIN pc = Worker
    BY DEF FloorInv, RestoreInv, RunInv, GateInv
  <1>2. CASE /\ Raise(w) /\ pc[w] # "revert"
             /\ UNCHANGED <<nodeVars, used>>
    BY <1>2, RaiseKeepsHoldInv
  <1>3. CASE \E g : Read(w, "gas", "snapshot", [obs[w] EXCEPT !.gas = g])
    <2>1. PICK g : Read(w, "gas", "snapshot", [obs[w] EXCEPT !.gas = g])
      BY <1>3
    <2> DEFINE o == [obs[w] EXCEPT !.gas = g]
    <2>2. SameHold(o, obs[w]) /\ Read(w, "gas", "snapshot", o)
      BY <1>1, <2>1, RecordSameHold
    <2> HIDE DEF o
    <2>3. /\ "gas" \in Captured /\ "snapshot" \notin InSnapshot
          /\ "snapshot" \notin Accepting /\ "snapshot" \notin Looked
          /\ "gas" \notin InSnapshot
      BY DEF Captured, Locations, Calls, InSnapshot, InsideSnapshot, Accepting, Looked
    <2> QED
      BY <2>2, <2>3, ReadKeepsHoldInv DEF SameHold
  <1>4. CASE /\ Goto(w, "poll", "senderAfter")
             /\ UNCHANGED <<nodeVars, obs, used>>
    <2>1. pc[w] = "poll" /\ pc'[w] = "senderAfter"
      BY <1>1, <1>4 DEF Goto
    <2> QED
      BY <1>1, <1>4, <2>1, WatchingKeepsHoldInv
         DEF Captured, Locations, Calls, InSnapshot, InsideSnapshot, Accepting, Looked
  <1>5. CASE TransportFails(w)
    <2>1. Raise(w) /\ UNCHANGED nodeVars
      BY <1>5 DEF TransportFails
    <2>2. IF pc[w] = "revert" THEN used'.torn ELSE used'.torn = used.torn
      BY <1>1, <1>5, FaultsCounted DEF TransportFails
    <2> QED
      BY <2>1, <2>2, RaiseKeepsHoldInv
  <1> QED
    BY <1>2, <1>3, <1>4, <1>5 DEF ResolveGas, PollTimeout, PollReceipt

LEMMA PlainKeepHoldInv ==
    ASSUME GateInv, FloorInv, RestoreInv, NEW w \in Worker, Alone(w), HoldInv(w),
           Start(w) \/ CheckNonce(w) \/ GateNonce(w) \/ Consume(w)
    PROVE  HoldInv(w)'
  <1>1. /\ obs[w].nonce \in Nat /\ RunInv /\ NodeInv /\ DOMAIN pc = Worker
    BY DEF RestoreInv, RunInv, GateInv
  <1> USE DEF Captured, Locations, Calls, InSnapshot, InsideSnapshot, Accepting, Looked
  <1>2. CASE Start(w)
    <2>1. pc[w] = "idle" /\ pc'[w] = "block" /\ UNCHANGED nodeVars
      BY <1>1, <1>2 DEF Start, Goto
    <2>2. used'.torn = used.torn
      BY <1>1, <1>2 DEF Start, RunInv
    <2> QED
      BY <1>1, <2>1, <2>2, WatchingKeepsHoldInv
  <1>3. CASE CheckNonce(w)
    <2>1. /\ pc[w] = "checkNonce" /\ pc'[w] \in {"idle", "decide"}
          /\ UNCHANGED <<nodeVars, obs, used>>
      BY <1>1, <1>3 DEF CheckNonce, Goto, Finish
    <2> QED
      BY <1>1, <2>1, WatchingKeepsHoldInv
  <1>4. CASE GateNonce(w)
    <2>1. /\ pc[w] = "gateNonce" /\ pc'[w] \in {"idle", "consume"}
          /\ UNCHANGED <<nodeVars, obs, used, req, decision>>
          /\ pc'[w] = "consume" => ~Drifted(w)
      BY <1>1, <1>4 DEF GateNonce, Goto, Finish
    <2>2. pc'[w] = "consume" => Covered(w)'
      <3>1. pc'[w] = "consume" => GateSaw(w)' = GateSaw(w)
        BY <2>1 DEF Drifted, GateSaw, CandidateOf
      <3> QED
        BY <2>1, <3>1 DEF HoldInv, NodeHolds, ThreadHolds, Covered, nodeVars
    <2>3. pc'[w] = "consume" => Sendable(w)'
      BY <2>1 DEF HoldInv, NodeHolds, ThreadHolds, Sendable, CandidateOf
    <2> QED
      BY <1>1, <2>1, <2>2, <2>3, WatchingKeepsHoldInv
  <1>5. CASE Consume(w)
    <2>1. /\ pc[w] = "consume" /\ pc'[w] \in {"idle", "send"}
          /\ UNCHANGED <<nodeVars, obs, used, req, decision>>
      BY <1>1, <1>5 DEF Consume, Goto, Finish
    <2>2. pc'[w] = "send" => Covered(w)' /\ Sendable(w)'
      BY <2>1 DEF HoldInv, NodeHolds, ThreadHolds, Sendable, Covered, GateSaw, CandidateOf, nodeVars
    <2> QED
      BY <1>1, <2>1, <2>2, WatchingKeepsHoldInv
  <1> QED
    BY <1>2, <1>3, <1>4, <1>5

\* A transaction that uses the nonce the thread captured is mined at once: the
\* nonce is not ahead of the chain.
LEMMA SentIsMined ==
    ASSUME RestoreInv, NEW w \in Worker, HoldInv(w), pc[w] \in Captured,
           NEW tx, NEW origin, eth_sendTransaction(tx, origin),
           tx.fromAddress = Wallet, tx.nonce = obs[w].nonce
    PROVE  /\ tx.nonce = chain.nonce
           /\ \E s \in Stamps : chain' = Mined(chain, tx, origin, s)
           /\ chain'.nonce = chain.nonce + 1
           /\ chain.nonce \in Nat
           /\ UNCHANGED <<snapshots, nextId, queue>>
  <1>1. chain.nonce \in Nat /\ obs[w].nonce \in Nat
    BY DEF RestoreInv, RunInv, NodeInv, Chains, Ledger
  <1>2. obs[w].nonce <= chain.nonce
    BY DEF HoldInv, NodeHolds, ThreadHolds
  <1>3. /\ tx.nonce = chain.nonce
        /\ \E s \in Stamps : chain' = Mined(chain, tx, origin, s)
        /\ UNCHANGED <<snapshots, nextId, queue>>
    BY <1>1, <1>2 DEF eth_sendTransaction
  <1>4. \A s : Mined(chain, tx, origin, s).nonce = chain.nonce + 1
    BY DEF Mined
  <1> QED
    BY <1>1, <1>3, <1>4

LEMMA SimulatedKeepsHoldInv ==
    ASSUME RestoreInv, NEW w \in Worker, Alone(w), HoldInv(w), pc[w] = "simSend",
           eth_sendTransaction(SimulatedTx(w), OriginOf(w, "simulation")),
           pc'[w] \in {"poll", "revert"}, SameHold(obs'[w], obs[w]),
           used'.torn = used.torn
    PROVE  HoldInv(w)'
  <1> USE DEF Captured, Locations, Calls, InSnapshot, InsideSnapshot, Accepting, Looked
  <1> DEFINE tx == SimulatedTx(w)
             origin == OriginOf(w, "simulation")
  <1>1. origin.kind = "simulation" /\ tx.fromAddress = Wallet /\ tx.nonce = obs[w].nonce
    BY DEF OriginOf, SimulatedTx
  <1> HIDE DEF tx, origin
  <1>2. /\ \E s \in Stamps : chain' = Mined(chain, tx, origin, s)
        /\ chain'.nonce = chain.nonce + 1 /\ chain.nonce \in Nat
        /\ UNCHANGED <<snapshots, queue>>
    BY <1>1, SentIsMined DEF tx, origin
  <1>3. \A c \in Chains' : FloorsKept(c)
    <2>1. \A block, left : FloorKept(block, origin, left)
      BY <1>1 DEF FloorKept
    <2> QED
      BY <1>2, <2>1, GrowingKeepsChains DEF RestoreInv, HoldInv, NodeHolds, ThreadHolds
  <1>4. obs'[w].nonce <= chain'.nonce
    <2>1. obs[w].nonce \in Nat /\ obs[w].nonce <= chain.nonce
      BY DEF RestoreInv, RunInv, HoldInv, NodeHolds, ThreadHolds
    <2> QED
      BY <1>2, <2>1 DEF SameHold
  <1>5. Undoable(w)'
    BY <1>2 DEF HoldInv, NodeHolds, ThreadHolds, Undoable, Live, SameHold
  <1>6. ~Closed'
    BY DEF Closed
  <1> QED
    BY <1>2, <1>3, <1>4, <1>5, <1>6 DEF HoldInv, NodeHolds, ThreadHolds

LEMMA DecideKeepsHoldInv ==
    ASSUME GateInv, FloorInv, RestoreInv, NEW w \in Worker, Alone(w), HoldInv(w), Decide(w)
    PROVE  HoldInv(w)'
  <1> DEFINE a == req[w].approval
             e == EvidenceOf(w)
             c == candidate_from_evidence(a, e, req[w])
  <1>1. /\ obs[w].nonce \in Nat /\ NodeInv
        /\ DOMAIN pc = Worker /\ DOMAIN decision = Worker
    BY DEF RestoreInv, RunInv, GateInv
  <1>2. /\ pc[w] = "decide" /\ pc'[w] \in {"idle", "gateBlock"}
        /\ UNCHANGED <<nodeVars, req, obs, used>>
    BY <1>1 DEF Decide, Goto, Finish
  <1>3. ASSUME pc'[w] = "gateBlock"
        PROVE  Sendable(w)'
    <2>1. decision'[w] = evaluate(a, c) /\ verify_evidence(e)
      <3> HIDE DEF c, a, e
      <3>1. \A how : ~Finish(w, how)
        BY <1>1, <1>3 DEF Finish
      <3> USE DEF c, a, e
      <3> QED
        BY <1>1, <3>1 DEF Decide
    <2>2. /\ e.request.sender = Wallet /\ e.senderNonce = obs[w].nonce
          /\ e.gasUsed = TransferGas
          /\ e.transaction.data.recipient = req[w].recipient
          /\ e.senderBefore = obs[w].senderBefore
      BY DEF EvidenceOf, SimulatedTx, TransferCall
    <2> HIDE DEF e
    <2>3. TransferGas <= e.gasLimit
      BY <2>1, <2>2 DEF verify_evidence
    <2>4. /\ c.transaction.fromAddress = Wallet
          /\ c.transaction.nonce = obs[w].nonce
          /\ c.transaction.gasLimit = e.gasLimit
          /\ c.transaction.data.recipient = req[w].recipient
          /\ c.context.assetBalance = obs[w].senderBefore
      BY <2>2 DEF candidate_from_evidence, transaction_from_evidence,
         chain_context_from_evidence
    <2>5. req[w].recipient \in Recipients
      BY ExecutionAssumption DEF FloorInv
    <2>6. obs[w].senderBefore \in Int
      BY DEF FloorInv, ObservedNumbers
    <2> HIDE DEF c
    <2>7. CandidateOf(w)' = c /\ decision'[w].approvalSha256 = a
      BY <2>1 DEF CandidateOf, evaluate
    <2> QED
      BY <1>2, <2>3, <2>4, <2>5, <2>6, <2>7 DEF Sendable
  <1> QED
    BY <1>1, <1>2, <1>3, WatchingKeepsHoldInv
       DEF Captured, Locations, Calls, InSnapshot, InsideSnapshot, Accepting, Looked

\* The snapshot is taken of a chain without simulations; the simulation is sent
\* behind it.
LEMMA SimulationKeepsHoldInv ==
    ASSUME GateInv, FloorInv, RestoreInv, NEW w \in Worker, Alone(w), HoldInv(w),
           Apart',
           TakeSnapshot(w) \/ SimulateSend(w)
    PROVE  HoldInv(w)'
  <1>1. /\ ObservedNumbers(obs[w]) /\ obs[w].nonce \in Nat /\ NodeInv
        /\ DOMAIN pc = Worker /\ DOMAIN obs = Worker
    BY DEF FloorInv, RestoreInv, RunInv, GateInv
  <1> USE DEF Captured, Locations, Calls, InSnapshot, InsideSnapshot, Accepting, Looked
  <1>2. CASE TakeSnapshot(w)
    <2> DEFINE o == [obs[w] EXCEPT !.snapshot = nextId]
    <2>1. o.snapshot = nextId /\ o.nonce = obs[w].nonce
      BY <1>1, RecordSameHold
    <2>2. obs'[w] = o /\ pc[w] = "snapshot" /\ pc'[w] = "senderBefore"
      BY <1>1, <1>2 DEF TakeSnapshot, Goto
    <2> HIDE DEF o
    <2>3. /\ snapshots' = snapshots \cup {[id |-> nextId, chain |-> chain]}
          /\ UNCHANGED <<chain, queue, used>>
      BY <1>2 DEF TakeSnapshot, evm_snapshot
    <2>4. \A c \in Chains' : FloorsKept(c)
      BY <2>3 DEF HoldInv, NodeHolds, ThreadHolds, Chains
    <2>5. \A s \in snapshots' : s.id = nextId => s.chain = chain
      BY <1>1, <2>3 DEF NodeInv
    <2>6. obs[w].nonce <= chain.nonce /\ (~used.torn => NoSimulation(chain))
      <3>1. \A v \in Worker \ {w} : pc[v] \notin InSnapshot
        BY <2>2 DEF Apart, Alone
      <3>2. Closed
        BY <2>2, <3>1 DEF Closed
      <3> QED
        BY <2>2, <3>2 DEF HoldInv, NodeHolds, ThreadHolds
    <2>7. Undoable(w)'
      <3>1. [id |-> nextId, chain |-> chain] \in snapshots'
        BY <2>3
      <3>2. obs'[w].snapshot = nextId /\ obs'[w].nonce = obs[w].nonce
        BY <2>1, <2>2
      <3> QED
        BY <2>3, <2>5, <2>6, <3>1, <3>2 DEF Undoable, Live
    <2>8. ~Closed'
      BY <2>2 DEF Closed
    <2> QED
      BY <2>1, <2>2, <2>3, <2>4, <2>6, <2>7, <2>8 DEF HoldInv, NodeHolds, ThreadHolds
  <1>3. CASE SimulateSend(w)
    <2>1. CASE Raise(w) /\ UNCHANGED nodeVars
      BY <1>3, <2>1, RaiseKeepsHoldInv DEF SimulateSend
    <2>2. CASE /\ Goto(w, "simSend", "poll") /\ UNCHANGED obs
               /\ eth_sendTransaction(SimulatedTx(w), OriginOf(w, "simulation"))
      BY <1>1, <1>3, <2>2, SimulatedKeepsHoldInv DEF SimulateSend, Goto, SameHold
    <2> QED
      BY <1>3, <2>1, <2>2 DEF SimulateSend
  <1> QED
    BY <1>2, <1>3

\* Going back to the thread's own snapshot, which is live.
LEMMA UndoneKeepsHoldInv ==
    ASSUME RestoreInv, NEW w \in Worker, Alone(w), HoldInv(w), pc[w] = "revert",
           evm_revert(obs[w].snapshot), obs' = obs,
           pc'[w] \in {"idle", "checkSender"}, used'.torn = used.torn
    PROVE  HoldInv(w)'
  <1> USE DEF Captured, Locations, Calls, InSnapshot, InsideSnapshot, Accepting, Looked
  <1>1. Undoable(w)
    BY DEF HoldInv, NodeHolds, ThreadHolds
  <1>2. PICK s \in snapshots : s.id = obs[w].snapshot /\ chain' = s.chain
    BY DEF evm_revert
  <1>3. /\ obs[w].nonce <= chain'.nonce
        /\ ~used.torn => NoSimulation(chain')
    BY <1>1, <1>2 DEF Undoable
  <1>4. queue' = {} /\ Chains' \subseteq Chains
    BY <1>2 DEF evm_revert, Chains, HoldInv, NodeHolds, ThreadHolds
  <1>5. \A c \in Chains' : FloorsKept(c)
    BY <1>4 DEF HoldInv, NodeHolds, ThreadHolds
  <1> QED
    BY <1>3, <1>4, <1>5 DEF HoldInv, NodeHolds, ThreadHolds

LEMMA RevertKeepsHoldInv ==
    ASSUME GateInv, FloorInv, RestoreInv, NEW w \in Worker, Alone(w), HoldInv(w),
           RevertSnapshot(w) \/ NoopRevert(w)
    PROVE  HoldInv(w)'
  <1>1. RunInv /\ DOMAIN pc = Worker
    BY DEF RestoreInv, GateInv
  <1> USE DEF Captured, Locations, Calls, InSnapshot, InsideSnapshot, Accepting, Looked
  <1>2. CASE RevertSnapshot(w)
    <2>1. pc[w] = "revert" /\ Live(obs[w].snapshot)
      BY <1>2 DEF RevertSnapshot, HoldInv, NodeHolds, ThreadHolds, Undoable
    <2>2. /\ evm_revert(obs[w].snapshot)
          /\ UNCHANGED <<obs, used>> /\ pc'[w] \in {"idle", "checkSender"}
      BY <1>1, <1>2, <2>1 DEF RevertSnapshot, Goto, Finish
    <2> QED
      BY <2>1, <2>2, UndoneKeepsHoldInv
  <1>3. CASE NoopRevert(w)
    <2>1. /\ pc[w] = "revert" /\ pc'[w] = "checkSender" /\ used'.torn
          /\ chain' = chain /\ queue' = queue /\ obs' = obs
          /\ snapshots' \subseteq snapshots
      BY <1>1, <1>3, FaultsCounted DEF NoopRevert, Goto
    <2>2. \A c \in Chains' : FloorsKept(c)
      BY <2>1 DEF HoldInv, NodeHolds, ThreadHolds, Chains
    <2>3. obs'[w].nonce <= chain'.nonce
      BY <2>1 DEF HoldInv, NodeHolds, ThreadHolds
    <2> QED
      BY <2>1, <2>2, <2>3 DEF HoldInv, NodeHolds, ThreadHolds
  <1> QED
    BY <1>2, <1>3

\* The gate's transfer is mined at the nonce it was judged for, out of a balance
\* that covers it: the wallet keeps the floor.
LEMMA BroadcastKeepsHoldInv ==
    ASSUME GateInv, FloorInv, RestoreInv, NEW w \in Worker, Alone(w), HoldInv(w),
           pc[w] = "send", pc'[w] = "idle", used'.torn = used.torn,
           eth_sendTransaction(CandidateOf(w).transaction, OriginOf(w, "broadcast"))
    PROVE  HoldInv(w)'
  <1> USE DEF Captured, Locations, Calls, InSnapshot, InsideSnapshot, Accepting, Looked
  <1> DEFINE tx == CandidateOf(w).transaction
             origin == OriginOf(w, "broadcast")
             balance == CandidateOf(w).context.assetBalance
             floor == req[w].approval.policy.assetBalanceFloor
  <1>1. /\ tx.fromAddress = Wallet /\ tx.nonce = obs[w].nonce
        /\ tx.gasLimit >= TransferGas /\ tx.data.recipient \in Recipients
        /\ decision[w].approvalSha256 = req[w].approval
        /\ balance \in Int
    BY DEF HoldInv, NodeHolds, ThreadHolds, Sendable
  <1>2. /\ tx.data.selector = "transfer" /\ tx.data.amount \in Int
        /\ tx.data.amount > 0 /\ balance - tx.data.amount >= floor
    <2>1. Judged(decision[w])
      BY DEF FloorInv
    <2> QED
      BY <1>1, <2>1 DEF Judged, KeepsFloor, CandidateOf, IntAmount
  <1>3. floor \in Nat /\ chain.balances \in [Account -> Int]
    BY RequestNumbers DEF FloorInv, NodeNumbers, IntBalances
  <1>4. chain.nonce = obs[w].nonce =>
            obs[w].drained \/ chain.balances[Wallet] >= balance
    BY DEF HoldInv, NodeHolds, ThreadHolds, Covered, GateSaw
  <1>5. origin.drained = obs[w].drained /\ origin.floor = floor
        /\ origin.kind = "broadcast"
    BY DEF OriginOf
  <1> HIDE DEF tx, origin, balance, floor
  <1>6. /\ tx.nonce = chain.nonce
        /\ \E s \in Stamps : chain' = Mined(chain, tx, origin, s)
        /\ chain'.nonce = chain.nonce + 1 /\ chain.nonce \in Nat
        /\ UNCHANGED <<snapshots, queue>>
    BY <1>1, SentIsMined DEF tx, origin
  <1>7. ASSUME ~origin.drained
        PROVE  Executes(chain, tx) /\ chain'.balances[Wallet] >= floor
    <2>1. chain.balances[Wallet] >= balance
      BY <1>1, <1>4, <1>5, <1>6, <1>7
    <2>2. Wallet \in Account /\ Payer(tx) = Wallet /\ tx.data.recipient # Wallet
      BY <1>1, <1>2, NodeAssumption DEF Account, Payer
    <2>3. chain.balances[Wallet] \in Int
      BY <1>3, <2>2
    <2>4. tx.data.amount <= chain.balances[Wallet]
      BY <1>1, <1>2, <1>3, <2>1, <2>3
    <2>5. Executes(chain, tx)
      BY <1>1, <2>2, <2>4 DEF Executes
    <2>6. chain'.balances =
              Moved(chain.balances, Wallet, tx.data.recipient, tx.data.amount)
      BY <1>6, <2>2, <2>5 DEF Mined
    <2>7. chain'.balances[Wallet] = chain.balances[Wallet] - tx.data.amount
      BY <1>2, <2>2, <2>3, <2>6 DEF Moved
    <2>8. chain'.balances[Wallet] >= floor
      BY <1>1, <1>2, <1>3, <2>1, <2>3, <2>7
    <2> QED
      BY <2>5, <2>8
  <1>8. \A block : block.ok = Executes(chain, tx)
            => FloorKept(block, origin, chain'.balances[Wallet])
    BY <1>5, <1>7 DEF FloorKept
  <1>9. \A c \in Chains' : FloorsKept(c)
    BY <1>6, <1>8, GrowingKeepsChains DEF RestoreInv, HoldInv, NodeHolds, ThreadHolds
  <1>10. ~used'.torn /\ Closed' => NoSimulation(chain')
    <2>1. origin.kind # "simulation" /\ Ledger(chain)
      BY <1>5 DEF RestoreInv, NodeInv, Chains
    <2>2. Closed' => Closed
      BY DEF Closed, Alone
    <2> QED
      BY <1>6, <2>1, <2>2, MinedByOthers DEF HoldInv, NodeHolds, ThreadHolds
  <1> QED
    BY <1>6, <1>9, <1>10 DEF HoldInv, NodeHolds, ThreadHolds

LEMMA SenderKeepsHoldInv ==
    ASSUME GateInv, FloorInv, RestoreInv, NEW w \in Worker, Alone(w), HoldInv(w),
           Broadcast(w) \/ ResponseLost(w)
    PROVE  HoldInv(w)'
  <1>1. /\ ObservedNumbers(obs[w]) /\ obs[w].nonce \in Nat
        /\ RunInv /\ NodeInv /\ DOMAIN pc = Worker /\ DOMAIN obs = Worker
    BY DEF FloorInv, RestoreInv, RunInv, GateInv
  <1> USE DEF Captured, Locations, Calls, InSnapshot, InsideSnapshot, Accepting, Looked
  <1>2. CASE Broadcast(w)
    <2>1. pc[w] = "send" /\ pc'[w] = "idle" /\ UNCHANGED <<obs, used>>
      BY <1>1, <1>2 DEF Broadcast, Finish
    <2>2. CASE UNCHANGED nodeVars
      BY <1>1, <2>1, <2>2, WatchingKeepsHoldInv
    <2>3. CASE eth_sendTransaction(CandidateOf(w).transaction, OriginOf(w, "broadcast"))
      BY <2>1, <2>3, BroadcastKeepsHoldInv
    <2> QED
      BY <1>2, <2>2, <2>3 DEF Broadcast
  <1>3. CASE ResponseLost(w)
    <2>1. Raise(w) /\ used'.torn = used.torn
      BY <1>1, <1>3, FaultsCounted DEF ResponseLost
    <2>2. CASE /\ pc[w] = "simSend"
               /\ eth_sendTransaction(SimulatedTx(w), OriginOf(w, "simulation"))
      <3>1. SameHold([obs[w] EXCEPT !.failed = TRUE], obs[w])
        BY <1>1, RecordSameHold
      <3>2. obs'[w] = [obs[w] EXCEPT !.failed = TRUE] /\ pc'[w] = "revert"
        BY <1>1, <2>1, <2>2 DEF Raise
      <3>3. SameHold(obs'[w], obs[w])
        BY <3>1, <3>2
      <3> QED
        BY <2>1, <2>2, <3>2, <3>3, SimulatedKeepsHoldInv
    <2>3. CASE pc[w] = "revert" /\ evm_revert(obs[w].snapshot)
      <3>1. pc'[w] = "idle" /\ obs' = obs
        BY <1>1, <2>1, <2>3 DEF Raise, Finish
      <3> QED
        BY <2>1, <2>3, <3>1, UndoneKeepsHoldInv
    <2>4. CASE /\ pc[w] = "send"
               /\ eth_sendTransaction(CandidateOf(w).transaction, OriginOf(w, "broadcast"))
      <3>1. pc'[w] = "idle"
        BY <1>1, <2>1, <2>4 DEF Raise, Finish
      <3> QED
        BY <2>1, <2>4, <3>1, BroadcastKeepsHoldInv
    <2> QED
      BY <1>3, <2>2, <2>3, <2>4 DEF ResponseLost
  <1> QED
    BY <1>2, <1>3

\* What others do: only an allowance spend takes tokens without using the nonce,
\* and a thread past the gate's look is marked by it.
EventEffect(tx) ==
    /\ \E s \in Stamps : chain' = Mined(chain, tx, External, s)
    /\ UNCHANGED <<snapshots, queue, pc, req, decision>>
    /\ used' = [used EXCEPT !.events = @ + 1]
    /\ \/ tx.fromAddress = Wallet /\ obs' = obs
       \/ /\ \E from \in Recipients : tx = ExternalTx(from, Wallet, 0, "transfer")
          /\ obs' = obs
       \/ \A w \in Worker : obs'[w] = IF pc[w] \in Looked
                                      THEN [obs[w] EXCEPT !.drained = TRUE] ELSE obs[w]

LEMMA EventMines ==
    ASSUME OwnTransfer \/ IncomingTransfer \/ AllowanceSpend
    PROVE  \E tx : EventEffect(tx)
  <1>1. CASE OwnTransfer
    <2>1. PICK to \in Recipients :
              Event("own", ExternalTx(Wallet, to, chain.nonce, "transfer"))
      BY <1>1 DEF OwnTransfer
    <2>2. ExternalTx(Wallet, to, chain.nonce, "transfer").fromAddress = Wallet
      BY DEF ExternalTx
    <2> QED
      BY <1>1, <2>1, <2>2 DEF Event, OwnTransfer, EventEffect
  <1>2. CASE IncomingTransfer
    BY <1>2 DEF IncomingTransfer, Event, EventEffect
  <1>3. CASE AllowanceSpend
    BY <1>3 DEF AllowanceSpend, Event, EventEffect, Looked
  <1> QED
    BY <1>1, <1>2, <1>3

LEMMA EventKeepsNode ==
    ASSUME RestoreInv, NodeHolds, NEW tx, EventEffect(tx)
    PROVE  NodeHolds'
  <1>1. NodeInv /\ Ledger(chain) /\ External.kind # "simulation"
    BY DEF RestoreInv, NodeInv, Chains, External
  <1>2. used'.torn = used.torn /\ (Closed' <=> Closed)
    BY DEF RestoreInv, RunInv, EventEffect, Closed
  <1>3. \A c \in Chains' : FloorsKept(c)
    <2>1. \A block, left : FloorKept(block, External, left)
      BY DEF FloorKept, External
    <2> QED
      BY <1>1, <2>1, GrowingKeepsChains DEF NodeHolds, EventEffect
  <1>4. ~used'.torn /\ Closed' => NoSimulation(chain')
    BY <1>1, <1>2, MinedByOthers DEF NodeHolds, EventEffect
  <1> QED
    BY <1>3, <1>4 DEF NodeHolds, EventEffect

LEMMA EventKeepsThread ==
    ASSUME FloorInv, RestoreInv, NEW w \in Worker, ThreadHolds(w),
           NEW tx, EventEffect(tx)
    PROVE  ThreadHolds(w)'
  <1> USE DEF Captured, Locations, Calls, InSnapshot, InsideSnapshot, Accepting, Looked
  <1>1. /\ ObservedNumbers(obs[w]) /\ obs[w].nonce \in Nat /\ DOMAIN obs = Worker
        /\ RunInv /\ NodeInv /\ Ledger(chain) /\ chain.nonce \in Nat
        /\ chain.balances \in [Account -> Int] /\ Wallet \in Account
    BY DEF FloorInv, NodeNumbers, IntBalances, RestoreInv, RunInv, NodeInv, Chains,
       Ledger, Account
  <1>2. /\ \E s \in Stamps : chain' = Mined(chain, tx, External, s)
        /\ UNCHANGED <<snapshots, queue, pc, req, decision>>
        /\ used' = [used EXCEPT !.events = @ + 1]
        /\ \/ tx.fromAddress = Wallet /\ obs' = obs
           \/ /\ \E from \in Recipients : tx = ExternalTx(from, Wallet, 0, "transfer")
              /\ obs' = obs
           \/ obs'[w] = IF pc[w] \in Looked
                        THEN [obs[w] EXCEPT !.drained = TRUE] ELSE obs[w]
    BY DEF EventEffect
  <1>3. /\ chain'.nonce \in Nat /\ chain.nonce <= chain'.nonce
        /\ tx.fromAddress = Wallet => chain'.nonce = chain.nonce + 1
    BY <1>1, <1>2 DEF Mined
  <1>4. used'.torn = used.torn
    BY <1>1, <1>2 DEF RunInv
  <1>5. SameHold(obs'[w], obs[w]) /\ obs'[w].gateBalance = obs[w].gateBalance
    <2>1. /\ SameHold([obs[w] EXCEPT !.drained = TRUE], obs[w])
          /\ [obs[w] EXCEPT !.drained = TRUE].gateBalance = obs[w].gateBalance
      BY <1>1, RecordSameHold
    <2>2. obs'[w] = obs[w] \/ obs'[w] = [obs[w] EXCEPT !.drained = TRUE]
      BY <1>2
    <2> QED
      BY <2>1, <2>2 DEF SameHold
  <1>6. pc'[w] \in Captured => obs'[w].nonce <= chain'.nonce
    BY <1>1, <1>2, <1>3, <1>5 DEF ThreadHolds, SameHold
  <1>7. pc'[w] \in InSnapshot => Undoable(w)'
    BY <1>2, <1>4, <1>5 DEF ThreadHolds, Undoable, Live, SameHold
  <1>8. pc'[w] \in Accepting => Sendable(w)'
    BY <1>2, <1>5 DEF ThreadHolds, Sendable, CandidateOf, SameHold
  <1>9. ASSUME pc'[w] \in Looked
         PROVE  Covered(w)'
    <2>1. /\ GateSaw(w)' = GateSaw(w) /\ GateSaw(w) \in Int
          /\ obs[w].nonce <= chain.nonce /\ obs'[w].nonce = obs[w].nonce
      BY <1>2, <1>5, <1>9 DEF ThreadHolds, Covered, GateSaw, CandidateOf, SameHold
    <2>2. CASE tx.fromAddress = Wallet
      BY <1>1, <1>3, <2>1, <2>2 DEF Covered
    <2>3. CASE /\ \E from \in Recipients : tx = ExternalTx(from, Wallet, 0, "transfer")
               /\ obs' = obs
      <3>1. chain'.balances[Wallet] >= chain.balances[Wallet]
        <4>1. PICK from \in Recipients : tx = ExternalTx(from, Wallet, 0, "transfer")
          BY <2>3
        <4>2. /\ tx.fromAddress = from /\ tx.data.selector = "transfer"
              /\ tx.data.recipient = Wallet /\ tx.data.amount = EventAmount
          BY <4>1 DEF ExternalTx
        <4>3. from # Wallet /\ EventAmount \in Nat
          BY NodeAssumption, ExecutionAssumption, MaxUintAssumption DEF UInt
        <4>4. Moved(chain.balances, from, Wallet, EventAmount)[Wallet]
                  = chain.balances[Wallet] + EventAmount
          BY <1>1, <4>3 DEF Moved
        <4>5. \/ chain'.balances = chain.balances
              \/ chain'.balances = Moved(chain.balances, from, Wallet, EventAmount)
          BY <1>2, <4>2 DEF Mined, Payer
        <4> QED
          BY <1>1, <4>3, <4>4, <4>5
      <3>2. chain'.balances[Wallet] \in Int /\ chain.balances[Wallet] \in Int
        <4>1. IntAmount(tx)
          BY <2>3, ExecutionAssumption, MaxUintAssumption DEF IntAmount, ExternalTx, UInt
        <4>2. IntBalances(chain')
          BY <1>1, <1>2, <4>1, MinedNumbers DEF IntBalances
        <4> QED
          BY <1>1, <4>2 DEF IntBalances
      <3>3. chain'.nonce = obs[w].nonce => chain.nonce = obs[w].nonce
        BY <1>1, <1>3, <2>1
      <3>4. Covered(w)
        BY <1>2, <1>9 DEF ThreadHolds
      <3> QED
        BY <2>1, <2>3, <3>1, <3>2, <3>3, <3>4 DEF Covered
    <2>4. CASE obs'[w] = [obs[w] EXCEPT !.drained = TRUE]
      <3>1. [obs[w] EXCEPT !.drained = TRUE].drained = TRUE
        BY <1>1, RecordSameHold
      <3>2. obs'[w].drained
        BY <2>4, <3>1
      <3> QED
        BY <2>1, <3>2 DEF Covered
    <2> QED
      BY <1>2, <1>9, <2>2, <2>3, <2>4
  <1> QED
    BY <1>6, <1>7, <1>8, <1>9 DEF ThreadHolds

LEMMA CrashKeepsHolding ==
    ASSUME RestoreInv, NodeHolds, Crash
    PROVE  NodeHolds' /\ \A w \in Worker : ThreadHolds(w)'
  <1>1. /\ chain' = chain /\ queue' = queue /\ snapshots' = snapshots
        /\ \A w \in Worker : pc'[w] = "idle"
    BY DEF Crash, nodeVars
  <1>2. IF Closed THEN used'.torn = used.torn ELSE used'.torn
    <2>1. Closed <=> ~\E v \in Worker : pc[v] \in InsideSnapshot \cup {"revert"}
      BY DEF Closed, InSnapshot
    <2>2. RunInv
      BY DEF RestoreInv
    <2> QED
      BY <2>1, <2>2, FaultsCounted DEF Crash
  <1>3. "idle" \notin Captured \cup InSnapshot \cup Accepting \cup Looked
    BY DEF Captured, InSnapshot, InsideSnapshot, Accepting, Looked
  <1>4. Chains' = Chains
    BY <1>1 DEF Chains
  <1>5. \A w \in Worker : ThreadHolds(w)'
    BY <1>1, <1>3 DEF ThreadHolds
  <1> QED
    BY <1>1, <1>2, <1>4, <1>5 DEF NodeHolds

LEMMA EnvironmentKeepsApartInv ==
    ASSUME FloorInv, RestoreInv, ApartInv, Environment
    PROVE  ApartInv'
  <1>1. ~MineQueued
    BY DEF MineQueued, ApartInv, NodeHolds
  <1>2. CASE Crash
    BY <1>2, CrashKeepsHolding DEF ApartInv
  <1>3. CASE OwnTransfer \/ IncomingTransfer \/ AllowanceSpend
    <2>1. PICK tx : EventEffect(tx)
      BY <1>3, EventMines
    <2>2. NodeHolds'
      BY <2>1, EventKeepsNode DEF ApartInv
    <2>3. \A w \in Worker : ThreadHolds(w)'
      BY <2>1, EventKeepsThread DEF ApartInv
    <2> QED
      BY <2>2, <2>3 DEF ApartInv
  <1> QED
    BY <1>1, <1>2, <1>3 DEF Environment

\* A step of a thread.
Advances(w) == Start(w) \/ Step(w) \/ TransportFails(w) \/ ResponseLost(w) \/ NoopRevert(w)

LEMMA AdvancesAlone ==
    ASSUME GateInv, FloorInv, NEW w \in Worker, Advances(w)
    PROVE  Alone(w)
  <1> DEFINE Others(f, g) == \A v \in Worker \ {w} : g[v] = f[v]
  <1>1. /\ DOMAIN pc = Worker /\ DOMAIN decision = Worker /\ DOMAIN obs = Worker
        /\ DOMAIN req = Worker
    BY DEF GateInv, FloorInv
  <1>2. \A here, next, how : Goto(w, here, next) \/ Finish(w, how) => Others(pc, pc')
    BY <1>1 DEF Goto, Finish
  <1>3. Raise(w) => Others(pc, pc') /\ Others(obs, obs')
    BY <1>1 DEF Raise, Finish
  <1>4. \A here, next, o : Read(w, here, next, o) => Alone(w)
    BY <1>1 DEF Read, Goto, Alone
  <1>5. CASE \/ CaptureBlock(w) \/ CaptureNonce(w) \/ SenderBefore(w) \/ RecipientBefore(w)
             \/ SenderAfter(w) \/ RecipientAfter(w) \/ CheckSender(w) \/ CheckRecipient(w)
             \/ GateBlock(w) \/ GateBalance(w)
    BY <1>4, <1>5 DEF CaptureBlock, CaptureNonce, SenderBefore, RecipientBefore, SenderAfter,
       RecipientAfter, CheckSender, CheckRecipient, GateBlock, GateBalance
  <1>6. CASE ResolveGas(w) \/ PollTimeout(w) \/ TransportFails(w) \/ ResponseLost(w)
    <2>1. CASE \E here, next, o : Read(w, here, next, o)
      BY <1>4, <2>1
    <2>2. CASE Raise(w) /\ UNCHANGED <<req, decision>>
      BY <1>3, <2>2 DEF Alone
    <2> QED
      BY <1>6, <2>1, <2>2 DEF ResolveGas, PollTimeout, TransportFails, ResponseLost
  <1>7. CASE SimulateSend(w) \/ PollReceipt(w)
    <2>1. Others(pc, pc') /\ Others(obs, obs')
      BY <1>2, <1>3, <1>7 DEF SimulateSend, PollReceipt
    <2> QED
      BY <1>7, <2>1 DEF SimulateSend, PollReceipt, Alone
  <1>8. CASE \/ RevertSnapshot(w) \/ NoopRevert(w) \/ CheckNonce(w) \/ GateNonce(w)
             \/ Consume(w) \/ Broadcast(w)
    <2>1. Others(pc, pc')
      BY <1>2, <1>8 DEF RevertSnapshot, NoopRevert, CheckNonce, GateNonce, Consume, Broadcast
    <2> QED
      BY <1>8, <2>1
         DEF RevertSnapshot, NoopRevert, CheckNonce, GateNonce, Consume, Broadcast, Alone
  <1>9. CASE Start(w) \/ TakeSnapshot(w)
    BY <1>1, <1>9 DEF Start, TakeSnapshot, Goto, Alone
  <1>10. CASE Decide(w)
    <2>1. Others(pc, pc')
      BY <1>2, <1>10 DEF Decide
    <2>2. Others(decision, decision')
      BY <1>1, <1>10 DEF Decide
    <2> QED
      BY <1>10, <2>1, <2>2 DEF Decide, Alone
  <1> QED
    BY <1>5, <1>6, <1>7, <1>8, <1>9, <1>10 DEF Advances, Step

LEMMA TornStays ==
    ASSUME FloorInv, RestoreInv, NEW w \in Worker, Advances(w), used.torn
    PROVE  used'.torn
  <1>1. used.runs \in Nat /\ DOMAIN used = {"runs", "events", "faults", "torn"}
    BY DEF RestoreInv, RunInv
  <1>2. Start(w) => used'.torn
    BY <1>1 DEF Start
  <1>3. \A kind : Fault(kind) \/ TearingFault(kind) => used'.torn
    BY FaultsCounted DEF RestoreInv
  <1>4. TransportFails(w) \/ ResponseLost(w) \/ NoopRevert(w) => used'.torn
    BY <1>3 DEF TransportFails, ResponseLost, NoopRevert
  <1>5. Step(w) => used' = used
    BY DEF Step, CaptureBlock, CaptureNonce, SenderBefore, RecipientBefore, SenderAfter,
       RecipientAfter, CheckSender, CheckRecipient, GateBlock, GateBalance, Read, ResolveGas,
       TakeSnapshot, SimulateSend, PollReceipt, PollTimeout, RevertSnapshot, CheckNonce,
       Decide, GateNonce, Consume, Broadcast
  <1> QED
    BY <1>2, <1>4, <1>5 DEF Advances

\* A thread's call changes the node with its snapshot open, or it broadcasts.
LEMMA AdvancesTheNode ==
    ASSUME GateInv, FloorInv, NEW w \in Worker, Advances(w)
    PROVE  \/ UNCHANGED nodeVars
           \/ pc[w] \in InSnapshot \/ pc'[w] \in InSnapshot
           \/ /\ pc[w] = "send"
              /\ eth_sendTransaction(CandidateOf(w).transaction, OriginOf(w, "broadcast"))
  <1>1. DOMAIN pc = Worker
    BY DEF GateInv
  <1> USE DEF InSnapshot, InsideSnapshot
  <1>2. TakeSnapshot(w) => pc'[w] \in InSnapshot
    BY <1>1 DEF TakeSnapshot, Goto
  <1>3. SimulateSend(w) \/ RevertSnapshot(w) \/ NoopRevert(w) => pc[w] \in InSnapshot
    BY DEF SimulateSend, RevertSnapshot, NoopRevert, Goto
  <1>4. Start(w) \/ TransportFails(w) => UNCHANGED nodeVars
    BY DEF Start, TransportFails
  <1>5. \/ CaptureBlock(w) \/ CaptureNonce(w) \/ SenderBefore(w) \/ RecipientBefore(w)
        \/ SenderAfter(w) \/ RecipientAfter(w) \/ CheckSender(w) \/ CheckRecipient(w)
        \/ GateBlock(w) \/ GateBalance(w) \/ ResolveGas(w) \/ PollReceipt(w)
        \/ PollTimeout(w) \/ CheckNonce(w) \/ Decide(w) \/ GateNonce(w) \/ Consume(w)
        => UNCHANGED nodeVars
    BY DEF CaptureBlock, CaptureNonce, SenderBefore, RecipientBefore, SenderAfter,
       RecipientAfter, CheckSender, CheckRecipient, GateBlock, GateBalance, Read, ResolveGas,
       PollReceipt, PollTimeout, CheckNonce, Decide, GateNonce, Consume
  <1> QED
    BY <1>2, <1>3, <1>4, <1>5 DEF Advances, Step, ResponseLost, Broadcast

\* What a thread holds survives the calls of the others.
LEMMA OthersKeepHolding ==
    ASSUME GateInv, FloorInv, RestoreInv, ApartInv, Apart, Apart',
           NEW w \in Worker, Advances(w), NEW v \in Worker \ {w}
    PROVE  ThreadHolds(v)'
  <1>1. /\ pc'[v] = pc[v] /\ obs'[v] = obs[v]
        /\ req'[v] = req[v] /\ decision'[v] = decision[v]
    BY AdvancesAlone DEF Alone
  <1>2. used.torn => used'.torn
    BY TornStays
  <1>3. HoldInv(v) /\ HoldInv(w)
    BY DEF ApartInv, HoldInv
  <1>4. Sendable(v)' <=> Sendable(v)
    BY <1>1 DEF Sendable, CandidateOf
  <1>5. GateSaw(v)' = GateSaw(v)
    BY <1>1 DEF GateSaw, CandidateOf
  <1>6. CASE UNCHANGED nodeVars
    <2>1. chain' = chain /\ snapshots' = snapshots
      BY <1>6 DEF nodeVars
    <2>2. Undoable(v) => Undoable(v)'
      BY <1>1, <1>2, <2>1 DEF Undoable, Live
    <2>3. Covered(v) => Covered(v)'
      BY <1>1, <1>5, <2>1 DEF Covered
    <2> QED
      BY <1>1, <1>3, <1>4, <2>1, <2>2, <2>3 DEF HoldInv, ThreadHolds
  <1>7. CASE pc[w] \in InSnapshot \/ pc'[w] \in InSnapshot
    <2>1. pc[v] \notin Captured
      BY <1>1, <1>7 DEF Apart
    <2>2. pc[v] \notin InSnapshot /\ pc[v] \notin Accepting /\ pc[v] \notin Looked
      BY <2>1 DEF Captured, Locations, Calls, InSnapshot, InsideSnapshot, Accepting, Looked
    <2> QED
      BY <1>1, <2>1, <2>2 DEF ThreadHolds
  <1>8. CASE /\ pc[w] = "send"
             /\ eth_sendTransaction(CandidateOf(w).transaction, OriginOf(w, "broadcast"))
    <2>1. pc[w] \in Captured /\ pc[w] \in Accepting
      BY <1>8 DEF Captured, Locations, Calls, Accepting
    <2>2. /\ CandidateOf(w).transaction.fromAddress = Wallet
          /\ CandidateOf(w).transaction.nonce = obs[w].nonce
      BY <1>3, <2>1 DEF HoldInv, ThreadHolds, Sendable
    <2>3. /\ chain'.nonce = chain.nonce + 1 /\ chain.nonce \in Nat
          /\ snapshots' = snapshots
      BY <1>3, <1>8, <2>1, <2>2, SentIsMined
    <2>4. obs[v].nonce \in Nat
      BY DEF RestoreInv, RunInv
    <2>5. pc[v] \notin InSnapshot
      BY <2>1 DEF Apart
    <2>6. pc[v] \in Captured => obs[v].nonce <= chain.nonce
      BY <1>3 DEF HoldInv, ThreadHolds
    <2>7. pc[v] \in Looked => Covered(v)'
      <3>1. Looked \subseteq Captured
        BY DEF Looked, Captured, Locations, Calls
      <3>2. pc[v] \in Looked => chain'.nonce # obs'[v].nonce
        BY <1>1, <2>3, <2>4, <2>6, <3>1
      <3>3. pc[v] \in Looked => GateSaw(v) \in Int
        BY <1>3 DEF HoldInv, ThreadHolds, Covered
      <3> QED
        BY <1>5, <3>2, <3>3 DEF Covered
    <2>8. pc[v] \in Captured => obs'[v].nonce <= chain'.nonce
      BY <1>1, <2>3, <2>4, <2>6
    <2> QED
      BY <1>1, <1>3, <1>4, <2>5, <2>7, <2>8 DEF HoldInv, ThreadHolds
  <1> QED
    BY <1>6, <1>7, <1>8, AdvancesTheNode

LEMMA AdvancesKeepApartInv ==
    ASSUME GateInv, FloorInv, RestoreInv, ApartInv, Apart, Apart',
           NEW w \in Worker, Advances(w)
    PROVE  ApartInv'
  <1>1. HoldInv(w) /\ Alone(w)
    BY AdvancesAlone DEF ApartInv, HoldInv
  <1>2. CASE Step(w) \/ NoopRevert(w)
    <2>1. HoldInv(w)'
      BY <1>1, <1>2, ReadsKeepHoldInv, FallibleKeepHoldInv, SimulationKeepsHoldInv,
         RevertKeepsHoldInv, PlainKeepHoldInv, DecideKeepsHoldInv,
         SenderKeepsHoldInv DEF Step
    <2> QED
      BY <2>1, OthersKeepHolding DEF HoldInv, ApartInv
  <1>3. CASE Start(w) \/ TransportFails(w) \/ ResponseLost(w)
    <2>1. HoldInv(w)'
      BY <1>1, <1>3, PlainKeepHoldInv, FallibleKeepHoldInv, SenderKeepsHoldInv
    <2> QED
      BY <2>1, OthersKeepHolding DEF HoldInv, ApartInv
  <1> QED
    BY <1>2, <1>3 DEF Advances

LEMMA ApartStep ==
    GateInv /\ FloorInv /\ RestoreInv /\ Apart /\ Apart' /\ ApartInv /\ [Next]_vars
        => ApartInv'
  <1> SUFFICES ASSUME GateInv, FloorInv, RestoreInv, Apart, Apart', ApartInv, [Next]_vars
               PROVE  ApartInv'
    OBVIOUS
  <1>1. CASE \E w \in Worker : Advances(w)
    BY <1>1, AdvancesKeepApartInv
  <1>2. CASE UNCHANGED vars
    BY <1>2 DEF vars, workerVars, nodeVars, ApartInv, NodeHolds, ThreadHolds, Closed, Chains,
       Undoable, Live, Sendable, Covered, GateSaw, CandidateOf
  <1> QED
    BY <1>1, <1>2, EnvironmentKeepsApartInv DEF Next, Advances

LEMMA ApartInvariant == Spec /\ []Apart => []ApartInv
  <1>1. Spec => []GateInv
    BY GateInit, GateStep, PTL DEF Spec
  <1>2. Spec => [](GateInv /\ FloorInv)
    BY <1>1, FloorInit, FloorStep, PTL DEF Spec
  <1>3. Spec => [](GateInv /\ FloorInv /\ RestoreInv)
    BY <1>2, RestoreInit, RestoreStep, PTL DEF Spec
  <1> QED
    BY <1>3, ApartInit, ApartStep, PTL DEF Spec

\* For any number of threads: as long as none is past capturing the nonce while
\* another has its snapshot open, every transfer the gate let through succeeds
\* and leaves the wallet its floor, whatever owners, payers, faults and restarts
\* do in between; excepted are allowance spends behind the gate's last look
\* (core/execution_service.py:9-10, core/gate.py:58-66).
THEOREM ApartBroadcastsKeepFloor == Spec /\ []Apart => []BroadcastKeepsFloor
  <1>1. ApartInv => BroadcastKeepsFloor
    BY DEF ApartInv, NodeHolds, Chains, FloorsKept, FloorKept, BroadcastKeepsFloor
  <1> QED
    BY <1>1, ApartInvariant, PTL

\* Under the same condition nothing of a simulation stays behind unless the
\* revert itself was not carried out or the process died with its snapshot open:
\* the finally block finds its snapshot live (core/rpc_simulator.py:9, 294).
THEOREM ApartSimulationsLeaveNoTrace == Spec /\ []Apart => []SimulationLeavesNoTrace
  <1>1. ApartInv => SimulationLeavesNoTrace
    BY DEF ApartInv, NodeHolds, Closed, InSnapshot, InsideSnapshot, NoSimulation,
       SimulationLeavesNoTrace
  <1> QED
    BY <1>1, ApartInvariant, PTL

\* One execution at a time is apart from every other.
LEMMA LoneIsApart ==
    ASSUME NEW w, Worker = {w}
    PROVE  Apart
  BY DEF Apart

\* With one execution at a time every transfer the gate let through succeeds and
\* leaves the wallet its floor (core/execution_service.py:9-10, core/gate.py:58-66).
THEOREM LoneBroadcastsKeepFloor ==
    ASSUME NEW w, Worker = {w}
    PROVE  Spec => []BroadcastKeepsFloor
  BY LoneIsApart, ApartBroadcastsKeepFloor, PTL

\* With one execution at a time nothing of a simulation stays behind unless its
\* revert was not carried out (core/rpc_simulator.py:9, 294).
THEOREM LoneSimulationsLeaveNoTrace ==
    ASSUME NEW w, Worker = {w}
    PROVE  Spec => []SimulationLeavesNoTrace
  BY LoneIsApart, ApartSimulationsLeaveNoTrace, PTL

-----------------------------------------------------------------------------
(* Types.  A value fits into a word because something is counted.  Tokens:   *)
(* a transfer moves them from one holder to another, so the balances always  *)
(* add up to the supply (Supplied).  Nonces: an execution sends at most its  *)
(* simulation and its broadcast, and whatever it has not sent, or waits in   *)
(* the queue, has a nonce left under the bound (CountInv).  What a thread    *)
(* observes, simulates, judges and sends are words read from such a chain    *)
(* (TypeInv).                                                                *)

\* How many hold the token.
Holders == Cardinality(Account)

\* Addresses are addresses, and a block is known by the blocks up to it.
Addressed ==
    /\ Account \cup {Token} \subseteq Address /\ NodeChain \in Chain
    /\ Seq(BlockBody) \subseteq Block

\* The supply of the token, and as many nonces as the bounds allow, fit into a
\* word.
InWords ==
    /\ IsFiniteSet(Account) /\ Holders * StartBalance <= MaxUint
    /\ 2 * MaxRuns + MaxEvents <= MaxUint

\* e lists the holders, and P adds their balances up, holder by holder.
Lists(e) ==
    /\ e \in [1 .. Holders -> Account]
    /\ \A a \in Account : \E k \in 1 .. Holders : e[k] = a
    /\ \A j, k \in 1 .. Holders : e[j] = e[k] => j = k
AddsUp(b, e, P) ==
    /\ P \in [0 .. Holders -> Nat]
    /\ \A k \in 1 .. Holders : P[k] = P[k - 1] + b[e[k]]
    /\ \A j, k \in 0 .. Holders : j <= k => P[j] <= P[k]
    /\ P[Holders] <= MaxUint

\* The balances are amounts, and together they fit into a word.
Supplied(b) ==
    /\ b \in [Account -> UInt]
    /\ \E e, P : Lists(e) /\ AddsUp(b, e, P)

LEMMA SupplyAtGenesis ==
    ASSUME InWords
    PROVE  Supplied(Genesis.balances)
  <1> DEFINE b == Genesis.balances
             P == [k \in 0 .. Holders |-> k * StartBalance]
             S == StartBalance
  <1>1. Holders \in Nat /\ S \in Nat /\ S <= MaxUint /\ MaxUint \in Nat
    BY FS_CardinalityType, NodeAssumption, MaxUintAssumption DEF InWords, Holders, UInt
  <1>2. b = [a \in Account |-> S] /\ b \in [Account -> UInt]
    BY NodeAssumption DEF Genesis
  <1>3. PICK e \in Bijection(1 .. Holders, Account) : TRUE
    <2>1. \E n \in Nat : ExistsBijection(1 .. n, Account) /\ n = Holders
      BY FS_CountingElements, FS_CardinalityType DEF InWords, Holders
    <2> QED
      BY <2>1 DEF ExistsBijection
  <1>4. Lists(e)
    BY <1>3 DEF Lists, Bijection, Injection, Surjection, IsInjective
  <1>5. \A k \in Nat : k * S \in Nat
    BY <1>1
  <1>6. \A k \in 1 .. Holders : k * S = (k - 1) * S + S
    BY <1>1
  <1>7. \A j, k \in 0 .. Holders : j <= k => j * S <= k * S
    <2> SUFFICES ASSUME NEW j \in 0 .. Holders, NEW k \in 0 .. Holders, j <= k PROVE j * S <= k * S
      OBVIOUS
    <2> DEFINE d == k - j
    <2>1. d \in Nat /\ k = j + d
      BY <1>1
    <2>2. d * S \in Nat /\ j * S \in Nat
      BY <1>1, <1>5, <2>1
    <2> HIDE DEF d
    <2>3. (j + d) * S = j * S + d * S
      BY <1>1, <2>1
    <2> QED
      BY <2>1, <2>2, <2>3
  <1>8. Holders * S <= MaxUint
    BY DEF InWords
  <1>9. AddsUp(b, e, P)
    <2>1. P \in [0 .. Holders -> Nat]
      BY <1>1, <1>5
    <2>2. \A k \in 1 .. Holders : b[e[k]] = S /\ k - 1 \in 0 .. Holders /\ k \in 0 .. Holders
      BY <1>1, <1>2, <1>4 DEF Lists
    <2>3. Holders \in 0 .. Holders
      BY <1>1
    <2> HIDE DEF b, S
    <2> QED
      BY <1>6, <1>7, <1>8, <2>1, <2>2, <2>3 DEF AddsUp, S
  <1> QED
    BY <1>2, <1>4, <1>9 DEF Supplied

LEMMA SupplyMoved ==
    ASSUME InWords, NEW b, Supplied(b), NEW from \in Account, NEW to \in Account,
           NEW amount \in Nat, amount <= b[from]
    PROVE  Supplied(Moved(b, from, to, amount))
  <1> DEFINE c == Moved(b, from, to, amount)
  <1>1. Holders \in Nat /\ MaxUint \in Nat
    BY FS_CardinalityType, MaxUintAssumption DEF InWords, Holders
  <1>2. PICK e, P : Lists(e) /\ AddsUp(b, e, P)
    BY DEF Supplied
  <1>3. PICK i \in 1 .. Holders, j \in 1 .. Holders : e[i] = from /\ e[j] = to
    BY <1>2 DEF Lists
  <1>4. \A a \in Account : b[a] \in Nat
    BY <1>1 DEF Supplied, UInt
  <1>5. /\ \A k \in 0 .. Holders : P[k] \in Nat
        /\ \A k \in 1 .. Holders : k - 1 \in 0 .. Holders /\ k \in 0 .. Holders /\ e[k] \in Account
                             /\ P[k] = P[k - 1] + b[e[k]]
        /\ \A h, k \in 0 .. Holders : h <= k => P[h] <= P[k]
        /\ P[Holders] <= MaxUint
    BY <1>1, <1>2 DEF Lists, AddsUp
  <1> DEFINE Less(k) == IF i <= k THEN amount ELSE 0
             More(k) == IF j <= k THEN amount ELSE 0
             Q == [k \in 0 .. Holders |-> P[k] - Less(k) + More(k)]
  <1>6. P[i] - P[i - 1] >= amount /\ P[i - 1] \in Nat /\ P[i] \in Nat
    BY <1>3, <1>4, <1>5
  <1>7. \A h, k \in 0 .. Holders : h < i /\ i <= k => P[k] - P[h] >= amount
    <2> SUFFICES ASSUME NEW h \in 0 .. Holders, NEW k \in 0 .. Holders, h < i, i <= k
                 PROVE  P[k] - P[h] >= amount
      OBVIOUS
    <2>1. i - 1 \in 0 .. Holders /\ i \in 0 .. Holders /\ h <= i - 1
      BY <1>1
    <2>2. P[h] <= P[i - 1] /\ P[i] <= P[k]
      BY <1>5, <2>1
    <2>3. P[h] \in Nat /\ P[k] \in Nat
      BY <1>5
    <2> QED
      BY <1>6, <2>2, <2>3
  <1>8. \A h, k \in 0 .. Holders : h <= k => Q[h] <= Q[k]
    <2> SUFFICES ASSUME NEW h \in 0 .. Holders, NEW k \in 0 .. Holders, h <= k PROVE Q[h] <= Q[k]
      OBVIOUS
    <2>1. P[h] <= P[k] /\ P[h] \in Nat /\ P[k] \in Nat
      BY <1>5
    <2>2. /\ Q[h] = P[h] - Less(h) + More(h)
          /\ Q[k] = P[k] - Less(k) + More(k)
      OBVIOUS
    <2>3. h < i /\ i <= k => P[k] - P[h] >= amount
      BY <1>7
    <2> HIDE DEF Q
    <2> QED
      BY <2>1, <2>2, <2>3
  <1>9. \A k \in 0 .. Holders : Q[k] \in Nat
    <2> SUFFICES ASSUME NEW k \in 0 .. Holders PROVE Q[k] \in Nat
      OBVIOUS
    <2>1. 0 \in 0 .. Holders /\ 0 < i /\ P[0] \in Nat /\ P[k] \in Nat
      BY <1>1, <1>5
    <2>2. i <= k => P[k] - P[0] >= amount
      BY <1>7, <2>1
    <2>3. Q[k] = P[k] - Less(k) + More(k)
      OBVIOUS
    <2> HIDE DEF Q
    <2> QED
      BY <2>1, <2>2, <2>3
  <1>10. \A k \in 1 .. Holders : Q[k] = Q[k - 1] + c[e[k]]
    <2> SUFFICES ASSUME NEW k \in 1 .. Holders PROVE Q[k] = Q[k - 1] + c[e[k]]
      OBVIOUS
    <2>1. (e[k] = from <=> k = i) /\ (e[k] = to <=> k = j)
      BY <1>2, <1>3 DEF Lists
    <2>2. /\ k - 1 \in 0 .. Holders /\ k \in 0 .. Holders /\ e[k] \in Account /\ P[k] = P[k - 1] + b[e[k]]
          /\ P[k] \in Nat /\ P[k - 1] \in Nat /\ b[e[k]] \in Nat
      BY <1>4, <1>5
    <2>3. c[e[k]] = b[e[k]] - (IF k = i THEN amount ELSE 0) + (IF k = j THEN amount ELSE 0)
      BY <2>1, <2>2 DEF Moved
    <2>4. /\ Q[k] = P[k] - Less(k) + More(k)
          /\ Q[k - 1] = P[k - 1] - Less(k - 1) + More(k - 1)
      BY <2>2
    <2> HIDE DEF Q, c
    <2> QED
      BY <2>2, <2>3, <2>4
  <1>11. Q[Holders] <= MaxUint
    <2>1. Holders \in 0 .. Holders /\ i <= Holders /\ j <= Holders
      BY <1>1
    <2>2. Q[Holders] = P[Holders] - amount + amount /\ P[Holders] \in Nat
      BY <1>5, <2>1
    <2> HIDE DEF Q
    <2> QED
      BY <1>5, <2>2
  <1>12. Q = [k \in 0 .. Holders |-> Q[k]]
    OBVIOUS
  <1>13. AddsUp(c, e, Q)
    <2> HIDE DEF Q, c
    <2>1. Q \in [0 .. Holders -> Nat]
      BY <1>9, <1>12
    <2> QED
      BY <1>8, <1>10, <1>11, <2>1 DEF AddsUp
  <1>14. c \in [Account -> UInt]
    <2>1. ASSUME NEW a \in Account PROVE c[a] \in UInt
      <3>1. PICK k \in 1 .. Holders : e[k] = a
        BY <1>2 DEF Lists
      <3>2. k - 1 \in 0 .. Holders /\ k \in 0 .. Holders /\ Holders \in 0 .. Holders /\ k <= Holders /\ k - 1 <= k
        BY <1>1
      <3>3. /\ Q[k] = Q[k - 1] + c[a] /\ Q[k] \in Nat /\ Q[k - 1] \in Nat /\ Q[Holders] \in Nat
            /\ Q[k - 1] <= Q[k] /\ Q[k] <= Q[Holders]
        <4> HIDE DEF Q, c
        <4> QED
          BY <1>8, <1>9, <1>10, <3>1, <3>2
      <3>4. c[a] \in Int
        BY <1>4 DEF Moved
      <3> HIDE DEF Q, c
      <3> QED
        BY <1>1, <1>11, <3>3, <3>4 DEF UInt
    <2>2. c = [a \in Account |-> c[a]]
      BY DEF Moved
    <2> HIDE DEF c
    <2> QED
      BY <2>1, <2>2
  <1> HIDE DEF c, Q
  <1> QED
    BY <1>2, <1>13, <1>14 DEF Supplied, c

\* Calls made before the simulated transaction is sent.
BeforeSimulation == {"block", "nonce", "gas", "snapshot", "senderBefore",
                     "recipientBefore", "simSend"}

\* The transactions of an execution that the node has not got yet.
Due(p, run) ==
    (IF p \in BeforeSimulation THEN {<<"simulation", run>>} ELSE {})
        \cup (IF p # "idle" THEN {<<"broadcast", run>>} ELSE {})
Waiting(q) == <<q.origin.kind, q.origin.run>>

\* The nonces that may still be used: one for each transaction a thread has not
\* sent yet, and for each that waits in the queue.
OwedByThreads == UNION {Due(pc[w], obs[w].run) : w \in Worker}
OwedByQueue == {Waiting(q) : q \in queue}
Owed == OwedByThreads \cup OwedByQueue

\* Together with the nonces already used they are two per execution, and one
\* per transfer of the owner.
Fits(owed, nonce, u) ==
    /\ IsFiniteSet(owed)
    /\ u.runs \in Nat /\ u.events \in Nat
    /\ nonce + Cardinality(owed) <= 2 * u.runs + u.events

\* What waits was sent for one execution, once, and its thread is past sending it.
QueueInv ==
    /\ \A q \in queue : /\ q.origin.kind \in {"simulation", "broadcast"}
                       /\ q.origin.run \in Nat /\ q.origin.run <= used.runs
    /\ \A q, r \in queue : Waiting(q) = Waiting(r) => q = r
    /\ \A q \in queue, w \in Worker : Waiting(q) \notin Due(pc[w], obs[w].run)

CountInv == Fits(Owed, chain.nonce, used) /\ QueueInv

LEMMA DueMeans ==
    ASSUME NEW p, NEW run
    PROVE  /\ \A t \in Due(p, run) : t[2] = run /\ p # "idle"
           /\ <<"simulation", run>> \in Due(p, run) <=> p \in BeforeSimulation
           /\ <<"broadcast", run>> \in Due(p, run) <=> p # "idle"
           /\ \A t \in Due(p, run) : t \in {<<"simulation", run>>, <<"broadcast", run>>}
  BY DEF Due, BeforeSimulation

LEMMA FitsLess ==
    ASSUME NEW owed, NEW less \in SUBSET owed, NEW n \in Nat, NEW m \in Nat, m <= n,
           NEW u, NEW v, v.runs = u.runs, v.events = u.events, Fits(owed, n, u)
    PROVE  Fits(less, m, v)
  <1>1. IsFiniteSet(less) /\ Cardinality(less) <= Cardinality(owed)
    BY FS_Subset DEF Fits
  <1>2. Cardinality(less) \in Nat /\ Cardinality(owed) \in Nat
    BY <1>1, FS_CardinalityType DEF Fits
  <1> QED
    BY <1>1, <1>2 DEF Fits

LEMMA FitsSpent ==
    ASSUME NEW owed, NEW t \in owed, NEW less \in SUBSET (owed \ {t}),
           NEW n \in Nat, NEW m \in Nat, m <= n + 1,
           NEW u, NEW v, v.runs = u.runs, v.events = u.events, Fits(owed, n, u)
    PROVE  Fits(less, m, v)
  <1>1. IsFiniteSet(owed \ {t}) /\ Cardinality(owed \ {t}) = Cardinality(owed) - 1
    BY FS_RemoveElement DEF Fits
  <1>2. IsFiniteSet(less) /\ Cardinality(less) <= Cardinality(owed \ {t})
    BY <1>1, FS_Subset
  <1>3. Cardinality(less) \in Nat /\ Cardinality(owed) \in Nat
    BY <1>2, FS_CardinalityType DEF Fits
  <1> QED
    BY <1>1, <1>2, <1>3 DEF Fits

LEMMA FitsStarted ==
    ASSUME NEW owed, NEW s, NEW t, NEW more \in SUBSET (owed \cup {s, t}),
           NEW n \in Nat,
           NEW u, NEW v, v.runs = u.runs + 1, v.events = u.events, Fits(owed, n, u)
    PROVE  Fits(more, n, v)
  <1>1. /\ IsFiniteSet(owed \cup {s}) /\ Cardinality(owed \cup {s}) <= Cardinality(owed) + 1
        /\ Cardinality(owed) \in Nat
    <2>1. IsFiniteSet(owed) /\ Cardinality(owed) \in Nat
      BY FS_CardinalityType DEF Fits
    <2>2. /\ IsFiniteSet(owed \cup {s})
          /\ Cardinality(owed \cup {s}) \in {Cardinality(owed), Cardinality(owed) + 1}
      BY <2>1, FS_AddElement
    <2> QED
      BY <2>1, <2>2
  <1>2. /\ IsFiniteSet((owed \cup {s}) \cup {t})
        /\ Cardinality((owed \cup {s}) \cup {t}) <= Cardinality(owed) + 2
    <2> DEFINE o == owed \cup {s}
    <2> HIDE DEF o
    <2>1. IsFiniteSet(o) /\ Cardinality(o) \in Nat /\ Cardinality(o) <= Cardinality(owed) + 1
      BY <1>1, FS_CardinalityType DEF o
    <2>2. IsFiniteSet(o \cup {t}) /\ Cardinality(o \cup {t}) \in {Cardinality(o), Cardinality(o) + 1}
      BY <2>1, FS_AddElement
    <2> QED
      BY <1>1, <2>1, <2>2 DEF o
  <1>3. more \subseteq (owed \cup {s}) \cup {t}
    OBVIOUS
  <1>4. /\ IsFiniteSet(more)
        /\ Cardinality(more) <= Cardinality((owed \cup {s}) \cup {t})
    BY <1>2, <1>3, FS_Subset
  <1>5. Cardinality(more) \in Nat /\ Cardinality((owed \cup {s}) \cup {t}) \in Nat
    BY <1>2, <1>4, FS_CardinalityType
  <1> QED
    BY <1>1, <1>2, <1>4, <1>5 DEF Fits

LEMMA FitsEvent ==
    ASSUME NEW owed, NEW less \in SUBSET owed, NEW n \in Nat, NEW m \in Nat, m <= n + 1,
           NEW u, NEW v, v.runs = u.runs, v.events = u.events + 1, Fits(owed, n, u)
    PROVE  Fits(less, m, v)
  <1>1. IsFiniteSet(less) /\ Cardinality(less) <= Cardinality(owed)
    BY FS_Subset DEF Fits
  <1>2. Cardinality(less) \in Nat /\ Cardinality(owed) \in Nat
    BY <1>1, FS_CardinalityType DEF Fits
  <1> QED
    BY <1>1, <1>2 DEF Fits

\* What is owed, now and after the step.
LEMMA OwedMeans ==
    ASSUME NEW t
    PROVE  /\ t \in Owed <=> \/ \E v \in Worker : t \in Due(pc[v], obs[v].run)
                           \/ \E q \in queue : t = Waiting(q)
           /\ t \in Owed' <=> \/ \E v \in Worker : t \in Due(pc'[v], obs'[v].run)
                            \/ \E q \in queue' : t = Waiting(q)
  <1>1. /\ t \in OwedByThreads <=> \E v \in Worker : t \in Due(pc[v], obs[v].run)
        /\ t \in OwedByThreads' <=> \E v \in Worker : t \in Due(pc'[v], obs'[v].run)
    BY DEF OwedByThreads
  <1>2. /\ t \in OwedByQueue <=> \E q \in queue : t = Waiting(q)
        /\ t \in OwedByQueue' <=> \E q \in queue' : t = Waiting(q)
    BY DEF OwedByQueue
  <1> QED
    BY <1>1, <1>2 DEF Owed

\* Threads that send nothing owe no more than before.
LEMMA OwedKept ==
    ASSUME QueueInv, queue' \subseteq queue, used'.runs = used.runs,
           \A v \in Worker : Due(pc'[v], obs'[v].run) \subseteq Due(pc[v], obs[v].run)
    PROVE  QueueInv' /\ Owed' \subseteq Owed
  <1> HIDE DEF Due, Waiting
  <1>1. QueueInv'
    BY DEF QueueInv
  <1>2. \A t \in Owed' : t \in Owed
    BY OwedMeans
  <1> QED
    BY <1>1, <1>2

\* A thread sends a transaction: it is mined, and its nonce used, or it waits.
LEMMA OwedSent ==
    ASSUME RunInv, QueueInv, NEW w \in Worker, NEW tx, NEW origin,
           eth_sendTransaction(tx, origin), used'.runs = used.runs,
           origin.kind \in {"simulation", "broadcast"}, origin.run = obs[w].run,
           <<origin.kind, origin.run>> \in Due(pc[w], obs[w].run),
           Due(pc'[w], obs'[w].run) \subseteq Due(pc[w], obs[w].run) \ {<<origin.kind, origin.run>>},
           \A v \in Worker \ {w} : pc'[v] = pc[v] /\ obs'[v].run = obs[v].run
    PROVE  /\ QueueInv'
           /\ <<origin.kind, origin.run>> \in Owed
           /\ \/ Owed' \subseteq Owed /\ chain' = chain
              \/ Owed' \subseteq Owed \ {<<origin.kind, origin.run>>}
  <1> DEFINE t == <<origin.kind, origin.run>>
             new == [tx |-> tx, origin |-> origin]
  <1>1. t \in Owed
    <2> HIDE DEF t
    <2> QED
      BY OwedMeans DEF t
  <1>2. Waiting(new) = t /\ new.origin = origin
    BY DEF Waiting
  <1>3. ASSUME NEW v \in Worker, v # w PROVE t \notin Due(pc[v], obs[v].run)
    <2>1. ASSUME t \in Due(pc[v], obs[v].run) PROVE FALSE
      <3>1. t \in Due(pc[w], obs[w].run) /\ t[2] = origin.run
        OBVIOUS
      <3>2. pc[v] # "idle" /\ t[2] = obs[v].run
        <4>1. \A x \in Due(pc[v], obs[v].run) : x[2] = obs[v].run /\ pc[v] # "idle"
          BY DEF Due, BeforeSimulation
        <4> HIDE DEF t
        <4> QED
          BY <2>1, <4>1
      <3>3. pc[w] # "idle"
        <4> HIDE DEF t
        <4> QED
          BY <3>1, DueMeans
      <3> QED
        BY <1>3, <3>1, <3>2, <3>3 DEF RunInv
    <2> QED
      BY <2>1
  <1>4. /\ \A v \in Worker : Due(pc'[v], obs'[v].run) \subseteq Due(pc[v], obs[v].run)
        /\ \A v \in Worker : t \notin Due(pc'[v], obs'[v].run)
    BY <1>3
  <1>5. \A q \in queue : Waiting(q) # t
    BY DEF QueueInv
  <1>6. origin.run \in Nat /\ origin.run <= used.runs
    BY DEF RunInv
  <1> HIDE DEF t, new, Due, Waiting
  <1>7. CASE queue' = queue
    <2>1. QueueInv' /\ Owed' \subseteq Owed
      BY <1>4, <1>7, OwedKept
    <2>2. t \notin Owed'
      BY <1>4, <1>5, <1>7, OwedMeans
    <2> QED
      BY <1>1, <2>1, <2>2 DEF t
  <1>8. CASE queue' = queue \cup {new} /\ chain' = chain
    <2>1. \A q \in queue' : q \in queue \/ q = new
      BY <1>8
    <2>2. QueueInv'
      <3>1. \A q \in queue' : /\ q.origin.kind \in {"simulation", "broadcast"}
                              /\ q.origin.run \in Nat /\ q.origin.run <= used'.runs
        BY <1>2, <1>6, <2>1 DEF QueueInv
      <3>2. \A q, r \in queue' : Waiting(q) = Waiting(r) => q = r
        BY <1>2, <1>5, <2>1 DEF QueueInv
      <3>3. \A q \in queue', v \in Worker : Waiting(q) \notin Due(pc'[v], obs'[v].run)
        BY <1>2, <1>4, <2>1 DEF QueueInv
      <3> QED
        BY <3>1, <3>2, <3>3 DEF QueueInv
    <2>3. Owed' \subseteq Owed
      <3>1. ASSUME NEW x \in Owed' PROVE x \in Owed
        <4>1. CASE \E v \in Worker : x \in Due(pc'[v], obs'[v].run)
          BY <1>4, <4>1, OwedMeans
        <4>2. CASE \E q \in queue' : x = Waiting(q)
          BY <1>1, <1>2, <2>1, <4>2, OwedMeans
        <4> QED
          BY <3>1, <4>1, <4>2, OwedMeans
      <3> QED
        BY <3>1
    <2> QED
      BY <1>1, <1>8, <2>2, <2>3 DEF t
  <1> QED
    BY <1>7, <1>8 DEF eth_sendTransaction, new

\* A thread that goes from p to q sends nothing it had sent.
Onward(p, q) ==
    \/ q = "idle"
    \/ p # "idle" /\ (q \in BeforeSimulation => p \in BeforeSimulation)

LEMMA OnwardOwesLess ==
    ASSUME NEW p, NEW q, NEW run, Onward(p, q)
    PROVE  Due(q, run) \subseteq Due(p, run)
  BY DEF Onward, Due, BeforeSimulation

\* The wallet's nonce on the chain is a number.
LEMMA ChainNonce == NodeInv => chain.nonce \in Nat
  BY DEF NodeInv, Chains, Ledger

\* A step in which nothing is sent and no execution starts.
LEMMA QuietKeepsCountInv ==
    ASSUME NodeInv, NodeInv', CountInv, queue' \subseteq queue,
           chain'.nonce <= chain.nonce,
           used'.runs = used.runs, used'.events = used.events,
           \A v \in Worker : Onward(pc[v], pc'[v]) /\ obs'[v].run = obs[v].run
    PROVE  CountInv'
  <1>1. \A v \in Worker : Due(pc'[v], obs'[v].run) \subseteq Due(pc[v], obs[v].run)
    <2> HIDE DEF Due, Onward
    <2> QED
      BY OnwardOwesLess
  <1>2. QueueInv' /\ Owed' \subseteq Owed
    BY <1>1, OwedKept DEF CountInv
  <1>3. chain'.nonce \in Nat
    BY DEF NodeInv, Chains, Ledger
  <1>4. Fits(Owed', chain'.nonce, used')
    BY <1>2, <1>3, ChainNonce, FitsLess DEF CountInv
  <1> QED
    BY <1>2, <1>4 DEF CountInv

\* A thread sends a transaction of its execution, at the wallet's nonce or ahead.
LEMMA SendingKeepsCountInv ==
    ASSUME NodeInv, RunInv, CountInv, NEW w \in Worker, NEW tx, NEW origin,
           eth_sendTransaction(tx, origin),
           used'.runs = used.runs, used'.events = used.events,
           origin.run = obs[w].run, obs'[w].run = obs[w].run,
           \/ origin.kind = "simulation" /\ pc[w] = "simSend" /\ pc'[w] \notin BeforeSimulation
           \/ origin.kind = "broadcast" /\ pc[w] = "send" /\ pc'[w] = "idle",
           \A v \in Worker \ {w} : pc'[v] = pc[v] /\ obs'[v].run = obs[v].run
    PROVE  CountInv'
  <1> DEFINE t == <<origin.kind, origin.run>>
  <1>1. /\ origin.kind \in {"simulation", "broadcast"}
        /\ t \in Due(pc[w], obs[w].run)
        /\ Due(pc'[w], obs'[w].run) \subseteq Due(pc[w], obs[w].run) \ {t}
    BY DEF Due, BeforeSimulation
  <1>2. /\ QueueInv' /\ t \in Owed
        /\ \/ Owed' \subseteq Owed /\ chain' = chain
           \/ Owed' \subseteq Owed \ {t}
    BY <1>1, OwedSent DEF CountInv
  <1>3. chain'.nonce \in Nat /\ chain'.nonce <= chain.nonce + 1 /\ chain.nonce \in Nat
    <2>1. chain' = chain \/ \E s : chain' = Mined(chain, tx, origin, s)
      BY DEF eth_sendTransaction
    <2>2. \A s : Mined(chain, tx, origin, s).nonce \in {chain.nonce, chain.nonce + 1}
      BY DEF Mined
    <2>3. chain'.nonce \in {chain.nonce, chain.nonce + 1}
      BY <2>1, <2>2
    <2> QED
      BY <2>3, ChainNonce
  <1> HIDE DEF t
  <1>4. Fits(Owed', chain'.nonce, used')
    <2>1. CASE Owed' \subseteq Owed /\ chain' = chain
      BY <1>3, <2>1, FitsLess DEF CountInv
    <2>2. CASE Owed' \subseteq Owed \ {t}
      BY <1>2, <1>3, <2>2, FitsSpent DEF CountInv
    <2> QED
      BY <1>2, <2>1, <2>2
  <1> QED
    BY <1>2, <1>4 DEF CountInv

\* What waits is mined: it has used its nonce.
LEMMA MineQueuedKeepsCountInv ==
    ASSUME NodeInv, CountInv, MineQueued, UNCHANGED <<pc, obs, used>>
    PROVE  CountInv'
  <1>1. PICK q \in queue : /\ \E s \in Stamps : chain' = Mined(chain, q.tx, q.origin, s)
                           /\ queue' = queue \ {q}
    BY DEF MineQueued
  <1>2. QueueInv' /\ Owed' \subseteq Owed
    BY <1>1, OwedKept DEF CountInv
  <1>3. Waiting(q) \in Owed
    BY OwedMeans
  <1>4. Waiting(q) \notin Owed'
    <2> DEFINE t == Waiting(q)
    <2>1. \A r \in queue' : t # Waiting(r)
      BY <1>1 DEF CountInv, QueueInv
    <2>2. \A v \in Worker : t \notin Due(pc'[v], obs'[v].run)
      BY DEF CountInv, QueueInv
    <2> HIDE DEF t
    <2>3. t \notin Owed'
      BY <2>1, <2>2, OwedMeans
    <2> QED
      BY <2>3 DEF t
  <1>5. chain.nonce \in Nat /\ chain'.nonce \in Nat /\ chain'.nonce <= chain.nonce + 1
    <2>1. \A s : Mined(chain, q.tx, q.origin, s).nonce \in {chain.nonce, chain.nonce + 1}
      BY DEF Mined
    <2>2. chain'.nonce \in {chain.nonce, chain.nonce + 1}
      BY <1>1, <2>1
    <2> QED
      BY <2>2, ChainNonce
  <1>6. Fits(Owed', chain'.nonce, used')
    <2>1. Owed' \subseteq Owed \ {Waiting(q)}
      BY <1>2, <1>4
    <2> QED
      BY <1>3, <1>5, <2>1, FitsSpent DEF CountInv
  <1> QED
    BY <1>2, <1>6 DEF CountInv

\* An execution starts: it has two transactions to send.
LEMMA StartKeepsCountInv ==
    ASSUME GateInv, FloorInv, NodeInv, RunInv, CountInv, NEW w \in Worker, Start(w)
    PROVE  CountInv'
  <1> DEFINE run == used.runs + 1
             s == <<"simulation", run>>
             t == <<"broadcast", run>>
  <1>1. /\ UNCHANGED <<chain, queue>>
        /\ pc[w] = "idle" /\ pc'[w] = "block" /\ obs'[w].run = run
        /\ \A v \in Worker \ {w} : pc'[v] = pc[v] /\ obs'[v] = obs[v]
        /\ used'.runs = run /\ used'.events = used.events
    BY DEF Start, Goto, nodeVars, Nothing, GateInv, FloorInv, RunInv
  <1>2. Due(pc'[w], obs'[w].run) = {s, t}
    BY <1>1 DEF Due, BeforeSimulation
  <1>3. run \in Nat /\ used.runs \in Nat /\ used.runs < run
    BY DEF RunInv
  <1>4. \A q \in queue : Waiting(q) # s /\ Waiting(q) # t
    BY <1>3 DEF CountInv, QueueInv, Waiting
  <1>5. QueueInv'
    <2>1. ASSUME NEW q \in queue', NEW v \in Worker
          PROVE  Waiting(q) \notin Due(pc'[v], obs'[v].run)
      BY <1>1, <1>2, <1>4 DEF CountInv, QueueInv
    <2>2. \A q \in queue' : /\ q.origin.kind \in {"simulation", "broadcast"}
                            /\ q.origin.run \in Nat /\ q.origin.run <= used'.runs
      BY <1>1, <1>3 DEF CountInv, QueueInv
    <2>3. \A q, r \in queue' : Waiting(q) = Waiting(r) => q = r
      BY <1>1 DEF CountInv, QueueInv
    <2> QED
      BY <2>1, <2>2, <2>3 DEF QueueInv
  <1> HIDE DEF s, t
  <1>6. \A x \in Owed' : x \in Owed \cup {s, t}
    BY <1>1, <1>2, OwedMeans
  <1>7. Fits(Owed', chain'.nonce, used')
    BY <1>1, <1>6, ChainNonce, FitsStarted DEF CountInv
  <1> QED
    BY <1>5, <1>7 DEF CountInv

\* The owner, a payer or a spender uses the node: at most one nonce is used.
LEMMA EventKeepsCountInv ==
    ASSUME GateInv, FloorInv, NodeInv, RunInv, CountInv,
           OwnTransfer \/ IncomingTransfer \/ AllowanceSpend
    PROVE  CountInv'
  <1>1. /\ UNCHANGED <<queue, pc>>
        /\ used'.runs = used.runs /\ used'.events = used.events + 1
        /\ \E tx, s : chain' = Mined(chain, tx, External, s)
    BY DEF OwnTransfer, IncomingTransfer, AllowanceSpend, Event, RunInv
  <1>2. \A v \in Worker : obs'[v].run = obs[v].run
    <2>1. \A v \in Worker : [obs[v] EXCEPT !.drained = TRUE].run = obs[v].run
      BY RecordSameRun DEF FloorInv, SameRun
    <2>2. \A v \in Worker : obs'[v] = obs[v] \/ obs'[v] = [obs[v] EXCEPT !.drained = TRUE]
      BY DEF OwnTransfer, IncomingTransfer, AllowanceSpend
    <2> QED
      BY <2>1, <2>2
  <1>3. QueueInv' /\ Owed' \subseteq Owed
    BY <1>1, <1>2, OwedKept DEF CountInv
  <1>4. chain.nonce \in Nat /\ chain'.nonce \in Nat /\ chain'.nonce <= chain.nonce + 1
    <2>1. \A tx, s : Mined(chain, tx, External, s).nonce \in {chain.nonce, chain.nonce + 1}
      BY DEF Mined
    <2>2. chain'.nonce \in {chain.nonce, chain.nonce + 1}
      BY <1>1, <2>1
    <2> QED
      BY <2>2, ChainNonce
  <1>5. Fits(Owed', chain'.nonce, used')
    BY <1>1, <1>3, <1>4, FitsEvent DEF CountInv
  <1> QED
    BY <1>3, <1>5 DEF CountInv

\* What a thread observes, in words.
Words == [run : Nat, block : Seq(BlockBody), nonce : UInt, gas : UInt,
          snapshot : Nat, senderBefore : UInt, recipientBefore : UInt,
          senderAfter : UInt, recipientAfter : UInt, failed : BOOLEAN,
          restoredSender : UInt, restoredRecipient : UInt,
          gateBlock : Seq(BlockBody), gateBalance : UInt, drained : BOOLEAN]

\* A chain is typed, and the balances on it are a part of the token's supply.
Typed(c) == c \in ChainState /\ Supplied(c.balances)

\* A transaction between holders of the token.
Pays(tx) == tx \in Transaction /\ Payer(tx) \in Account /\ tx.data.recipient \in Account

NodeTyped ==
    /\ \A c \in Chains : Typed(c)
    /\ \A q \in queue : Pays(q.tx) /\ q.origin \in Origin

Outcomes == {"none", "running", "sent", "rejected", "error"}

\* What is accepted is a decision about such a transaction.
Decided(d) == d \in Decision /\ Pays(d.candidateSha256.transaction)

ThreadsTyped ==
    /\ pc \in [Worker -> Locations]
    /\ req \in [Worker -> Request]
    /\ obs \in [Worker -> Words]
    /\ decision \in [Worker -> Decision \cup {NoDecision}]
    /\ result \in [Worker -> Outcomes]
    /\ \A w \in Worker : pc[w] \in Accepting => Decided(decision[w])

GateTyped == consumed \subseteq Decision /\ sent \in Seq(Decision)

UsedTyped == used \in [runs : 0 .. MaxRuns, events : 0 .. MaxEvents,
                       faults : 0 .. MaxFaults, torn : BOOLEAN]

TypeInv == NodeTyped /\ ThreadsTyped /\ GateTyped /\ UsedTyped

LEMMA WordNumbers ==
    /\ UInt \subseteq Nat /\ 0 \in UInt
    /\ TransferGas \in UInt /\ EventAmount \in UInt
  BY MaxUintAssumption, NodeAssumption, ExecutionAssumption DEF UInt

LEMMA NothingInWords ==
    ASSUME NEW run \in Nat
    PROVE  Nothing(run) \in Words /\ Nothing(run).run = run
  <1>1. <<>> \in Seq(BlockBody) /\ 0 \in UInt
    BY WordNumbers
  <1> QED
    BY <1>1 DEF Nothing, Words

\* A word recorded as an observation leaves the observations words.
LEMMA RecordWord ==
    ASSUME NEW o \in Words, NEW v \in UInt
    PROVE  /\ [o EXCEPT !.nonce = v] \in Words /\ [o EXCEPT !.nonce = v].run = o.run
           /\ [o EXCEPT !.gas = v] \in Words /\ [o EXCEPT !.gas = v].run = o.run
           /\ [o EXCEPT !.senderBefore = v] \in Words /\ [o EXCEPT !.senderBefore = v].run = o.run
           /\ [o EXCEPT !.recipientBefore = v] \in Words /\ [o EXCEPT !.recipientBefore = v].run = o.run
           /\ [o EXCEPT !.senderAfter = v] \in Words /\ [o EXCEPT !.senderAfter = v].run = o.run
           /\ [o EXCEPT !.restoredSender = v] \in Words /\ [o EXCEPT !.restoredSender = v].run = o.run
           /\ [o EXCEPT !.restoredRecipient = v] \in Words /\ [o EXCEPT !.restoredRecipient = v].run = o.run
           /\ [o EXCEPT !.gateBalance = v] \in Words /\ [o EXCEPT !.gateBalance = v].run = o.run
  BY DEF Words

LEMMA RecordBlock ==
    ASSUME NEW o \in Words, NEW v \in Seq(BlockBody)
    PROVE  /\ [o EXCEPT !.block = v] \in Words /\ [o EXCEPT !.block = v].run = o.run
           /\ [o EXCEPT !.gateBlock = v] \in Words /\ [o EXCEPT !.gateBlock = v].run = o.run
  BY DEF Words

LEMMA RecordOutcome ==
    ASSUME NEW o \in Words, NEW v \in UInt
    PROVE  \A b \in BOOLEAN :
               /\ [o EXCEPT !.recipientAfter = v, !.failed = b] \in Words
               /\ [o EXCEPT !.recipientAfter = v, !.failed = b].run = o.run
  BY DEF Words

LEMMA RecordMark ==
    ASSUME NEW o \in Words
    PROVE  /\ [o EXCEPT !.failed = TRUE] \in Words /\ [o EXCEPT !.failed = TRUE].run = o.run
           /\ [o EXCEPT !.drained = TRUE] \in Words /\ [o EXCEPT !.drained = TRUE].run = o.run
           /\ \A id \in Nat : /\ [o EXCEPT !.snapshot = id] \in Words
                              /\ [o EXCEPT !.snapshot = id].run = o.run
  BY DEF Words

\* Mining a transaction between holders.
LEMMA MinedTyped ==
    ASSUME InWords, NEW c, Typed(c), NEW tx, Pays(tx), NEW origin \in Origin,
           NEW s \in Stamps
    PROVE  Typed(Mined(c, tx, origin, s))
  <1> DEFINE ok == Executes(c, tx)
             moved == Moved(c.balances, Payer(tx), tx.data.recipient, tx.data.amount)
             after == IF ok THEN moved ELSE c.balances
             body == [tx |-> tx, ok |-> ok, stamp |-> s]
  <1>1. /\ c.blocks \in Seq(BlockBody) /\ c.by \in Seq(Origin) /\ c.left \in Seq(Nat)
        /\ c.balances \in [Account -> Nat] /\ c.nonce \in Nat
        /\ Supplied(c.balances) /\ tx.data.amount \in Nat
    BY WordNumbers DEF Typed, ChainState, Pays, Transaction, CallData
  <1>2. ok => Supplied(moved)
    <2>1. ok => tx.data.amount <= c.balances[Payer(tx)]
      BY DEF Executes
    <2> HIDE DEF ok
    <2> QED
      BY <1>1, <2>1, SupplyMoved DEF Pays
  <1>3. Supplied(after)
    BY <1>1, <1>2
  <1>4. after \in [Account -> Nat] /\ after[Wallet] \in Nat
    <2> HIDE DEF after
    <2>1. after \in [Account -> UInt] /\ Wallet \in Account
      BY <1>3 DEF Supplied, Account
    <2>2. \A a \in Account : after[a] \in Nat
      BY <2>1, WordNumbers
    <2> QED
      BY <2>1, <2>2
  <1>5. body \in BlockBody
    <2>1. ok \in BOOLEAN
      BY DEF Executes
    <2> HIDE DEF ok
    <2> QED
      BY <2>1 DEF BlockBody, Pays
  <1> HIDE DEF after, body, moved, ok
  <1>6. /\ Append(c.blocks, body) \in Seq(BlockBody)
        /\ Append(c.by, origin) \in Seq(Origin)
        /\ Append(c.left, after[Wallet]) \in Seq(Nat)
    BY <1>1, <1>4, <1>5
  <1>7. Mined(c, tx, origin, s) =
            [blocks |-> Append(c.blocks, body), by |-> Append(c.by, origin),
             left |-> Append(c.left, after[Wallet]), balances |-> after,
             nonce |-> IF tx.fromAddress = Wallet THEN c.nonce + 1 ELSE c.nonce]
    BY DEF Mined, body, after, moved, ok
  <1>8. (IF tx.fromAddress = Wallet THEN c.nonce + 1 ELSE c.nonce) \in Nat
    BY <1>1
  <1> DEFINE n == IF tx.fromAddress = Wallet THEN c.nonce + 1 ELSE c.nonce
  <1> HIDE DEF n
  <1> QED
    BY <1>3, <1>4, <1>6, <1>7, <1>8 DEF Typed, ChainState, n

\* The chain of a typed node, as a thread reads it.
LEMMA ChainRead ==
    ASSUME NodeTyped
    PROVE  /\ chain.blocks \in Seq(BlockBody)
           /\ \A a \in Account : chain.balances[a] \in UInt
  <1>1. Typed(chain)
    BY DEF NodeTyped, Chains
  <1> QED
    BY <1>1 DEF Typed, ChainState, Supplied

\* As many nonces as the bounds allow fit into a word.
LEMMA NonceInWords ==
    ASSUME InWords, NodeInv, CountInv, UsedTyped
    PROVE  chain.nonce \in UInt
  <1>1. chain.nonce \in Nat
    BY ChainNonce
  <1>2. Cardinality(Owed) \in Nat /\ chain.nonce + Cardinality(Owed) <= 2 * used.runs + used.events
    BY FS_CardinalityType DEF CountInv, Fits
  <1>3. /\ used.runs \in 0 .. MaxRuns /\ used.events \in 0 .. MaxEvents
        /\ MaxRuns \in Nat /\ MaxEvents \in Nat
    BY ExecutionAssumption DEF UsedTyped
  <1>4. 2 * MaxRuns + MaxEvents <= MaxUint /\ MaxUint \in Nat
    BY MaxUintAssumption DEF InWords
  <1> QED
    BY <1>1, <1>2, <1>3, <1>4 DEF UInt

\* The chain grows by a transaction between holders, or the queue by one.
LEMMA ExtendedTyped ==
    ASSUME InWords, NodeTyped, NEW tx, Pays(tx), NEW origin \in Origin,
           \/ chain' = chain \/ \E s \in Stamps : chain' = Mined(chain, tx, origin, s),
           snapshots' = snapshots,
           \A q \in queue' : q \in queue \/ q = [tx |-> tx, origin |-> origin]
    PROVE  NodeTyped'
  <1>1. Typed(chain)
    BY DEF NodeTyped, Chains
  <1>2. Typed(chain')
    BY <1>1, MinedTyped
  <1>3. \A c \in Chains' : Typed(c)
    BY <1>2 DEF NodeTyped, Chains
  <1>4. \A q \in queue' : Pays(q.tx) /\ q.origin \in Origin
    BY DEF NodeTyped
  <1> QED
    BY <1>3, <1>4 DEF NodeTyped

LEMMA SendTyped ==
    ASSUME InWords, NodeTyped, NEW tx, Pays(tx), NEW origin \in Origin,
           eth_sendTransaction(tx, origin)
    PROVE  NodeTyped'
  <1>1. /\ chain' = chain \/ \E s \in Stamps : chain' = Mined(chain, tx, origin, s)
        /\ snapshots' = snapshots
        /\ \A q \in queue' : q \in queue \/ q = [tx |-> tx, origin |-> origin]
    BY DEF eth_sendTransaction
  <1> QED
    BY <1>1, ExtendedTyped

LEMMA MineQueuedTyped ==
    ASSUME InWords, NodeTyped, MineQueued
    PROVE  NodeTyped'
  <1>1. PICK q \in queue : /\ \E s \in Stamps : chain' = Mined(chain, q.tx, q.origin, s)
                           /\ queue' = queue \ {q} /\ snapshots' = snapshots
    BY DEF MineQueued
  <1>2. Pays(q.tx) /\ q.origin \in Origin
    BY DEF NodeTyped
  <1>3. \A r \in queue' : r \in queue
    BY <1>1
  <1> QED
    BY <1>1, <1>2, <1>3, ExtendedTyped

\* No chain and no transaction is added to the node.
LEMMA NoneAddedTyped ==
    ASSUME NodeTyped, Chains' \subseteq Chains, queue' \subseteq queue
    PROVE  NodeTyped'
  BY DEF NodeTyped

LEMMA NodeKeptTyped ==
    ASSUME NodeTyped,
           UNCHANGED nodeVars \/ evm_snapshot \/ (\E id : evm_revert(id))
             \/ (chain' = chain /\ snapshots' \subseteq snapshots /\ queue' = queue)
    PROVE  NodeTyped'
  <1>1. CASE UNCHANGED nodeVars
    BY <1>1, NoneAddedTyped DEF nodeVars, Chains
  <1>2. CASE evm_snapshot
    <2>1. Chains' = Chains /\ queue' = queue
      BY <1>2 DEF evm_snapshot, Chains
    <2> QED
      BY <2>1, NoneAddedTyped
  <1>3. CASE \E id : evm_revert(id)
    <2>1. Chains' \subseteq Chains /\ queue' = queue
      BY <1>3 DEF evm_revert, Chains
    <2> QED
      BY <2>1, NoneAddedTyped
  <1>4. CASE chain' = chain /\ snapshots' \subseteq snapshots /\ queue' = queue
    BY <1>4, NoneAddedTyped DEF Chains
  <1> QED
    BY <1>1, <1>2, <1>3, <1>4

\* A transfer of the owner, of a payer or of a spender.
LEMMA ExternalPays ==
    ASSUME Addressed, NEW from \in Account, NEW to \in Account, NEW n \in UInt,
           NEW selector \in {"transfer", "other"}
    PROVE  Pays(ExternalTx(from, to, n, selector))
  <1> DEFINE tx == ExternalTx(from, to, n, selector)
  <1>1. /\ from \in Address /\ to \in Address /\ Token \in Address /\ NodeChain \in Chain
        /\ Wallet \in Account /\ TransferGas \in UInt /\ EventAmount \in UInt
    BY WordNumbers DEF Addressed, Account
  <1>2. tx.data \in CallData /\ tx.data.recipient = to
    BY <1>1 DEF ExternalTx, CallData
  <1>3. tx = [chainId |-> NodeChain, fromAddress |-> from, toAddress |-> Token,
              nonce |-> n, gasLimit |-> TransferGas, data |-> tx.data]
    BY DEF ExternalTx
  <1>4. tx.fromAddress = from
    BY DEF ExternalTx
  <1> HIDE DEF tx
  <1>5. tx \in Transaction
    BY <1>1, <1>2, <1>3 DEF Transaction
  <1>6. Payer(tx) \in Account
    BY <1>1, <1>4 DEF Payer
  <1> QED
    BY <1>2, <1>5, <1>6 DEF Pays, tx

LEMMA EventTyped ==
    ASSUME InWords, Addressed, NodeInv, CountInv, UsedTyped, NodeTyped,
           OwnTransfer \/ IncomingTransfer \/ AllowanceSpend
    PROVE  NodeTyped'
  <1>1. External \in Origin
    BY DEF External, Origin
  <1>2. ASSUME NEW kind, NEW from \in Account, NEW to \in Account, NEW n \in UInt,
               NEW selector \in {"transfer", "other"},
               Event(kind, ExternalTx(from, to, n, selector))
        PROVE  NodeTyped'
    <2> DEFINE tx == ExternalTx(from, to, n, selector)
    <2>1. Pays(tx)
      BY <1>2, ExternalPays
    <2>2. /\ \E s \in Stamps : chain' = Mined(chain, tx, External, s)
          /\ snapshots' = snapshots /\ queue' = queue
      BY <1>2 DEF Event
    <2> HIDE DEF tx
    <2> QED
      BY <1>1, <2>1, <2>2, ExtendedTyped
  <1>3. chain.nonce \in UInt /\ 0 \in UInt /\ Wallet \in Account /\ Recipients \subseteq Account
    BY NonceInWords, WordNumbers DEF Account
  <1>4. CASE OwnTransfer
    <2>1. PICK to \in Recipients : Event("own", ExternalTx(Wallet, to, chain.nonce, "transfer"))
      BY <1>4 DEF OwnTransfer
    <2> QED
      BY <1>2, <1>3, <2>1
  <1>5. CASE IncomingTransfer
    <2>1. PICK from \in Recipients : Event("incoming", ExternalTx(from, Wallet, 0, "transfer"))
      BY <1>5 DEF IncomingTransfer
    <2> QED
      BY <1>2, <1>3, <2>1
  <1>6. CASE AllowanceSpend
    <2>1. PICK sp \in Recipients : Event("spend", ExternalTx(sp, sp, 0, "other"))
      BY <1>6 DEF AllowanceSpend
    <2> QED
      BY <1>2, <1>3, <2>1
  <1> QED
    BY <1>4, <1>5, <1>6

\* What a thread simulates, and whose it is.
LEMMA SimulatedPays ==
    ASSUME Addressed, ThreadsTyped, NEW w \in Worker
    PROVE  /\ Pays(SimulatedTx(w))
           /\ \A kind \in {"simulation", "broadcast"} : OriginOf(w, kind) \in Origin
  <1>1. /\ req[w] \in Request /\ obs[w] \in Words
        /\ req[w].recipient \in Recipients /\ req[w].amount \in UInt
        /\ req[w].approval \in Approval
    BY ExecutionAssumption DEF ThreadsTyped
  <1>2. /\ obs[w].nonce \in UInt /\ obs[w].gas \in UInt /\ obs[w].run \in Nat
        /\ obs[w].drained \in BOOLEAN
    BY <1>1 DEF Words
  <1>3. /\ Wallet \in Address /\ req[w].recipient \in Account /\ req[w].recipient \in Address
        /\ Token \in Address /\ NodeChain \in Chain /\ Wallet \in Account
    BY <1>1 DEF Addressed, Account
  <1>4. req[w].approval.policy.assetBalanceFloor \in Nat
    BY <1>1, RequestNumbers
  <1>5. \A kind \in {"simulation", "broadcast"} : OriginOf(w, kind) \in Origin
    BY <1>2, <1>4 DEF OriginOf, Origin
  <1> DEFINE tx == SimulatedTx(w)
  <1>6. tx.data = TransferCall(req[w].recipient, req[w].amount) /\ tx.fromAddress = Wallet
    BY DEF SimulatedTx
  <1>7. tx.data \in CallData /\ tx.data.recipient = req[w].recipient
    BY <1>1, <1>3, <1>6 DEF TransferCall, CallData
  <1>8. tx = [chainId |-> NodeChain, fromAddress |-> Wallet, toAddress |-> Token,
              nonce |-> obs[w].nonce, gasLimit |-> obs[w].gas, data |-> tx.data]
    BY DEF SimulatedTx
  <1> HIDE DEF tx
  <1>9. tx \in Transaction
    BY <1>2, <1>3, <1>7, <1>8 DEF Transaction
  <1>10. Payer(tx) \in Account
    BY <1>3, <1>6 DEF Payer
  <1>11. Pays(tx)
    BY <1>3, <1>7, <1>9, <1>10 DEF Pays
  <1> QED
    BY <1>5, <1>11 DEF tx

\* What a step of one thread has to respect.
Leg(here, next) ==
    Onward(here, next) /\ next \in Locations /\ (next \in Accepting => here \in Accepting)
Moves(w) ==
    /\ req' = req
    /\ pc' \in [Worker -> Locations] /\ obs' \in [Worker -> Words]
    /\ decision' \in [Worker -> Decision \cup {NoDecision}]
    /\ result' \in [Worker -> Outcomes]
    /\ \A v \in Worker \ {w} :
           pc'[v] = pc[v] /\ obs'[v] = obs[v] /\ decision'[v] = decision[v]
    /\ Onward(pc[w], pc'[w]) /\ obs'[w].run = obs[w].run
    /\ pc'[w] \in Accepting => Decided(decision'[w])

LEMMA OnwardFromThere == \A p : Onward(p, p)
  BY DEF Onward

\* A thread sends nothing and leaves at most the chain and the snapshots changed.
LEMMA QuietMove ==
    ASSUME NodeInv, NodeInv', CountInv, TypeInv, NEW w \in Worker, Moves(w),
           NodeTyped', GateTyped', UsedTyped', queue' \subseteq queue,
           chain'.nonce <= chain.nonce,
           used'.runs = used.runs, used'.events = used.events
    PROVE  CountInv' /\ TypeInv'
  <1>1. ThreadsTyped'
    BY DEF Moves, TypeInv, ThreadsTyped
  <1>2. \A v \in Worker : Onward(pc[v], pc'[v]) /\ obs'[v].run = obs[v].run
    <2>1. \A v \in Worker : v # w => pc'[v] = pc[v] /\ obs'[v] = obs[v]
      BY DEF Moves
    <2>2. Onward(pc[w], pc'[w]) /\ obs'[w].run = obs[w].run
      BY DEF Moves
    <2> QED
      BY <2>1, <2>2, OnwardFromThere
  <1>3. CountInv'
    BY <1>2, QuietKeepsCountInv
  <1> QED
    BY <1>1, <1>3 DEF TypeInv

LEMMA SendingMove ==
    ASSUME InWords, NodeInv, RunInv, CountInv, TypeInv, NEW w \in Worker, Moves(w),
           NEW tx, Pays(tx), NEW origin \in Origin, eth_sendTransaction(tx, origin),
           GateTyped', UsedTyped',
           used'.runs = used.runs, used'.events = used.events,
           origin.run = obs[w].run,
           \/ origin.kind = "simulation" /\ pc[w] = "simSend" /\ pc'[w] \notin BeforeSimulation
           \/ origin.kind = "broadcast" /\ pc[w] = "send" /\ pc'[w] = "idle"
    PROVE  CountInv' /\ TypeInv'
  <1>1. ThreadsTyped' /\ NodeTyped'
    BY SendTyped DEF Moves, TypeInv, ThreadsTyped
  <1>2. /\ \A v \in Worker \ {w} : pc'[v] = pc[v] /\ obs'[v].run = obs[v].run
        /\ obs'[w].run = obs[w].run
    BY DEF Moves
  <1>3. CountInv'
    BY <1>2, SendingKeepsCountInv
  <1> QED
    BY <1>1, <1>3 DEF TypeInv

\* What the counters other than the runs and the events do.
LEMMA CountersTyped ==
    ASSUME UsedTyped, used' = used \/ \E kind : Fault(kind) \/ TearingFault(kind)
    PROVE  /\ UsedTyped'
           /\ used'.runs = used.runs /\ used'.events = used.events
  <1>1. /\ used.runs \in 0 .. MaxRuns /\ used.events \in 0 .. MaxEvents
        /\ used.faults \in 0 .. MaxFaults /\ used.torn \in BOOLEAN
        /\ DOMAIN used = {"runs", "events", "faults", "torn"}
        /\ MaxFaults \in Nat
    BY ExecutionAssumption DEF UsedTyped
  <1>2. CASE used' = used
    BY <1>2 DEF UsedTyped
  <1>3. CASE \E kind : Fault(kind) \/ TearingFault(kind)
    <2>1. used.faults < MaxFaults
      BY <1>3 DEF Fault, TearingFault
    <2>2. used.faults + 1 \in 0 .. MaxFaults
      BY <1>1, <2>1
    <2>3. \/ used' = [used EXCEPT !.faults = used.faults + 1]
          \/ used' = [used EXCEPT !.faults = used.faults + 1, !.torn = TRUE]
      BY <1>3 DEF Fault, TearingFault
    <2> QED
      BY <1>1, <2>2, <2>3 DEF UsedTyped
  <1> QED
    BY <1>2, <1>3

\* The node is left alone: a step of one thread without a call that changes it.
LEMMA NodeAlone ==
    ASSUME NodeInv, CountInv, TypeInv, NEW w \in Worker, Moves(w),
           UNCHANGED nodeVars, GateTyped',
           used' = used \/ \E kind : Fault(kind) \/ TearingFault(kind)
    PROVE  CountInv' /\ TypeInv'
  <1>1. NodeInv' /\ NodeTyped' /\ queue' = queue /\ chain' = chain
    BY NodeUntouched, NodeKeptTyped DEF TypeInv, nodeVars
  <1>2. /\ UsedTyped' /\ used'.runs = used.runs /\ used'.events = used.events
    BY CountersTyped DEF TypeInv
  <1>3. chain'.nonce <= chain.nonce
    BY <1>1, ChainNonce
  <1> QED
    BY <1>1, <1>2, <1>3, QuietMove

LEMMA ReadMoves ==
    ASSUME NodeInv, CountInv, TypeInv, NEW w \in Worker, NEW here, NEW next, NEW o \in Words,
           Read(w, here, next, o), Leg(here, next), o.run = obs[w].run
    PROVE  CountInv' /\ TypeInv'
  <1>1. /\ pc[w] = here /\ pc' = [pc EXCEPT ![w] = next] /\ obs' = [obs EXCEPT ![w] = o]
        /\ UNCHANGED <<nodeVars, req, decision, result, gateVars, used>>
    BY DEF Read, Goto
  <1>2. Moves(w)
    BY <1>1 DEF TypeInv, ThreadsTyped, Moves, Leg
  <1>3. GateTyped'
    BY <1>1 DEF TypeInv, GateTyped, gateVars
  <1> QED
    BY <1>1, <1>2, <1>3, NodeAlone

\* An exception.
LEMMA RaiseMoves ==
    ASSUME ThreadsTyped, NEW w \in Worker, Raise(w), pc[w] # "idle",
           UNCHANGED <<req, decision>>
    PROVE  Moves(w) /\ (pc[w] = "send" => pc'[w] = "idle") /\ pc'[w] \notin BeforeSimulation
  <1>1. /\ obs[w] \in Words /\ DOMAIN pc = Worker /\ DOMAIN obs = Worker
    BY DEF ThreadsTyped
  <1>2. CASE /\ pc[w] \in InsideSnapshot
             /\ pc' = [pc EXCEPT ![w] = "revert"]
             /\ obs' = [obs EXCEPT ![w] = [obs[w] EXCEPT !.failed = TRUE]]
             /\ result' = result
    <2> DEFINE o == [obs[w] EXCEPT !.failed = TRUE]
    <2>1. o \in Words /\ o.run = obs[w].run
      BY <1>1, RecordMark
    <2>2. obs' = [obs EXCEPT ![w] = o]
      BY <1>2
    <2> HIDE DEF o
    <2>3. "revert" \in Locations /\ "revert" \notin Accepting /\ "revert" \notin BeforeSimulation
      BY DEF Locations, Calls, Accepting, BeforeSimulation
    <2>4. pc[w] # "send"
      BY <1>2 DEF InsideSnapshot
    <2>5. Onward(pc[w], "revert")
      BY <2>3 DEF Onward
    <2> QED
      BY <1>1, <1>2, <2>1, <2>2, <2>3, <2>4, <2>5 DEF ThreadsTyped, Moves
  <1>3. CASE /\ pc' = [pc EXCEPT ![w] = "idle"] /\ obs' = obs
             /\ result' = [result EXCEPT ![w] = "error"]
    <2>1. /\ "idle" \in Locations /\ "idle" \notin Accepting /\ "idle" \notin BeforeSimulation
          /\ "error" \in Outcomes
      BY DEF Locations, Accepting, BeforeSimulation, Outcomes
    <2>2. Onward(pc[w], "idle")
      BY DEF Onward
    <2> QED
      BY <1>1, <1>3, <2>1, <2>2 DEF ThreadsTyped, Moves
  <1> QED
    BY <1>2, <1>3 DEF Raise, Finish

\* A thread goes on or gives up with what it has observed.
LEMMA PassMoves ==
    ASSUME ThreadsTyped, NEW w \in Worker, UNCHANGED <<req, obs, decision>>,
           \/ \E how \in Outcomes : Finish(w, how)
           \/ \E next : Goto(w, pc[w], next) /\ Leg(pc[w], next) /\ UNCHANGED result
    PROVE  Moves(w)
  <1>1. CASE \E how \in Outcomes : Finish(w, how)
    <2>1. /\ "idle" \in Locations /\ "idle" \notin Accepting /\ Onward(pc[w], "idle")
      BY DEF Locations, Accepting, Onward
    <2> QED
      BY <1>1, <2>1 DEF Finish, ThreadsTyped, Moves
  <1>2. CASE \E next : Goto(w, pc[w], next) /\ Leg(pc[w], next) /\ UNCHANGED result
    BY <1>2 DEF Goto, Leg, ThreadsTyped, Moves
  <1> QED
    BY <1>1, <1>2

\* The calls in the order a thread makes them.
LEMMA Legs ==
    /\ Leg("block", "nonce") /\ Leg("nonce", "gas") /\ Leg("gas", "snapshot")
    /\ Leg("snapshot", "senderBefore") /\ Leg("senderBefore", "recipientBefore")
    /\ Leg("recipientBefore", "simSend") /\ Leg("simSend", "poll")
    /\ Leg("poll", "senderAfter") /\ Leg("senderAfter", "recipientAfter")
    /\ Leg("recipientAfter", "revert") /\ Leg("revert", "checkSender")
    /\ Leg("checkSender", "checkRecipient") /\ Leg("checkRecipient", "checkNonce")
    /\ Leg("checkNonce", "decide") /\ Leg("gateBlock", "gateBalance")
    /\ Leg("gateBalance", "gateNonce") /\ Leg("gateNonce", "consume")
    /\ Leg("consume", "send")
  BY DEF Leg, Onward, BeforeSimulation, Locations, Calls, Accepting

LEMMA ReadsTyped ==
    ASSUME InWords, NodeInv, CountInv, TypeInv, NEW w \in Worker,
           \/ CaptureBlock(w) \/ CaptureNonce(w)
           \/ SenderBefore(w) \/ RecipientBefore(w)
           \/ SenderAfter(w) \/ RecipientAfter(w)
           \/ CheckSender(w) \/ CheckRecipient(w)
           \/ GateBlock(w) \/ GateBalance(w)
           \/ (ResolveGas(w) /\ ~Raise(w))
    PROVE  CountInv' /\ TypeInv'
  <1>1. /\ obs[w] \in Words /\ chain.nonce \in UInt /\ chain.blocks \in Seq(BlockBody)
        /\ chain.balances[Wallet] \in UInt /\ chain.balances[req[w].recipient] \in UInt
        /\ req[w].gas \in UInt
    <2>1. req[w] \in Request /\ obs[w] \in Words
      BY DEF TypeInv, ThreadsTyped
    <2>2. req[w].recipient \in Account /\ Wallet \in Account /\ req[w].gas \in UInt
      BY <2>1, ExecutionAssumption DEF Account
    <2> QED
      BY <2>1, <2>2, ChainRead, NonceInWords DEF TypeInv
  <1>2. CASE CaptureBlock(w)
    <2> DEFINE o == [obs[w] EXCEPT !.block = chain.blocks]
    <2>1. o \in Words /\ o.run = obs[w].run
      BY <1>1, RecordBlock
    <2>2. Read(w, "block", "nonce", o)
      BY <1>2 DEF CaptureBlock
    <2> HIDE DEF o
    <2> QED
      BY <2>1, <2>2, Legs, ReadMoves
  <1>3. CASE CaptureNonce(w)
    <2> DEFINE o == [obs[w] EXCEPT !.nonce = chain.nonce]
    <2>1. o \in Words /\ o.run = obs[w].run
      BY <1>1, RecordWord
    <2>2. Read(w, "nonce", "gas", o)
      BY <1>3 DEF CaptureNonce
    <2> HIDE DEF o
    <2> QED
      BY <2>1, <2>2, Legs, ReadMoves
  <1>4. CASE SenderBefore(w)
    <2> DEFINE o == [obs[w] EXCEPT !.senderBefore = chain.balances[Wallet]]
    <2>1. o \in Words /\ o.run = obs[w].run
      BY <1>1, RecordWord
    <2>2. Read(w, "senderBefore", "recipientBefore", o)
      BY <1>4 DEF SenderBefore
    <2> HIDE DEF o
    <2> QED
      BY <2>1, <2>2, Legs, ReadMoves
  <1>5. CASE RecipientBefore(w)
    <2> DEFINE o == [obs[w] EXCEPT !.recipientBefore = chain.balances[req[w].recipient]]
    <2>1. o \in Words /\ o.run = obs[w].run
      BY <1>1, RecordWord
    <2>2. Read(w, "recipientBefore", "simSend", o)
      BY <1>5 DEF RecipientBefore
    <2> HIDE DEF o
    <2> QED
      BY <2>1, <2>2, Legs, ReadMoves
  <1>6. CASE SenderAfter(w)
    <2> DEFINE o == [obs[w] EXCEPT !.senderAfter = chain.balances[Wallet]]
    <2>1. o \in Words /\ o.run = obs[w].run
      BY <1>1, RecordWord
    <2>2. Read(w, "senderAfter", "recipientAfter", o)
      BY <1>6 DEF SenderAfter
    <2> HIDE DEF o
    <2> QED
      BY <2>1, <2>2, Legs, ReadMoves
  <1>7. CASE RecipientAfter(w)
    <2> DEFINE after == chain.balances[req[w].recipient]
               failed == \/ obs[w].senderBefore - obs[w].senderAfter # req[w].amount
                         \/ after - obs[w].recipientBefore # req[w].amount
               o == [obs[w] EXCEPT !.recipientAfter = after, !.failed = failed]
    <2>1. Read(w, "recipientAfter", "revert", o)
      BY <1>7 DEF RecipientAfter
    <2>2. failed \in BOOLEAN /\ after \in UInt
      BY <1>1
    <2>3. o \in Words /\ o.run = obs[w].run
      <3> HIDE DEF failed, after
      <3> QED
        BY <1>1, <2>2, RecordOutcome
    <2> HIDE DEF o
    <2> QED
      BY <2>1, <2>3, Legs, ReadMoves
  <1>8. CASE CheckSender(w)
    <2> DEFINE o == [obs[w] EXCEPT !.restoredSender = chain.balances[Wallet]]
    <2>1. o \in Words /\ o.run = obs[w].run
      BY <1>1, RecordWord
    <2>2. Read(w, "checkSender", "checkRecipient", o)
      BY <1>8 DEF CheckSender
    <2> HIDE DEF o
    <2> QED
      BY <2>1, <2>2, Legs, ReadMoves
  <1>9. CASE CheckRecipient(w)
    <2> DEFINE o == [obs[w] EXCEPT !.restoredRecipient = chain.balances[req[w].recipient]]
    <2>1. o \in Words /\ o.run = obs[w].run
      BY <1>1, RecordWord
    <2>2. Read(w, "checkRecipient", "checkNonce", o)
      BY <1>9 DEF CheckRecipient
    <2> HIDE DEF o
    <2> QED
      BY <2>1, <2>2, Legs, ReadMoves
  <1>10. CASE GateBlock(w)
    <2> DEFINE o == [obs[w] EXCEPT !.gateBlock = chain.blocks]
    <2>1. o \in Words /\ o.run = obs[w].run
      BY <1>1, RecordBlock
    <2>2. Read(w, "gateBlock", "gateBalance", o)
      BY <1>10 DEF GateBlock
    <2> HIDE DEF o
    <2> QED
      BY <2>1, <2>2, Legs, ReadMoves
  <1>11. CASE GateBalance(w)
    <2> DEFINE o == [obs[w] EXCEPT !.gateBalance = chain.balances[Wallet]]
    <2>1. o \in Words /\ o.run = obs[w].run
      BY <1>1, RecordWord
    <2>2. Read(w, "gateBalance", "gateNonce", o)
      BY <1>11 DEF GateBalance
    <2> HIDE DEF o
    <2> QED
      BY <2>1, <2>2, Legs, ReadMoves
  <1>12. CASE ResolveGas(w) /\ ~Raise(w)
    <2>1. PICK g \in UInt : Read(w, "gas", "snapshot", [obs[w] EXCEPT !.gas = g])
      BY <1>1, <1>12, WordNumbers DEF ResolveGas
    <2> DEFINE o == [obs[w] EXCEPT !.gas = g]
    <2>2. o \in Words /\ o.run = obs[w].run
      BY <1>1, RecordWord
    <2>3. Read(w, "gas", "snapshot", o)
      BY <2>1
    <2> HIDE DEF o
    <2> QED
      BY <2>2, <2>3, Legs, ReadMoves
  <1> QED
    BY <1>2, <1>3, <1>4, <1>5, <1>6, <1>7, <1>8, <1>9, <1>10, <1>11, <1>12

\* An exception of a call that did not reach the node, or found it unfit.
LEMMA RaisesTyped ==
    ASSUME NodeInv, CountInv, TypeInv, NEW w \in Worker, Raise(w), pc[w] # "idle",
           UNCHANGED <<nodeVars, req, decision>>, GateTyped',
           used' = used \/ \E kind : Fault(kind) \/ TearingFault(kind)
    PROVE  CountInv' /\ TypeInv'
  BY RaiseMoves, NodeAlone DEF TypeInv

\* The checks, the gate and the receipt: the node is left alone.
LEMMA ChecksTyped ==
    ASSUME NodeInv, CountInv, TypeInv, NEW w \in Worker,
           \/ (ResolveGas(w) /\ Raise(w)) \/ PollReceipt(w) \/ PollTimeout(w)
           \/ CheckNonce(w) \/ GateNonce(w) \/ Consume(w)
    PROVE  CountInv' /\ TypeInv'
  <1> DEFINE Passes == \/ \E how \in Outcomes : Finish(w, how)
                       \/ \E next : Goto(w, pc[w], next) /\ Leg(pc[w], next) /\ UNCHANGED result
  <1>1. ASSUME UNCHANGED <<nodeVars, req, obs, decision, used>>, Passes, GateTyped'
        PROVE  CountInv' /\ TypeInv'
    BY <1>1, PassMoves, NodeAlone DEF TypeInv
  <1>2. "error" \in Outcomes /\ "rejected" \in Outcomes
    BY DEF Outcomes
  <1>3. UNCHANGED gateVars => GateTyped'
    BY DEF TypeInv, GateTyped, gateVars
  <1>4. CASE ResolveGas(w) /\ Raise(w)
    <2>1. pc[w] = "gas" /\ UNCHANGED <<nodeVars, req, decision, gateVars, used>>
      BY <1>4 DEF ResolveGas, Read, Goto
    <2> QED
      BY <1>3, <1>4, <2>1, RaisesTyped
  <1>5. CASE PollTimeout(w)
    BY <1>3, <1>5, RaisesTyped DEF PollTimeout
  <1>6. CASE PollReceipt(w)
    <2>1. CASE Raise(w)
      BY <1>3, <1>6, <2>1, RaisesTyped DEF PollReceipt
    <2>2. CASE ~Raise(w)
      <3>1. /\ pc[w] = "poll" /\ Goto(w, "poll", "senderAfter") /\ UNCHANGED result
            /\ UNCHANGED <<nodeVars, req, obs, decision, used>> /\ UNCHANGED gateVars
        BY <1>6, <2>2 DEF PollReceipt
      <3> QED
        BY <1>1, <1>3, <3>1, Legs
    <2> QED
      BY <2>1, <2>2
  <1>7. CASE CheckNonce(w)
    BY <1>1, <1>2, <1>3, <1>7, Legs DEF CheckNonce
  <1>8. CASE GateNonce(w)
    BY <1>1, <1>2, <1>3, <1>8, Legs DEF GateNonce
  <1>9. CASE Consume(w)
    <2>1. decision[w] \in Decision
      BY <1>9 DEF Consume, TypeInv, ThreadsTyped, Accepting, Decided
    <2>2. GateTyped'
      BY <1>9, <2>1 DEF Consume, TypeInv, GateTyped
    <2> QED
      BY <1>1, <1>2, <1>9, <2>2, Legs DEF Consume
  <1> QED
    BY <1>4, <1>5, <1>6, <1>7, <1>8, <1>9

\* The snapshot is taken, and undone or said to be.
LEMMA SnapshotsTyped ==
    ASSUME NodeInv, NodeInv', CountInv, TypeInv, NEW w \in Worker,
           TakeSnapshot(w) \/ RevertSnapshot(w) \/ NoopRevert(w)
    PROVE  CountInv' /\ TypeInv'
  <1>1. GateTyped'
    BY DEF TypeInv, GateTyped, gateVars, TakeSnapshot, RevertSnapshot, NoopRevert
  <1>2. CASE TakeSnapshot(w)
    <2> DEFINE o == [obs[w] EXCEPT !.snapshot = nextId]
    <2>1. o \in Words /\ o.run = obs[w].run
      BY RecordMark DEF TypeInv, ThreadsTyped, NodeInv
    <2>2. /\ pc[w] = "snapshot" /\ pc' = [pc EXCEPT ![w] = "senderBefore"]
          /\ obs' = [obs EXCEPT ![w] = o] /\ evm_snapshot
          /\ UNCHANGED <<req, decision, result, used>>
      BY <1>2 DEF TakeSnapshot, Goto
    <2> HIDE DEF o
    <2>3. Moves(w)
      BY <2>1, <2>2, Legs DEF TypeInv, ThreadsTyped, Moves, Leg
    <2>4. NodeTyped' /\ chain' = chain /\ queue' = queue
      BY <2>2, NodeKeptTyped DEF TypeInv, evm_snapshot
    <2>5. /\ UsedTyped' /\ used'.runs = used.runs /\ used'.events = used.events
      BY <2>2, CountersTyped DEF TypeInv
    <2>6. chain'.nonce <= chain.nonce
      BY <2>4, ChainNonce
    <2> QED
      BY <1>1, <2>3, <2>4, <2>5, <2>6, QuietMove
  <1>3. CASE RevertSnapshot(w) \/ NoopRevert(w)
    <2>1. /\ \/ \E how \in Outcomes : Finish(w, how)
             \/ \E next : Goto(w, pc[w], next) /\ Leg(pc[w], next) /\ UNCHANGED result
          /\ UNCHANGED <<req, obs, decision>>
      BY <1>3, Legs DEF RevertSnapshot, NoopRevert, Goto, Outcomes
    <2>2. Moves(w)
      BY <2>1, PassMoves DEF TypeInv
    <2>3. /\ \/ UNCHANGED nodeVars \/ (\E id : evm_revert(id))
             \/ (chain' = chain /\ snapshots' \subseteq snapshots /\ queue' = queue)
          /\ queue' = queue
          /\ chain' \in Chains
      BY <1>3 DEF RevertSnapshot, NoopRevert, evm_revert, nodeVars, Chains
    <2>4. NodeTyped'
      BY <2>3, NodeKeptTyped DEF TypeInv
    <2>5. chain'.nonce <= chain.nonce
      BY <2>3 DEF NodeInv
    <2>6. /\ UsedTyped' /\ used'.runs = used.runs /\ used'.events = used.events
      <3>1. used' = used \/ \E kind : Fault(kind) \/ TearingFault(kind)
        BY <1>3 DEF RevertSnapshot, NoopRevert
      <3> QED
        BY <3>1, CountersTyped DEF TypeInv
    <2> QED
      BY <1>1, <2>2, <2>3, <2>4, <2>5, <2>6, QuietMove
  <1> QED
    BY <1>2, <1>3

\* The decision a thread holds is handed over.
LEMMA HandedTyped ==
    ASSUME TypeInv, NEW w \in Worker, UNCHANGED consumed,
           sent' = sent \/ (pc[w] = "send" /\ sent' = Append(sent, decision[w]))
    PROVE  GateTyped'
  <1>1. pc[w] = "send" => decision[w] \in Decision
    BY DEF TypeInv, ThreadsTyped, Accepting, Decided
  <1> QED
    BY <1>1 DEF TypeInv, GateTyped

\* A transaction is sent, and its answer may be lost.
LEMMA SendsTyped ==
    ASSUME InWords, Addressed, NodeInv, RunInv, CountInv, TypeInv, NEW w \in Worker,
           Moves(w), GateTyped',
           used' = used \/ \E kind : Fault(kind) \/ TearingFault(kind),
           \/ /\ pc[w] = "simSend" /\ pc'[w] \notin BeforeSimulation
              /\ eth_sendTransaction(SimulatedTx(w), OriginOf(w, "simulation"))
           \/ /\ pc[w] = "send" /\ pc'[w] = "idle"
              /\ eth_sendTransaction(CandidateOf(w).transaction, OriginOf(w, "broadcast"))
    PROVE  CountInv' /\ TypeInv'
  <1>1. UsedTyped' /\ used'.runs = used.runs /\ used'.events = used.events
    BY CountersTyped DEF TypeInv
  <1>2. /\ Pays(SimulatedTx(w))
        /\ OriginOf(w, "simulation") \in Origin /\ OriginOf(w, "broadcast") \in Origin
    BY SimulatedPays DEF TypeInv
  <1>3. /\ OriginOf(w, "simulation").kind = "simulation"
        /\ OriginOf(w, "broadcast").kind = "broadcast"
        /\ OriginOf(w, "simulation").run = obs[w].run
        /\ OriginOf(w, "broadcast").run = obs[w].run
    BY DEF OriginOf
  <1>4. pc[w] = "send" => Pays(CandidateOf(w).transaction)
    BY DEF TypeInv, ThreadsTyped, Accepting, Decided, CandidateOf
  <1> DEFINE s == SimulatedTx(w)
             b == CandidateOf(w).transaction
             os == OriginOf(w, "simulation")
             ob == OriginOf(w, "broadcast")
  <1>5. CASE /\ pc[w] = "simSend" /\ pc'[w] \notin BeforeSimulation
             /\ eth_sendTransaction(s, os)
    <2> HIDE DEF s, os, b, ob
    <2> QED
      BY <1>1, <1>2, <1>3, <1>5, SendingMove DEF s, os
  <1>6. CASE /\ pc[w] = "send" /\ pc'[w] = "idle"
             /\ eth_sendTransaction(b, ob)
    <2>1. Pays(b) /\ ob \in Origin /\ ob.run = obs[w].run /\ ob.kind = "broadcast"
      BY <1>2, <1>3, <1>4, <1>6
    <2> HIDE DEF s, os, b, ob
    <2> QED
      BY <1>1, <1>6, <2>1, SendingMove
  <1> QED
    BY <1>5, <1>6

LEMMA SendersTyped ==
    ASSUME InWords, Addressed, NodeInv, RunInv, CountInv, TypeInv, NEW w \in Worker,
           \/ SimulateSend(w) \/ Broadcast(w) \/ TransportFails(w)
           \/ (ResponseLost(w) /\ pc[w] # "revert")
    PROVE  CountInv' /\ TypeInv'
  <1>1. GateTyped'
    <2>1. /\ UNCHANGED consumed
          /\ sent' = sent \/ (pc[w] = "send" /\ sent' = Append(sent, decision[w]))
      BY DEF SimulateSend, Broadcast, TransportFails, ResponseLost, gateVars
    <2> QED
      BY <2>1, HandedTyped
  <1>2. CASE SimulateSend(w)
    <2>1. CASE /\ Goto(w, "simSend", "poll") /\ UNCHANGED <<obs, result>>
               /\ eth_sendTransaction(SimulatedTx(w), OriginOf(w, "simulation"))
      <3>1. pc[w] = "simSend" /\ UNCHANGED <<req, decision, used>>
        BY <1>2 DEF SimulateSend
      <3>2. Moves(w)
        BY <2>1, <3>1, Legs, PassMoves DEF TypeInv
      <3>3. pc'[w] \notin BeforeSimulation
        BY <2>1 DEF Goto, TypeInv, ThreadsTyped, BeforeSimulation
      <3> QED
        BY <1>1, <2>1, <3>1, <3>2, <3>3, SendsTyped
    <2>2. CASE Raise(w) /\ UNCHANGED nodeVars
      BY <1>1, <1>2, <2>2, RaisesTyped DEF SimulateSend
    <2> QED
      BY <1>2, <2>1, <2>2 DEF SimulateSend
  <1>3. CASE Broadcast(w)
    <2>1. /\ pc[w] = "send" /\ UNCHANGED <<req, obs, decision, used>>
          /\ \E how \in Outcomes : Finish(w, how)
      BY <1>3 DEF Broadcast, Outcomes
    <2>2. Moves(w)
      BY <2>1, PassMoves DEF TypeInv
    <2>3. pc'[w] = "idle"
      BY <2>1 DEF Finish, TypeInv, ThreadsTyped
    <2>4. CASE eth_sendTransaction(CandidateOf(w).transaction, OriginOf(w, "broadcast"))
      BY <1>1, <2>1, <2>2, <2>3, <2>4, SendsTyped
    <2>5. CASE UNCHANGED nodeVars
      BY <1>1, <2>1, <2>2, <2>5, NodeAlone
    <2> QED
      BY <1>3, <2>4, <2>5 DEF Broadcast
  <1>4. CASE TransportFails(w)
    <2>1. /\ Raise(w) /\ UNCHANGED <<nodeVars, req, decision>> /\ pc[w] # "idle"
          /\ used' = used \/ \E kind : Fault(kind) \/ TearingFault(kind)
      BY <1>4 DEF TransportFails, Calls
    <2> QED
      BY <1>1, <2>1, RaisesTyped
  <1>5. CASE ResponseLost(w) /\ pc[w] # "revert"
    <2>1. /\ Raise(w) /\ UNCHANGED <<req, decision>> /\ pc[w] # "idle"
          /\ used' = used \/ \E kind : Fault(kind) \/ TearingFault(kind)
          /\ \/ /\ pc[w] = "simSend"
                /\ eth_sendTransaction(SimulatedTx(w), OriginOf(w, "simulation"))
             \/ /\ pc[w] = "send"
                /\ eth_sendTransaction(CandidateOf(w).transaction, OriginOf(w, "broadcast"))
      BY <1>5 DEF ResponseLost
    <2>2. Moves(w) /\ (pc[w] = "send" => pc'[w] = "idle") /\ pc'[w] \notin BeforeSimulation
      BY <2>1, RaiseMoves DEF TypeInv
    <2> QED
      BY <1>1, <2>1, <2>2, SendsTyped
  <1> QED
    BY <1>2, <1>3, <1>4, <1>5

\* The snapshot is undone and the answer lost.
LEMMA LostRevertTyped ==
    ASSUME NodeInv, NodeInv', CountInv, TypeInv, NEW w \in Worker,
           ResponseLost(w), pc[w] = "revert"
    PROVE  CountInv' /\ TypeInv'
  <1>1. /\ Raise(w) /\ UNCHANGED <<req, decision, consumed, sent>>
        /\ used' = used \/ \E kind : Fault(kind) \/ TearingFault(kind)
        /\ evm_revert(obs[w].snapshot)
    BY DEF ResponseLost
  <1>2. Moves(w)
    BY <1>1, RaiseMoves DEF TypeInv
  <1>3. NodeTyped' /\ GateTyped'
    BY <1>1, NodeKeptTyped DEF TypeInv, GateTyped
  <1>4. queue' = queue /\ chain'.nonce <= chain.nonce
    BY <1>1 DEF evm_revert, NodeInv, Chains
  <1>5. UsedTyped' /\ used'.runs = used.runs /\ used'.events = used.events
    BY <1>1, CountersTyped DEF TypeInv
  <1> QED
    BY <1>2, <1>3, <1>4, <1>5, QuietMove

\* What a thread brings to the decision is evidence, and its candidate typed.
LEMMA EvidenceTyped ==
    ASSUME Addressed, ThreadsTyped, NEW w \in Worker
    PROVE  /\ EvidenceOf(w) \in Evidence
           /\ EvidenceOf(w).transaction = SimulatedTx(w)
           /\ EvidenceOf(w).transaction.gasLimit = EvidenceOf(w).gasLimit
           /\ EvidenceOf(w).request.sender = Wallet
           /\ req[w].approval \in Approval
  <1>1. /\ req[w] \in Request /\ obs[w] \in Words
        /\ req[w].recipient \in Recipients /\ req[w].amount \in UInt
        /\ req[w].approval \in Approval
    BY ExecutionAssumption DEF ThreadsTyped
  <1>2. /\ obs[w].nonce \in UInt /\ obs[w].gas \in UInt /\ obs[w].block \in Seq(BlockBody)
        /\ obs[w].senderBefore \in UInt /\ obs[w].senderAfter \in UInt
        /\ obs[w].recipientBefore \in UInt /\ obs[w].recipientAfter \in UInt
    BY <1>1 DEF Words
  <1>3. /\ Wallet \in Address /\ req[w].recipient \in Address /\ Token \in Address
        /\ NodeChain \in Chain /\ obs[w].block \in Block /\ TransferGas \in UInt
    BY <1>1, <1>2, WordNumbers DEF Addressed, Account
  <1>4. SimulatedTx(w) \in Transaction /\ SimulatedTx(w).gasLimit = obs[w].gas
    BY SimulatedPays DEF Pays, SimulatedTx
  <1> DEFINE tx == SimulatedTx(w)
             r == [token |-> Token, sender |-> Wallet,
                   recipient |-> req[w].recipient, amount |-> req[w].amount]
  <1>5. r \in [token : Address, sender : Address, recipient : Address, amount : UInt]
    BY <1>1, <1>3
  <1>6. EvidenceOf(w) =
            [request |-> r, chainId |-> NodeChain, block |-> obs[w].block,
             senderNonce |-> obs[w].nonce, transaction |-> tx, gasLimit |-> obs[w].gas,
             gasUsed |-> TransferGas, senderBefore |-> obs[w].senderBefore,
             senderAfter |-> obs[w].senderAfter,
             recipientBefore |-> obs[w].recipientBefore,
             recipientAfter |-> obs[w].recipientAfter, reverted |-> TRUE]
    BY DEF EvidenceOf
  <1>7. r.sender = Wallet
    OBVIOUS
  <1> HIDE DEF tx, r
  <1>8. EvidenceOf(w) \in Evidence
    BY <1>2, <1>3, <1>4, <1>5, <1>6 DEF Evidence, tx
  <1> QED
    BY <1>1, <1>4, <1>6, <1>7, <1>8 DEF tx

LEMMA DecideTyped ==
    ASSUME Addressed, NodeInv, CountInv, TypeInv, NEW w \in Worker, Decide(w)
    PROVE  CountInv' /\ TypeInv'
  <1> DEFINE a == req[w].approval
             e == EvidenceOf(w)
             c == candidate_from_evidence(a, e, req[w])
             d == evaluate(a, c)
  <1>1. /\ e \in Evidence /\ a \in Approval /\ e.transaction.gasLimit = e.gasLimit
        /\ e.transaction = SimulatedTx(w) /\ e.request.sender = Wallet
    BY EvidenceTyped DEF TypeInv
  <1>2. Pays(SimulatedTx(w))
    BY SimulatedPays DEF TypeInv
  <1>3. ASSUME verify_evidence(e) PROVE Decided(d)
    <2>1. c \in Candidate
      <3>1. req[w] \in CandidateId
        BY ExecutionAssumption DEF CandidateId, TypeInv, ThreadsTyped, Addressed, Account
      <3> HIDE DEF a, e
      <3> QED
        BY <1>1, <1>3, <3>1, BoundCandidate
    <2>2. c.transaction.data = e.transaction.data /\ c.transaction.fromAddress = Wallet
      <3>1. c.transaction.data = e.transaction.data /\ c.transaction.fromAddress = e.request.sender
        BY DEF candidate_from_evidence, transaction_from_evidence
      <3> HIDE DEF e, c
      <3> QED
        BY <1>1, <3>1
    <2>3. c.transaction.data.recipient \in Account
      <3> HIDE DEF c, e
      <3> QED
        BY <1>1, <1>2, <2>2 DEF Pays
    <2>4. c.transaction \in Transaction
      <3> HIDE DEF c
      <3> QED
        BY <2>1 DEF Candidate
    <2>5. Payer(c.transaction) \in Account
      <3> HIDE DEF c
      <3> QED
        BY <2>2 DEF Payer, Account
    <2>6. d.candidateSha256 = c
      <3> HIDE DEF c, a
      <3> QED
        BY DEF evaluate
    <2>7. d \in Decision
      <3>1. accepted(a, c) \in BOOLEAN
        BY DEF accepted
      <3> HIDE DEF c, a
      <3> QED
        BY <1>1, <2>1, <3>1 DEF evaluate, Decision
    <2> HIDE DEF d, c
    <2> QED
      BY <2>3, <2>4, <2>5, <2>6, <2>7 DEF Decided, Pays
  <1>4. /\ pc[w] = "decide" /\ UNCHANGED <<nodeVars, req, obs, gateVars, used>>
        /\ \/ Finish(w, "error") /\ UNCHANGED decision
           \/ /\ verify_evidence(e) /\ decision' = [decision EXCEPT ![w] = d]
              /\ \/ Goto(w, "decide", "gateBlock") /\ UNCHANGED result
                 \/ Finish(w, "rejected")
    BY DEF Decide
  <1> HIDE DEF a, c, d, e
  <1>5. "error" \in Outcomes /\ "rejected" \in Outcomes
    BY DEF Outcomes
  <1>6. Moves(w)
    <2>1. CASE Finish(w, "error") /\ UNCHANGED decision
      BY <1>4, <1>5, <2>1, PassMoves DEF TypeInv
    <2>2. CASE /\ decision' = [decision EXCEPT ![w] = d] /\ Decided(d)
               /\ \/ Goto(w, "decide", "gateBlock") /\ UNCHANGED result
                  \/ Finish(w, "rejected")
      <3>1. /\ "idle" \in Locations /\ "gateBlock" \in Locations
            /\ "idle" \notin Accepting
            /\ Onward("decide", "gateBlock") /\ Onward("decide", "idle")
        BY DEF Locations, Calls, Accepting, Onward, BeforeSimulation
      <3>2. d \in Decision
        BY <2>2 DEF Decided
      <3>3. /\ pc' \in [Worker -> Locations] /\ result' \in [Worker -> Outcomes]
            /\ \A v \in Worker \ {w} : pc'[v] = pc[v]
            /\ pc'[w] \in {"idle", "gateBlock"}
        BY <1>5, <2>2, <3>1 DEF TypeInv, ThreadsTyped, Goto, Finish
      <3>4. /\ decision' \in [Worker -> Decision \cup {NoDecision}]
            /\ \A v \in Worker \ {w} : decision'[v] = decision[v]
            /\ decision'[w] = d
        BY <2>2, <3>2 DEF TypeInv, ThreadsTyped
      <3> QED
        BY <1>4, <2>2, <3>1, <3>3, <3>4 DEF TypeInv, ThreadsTyped, Moves
    <2> QED
      BY <1>3, <1>4, <2>1, <2>2
  <1>7. GateTyped'
    BY <1>4 DEF TypeInv, GateTyped, gateVars
  <1> QED
    BY <1>4, <1>6, <1>7, NodeAlone

\* An execution starts.
LEMMA StartTyped ==
    ASSUME GateInv, FloorInv, NodeInv, RunInv, CountInv, TypeInv, NEW w \in Worker, Start(w)
    PROVE  CountInv' /\ TypeInv'
  <1>1. CountInv'
    BY StartKeepsCountInv
  <1>2. /\ UNCHANGED nodeVars /\ UNCHANGED gateVars
        /\ used.runs < MaxRuns
    BY DEF Start
  <1>3. NodeTyped' /\ GateTyped'
    BY <1>2, NodeKeptTyped DEF TypeInv, GateTyped, gateVars
  <1>4. UsedTyped'
    <2>1. used.runs \in 0 .. MaxRuns /\ MaxRuns \in Nat
      BY ExecutionAssumption DEF TypeInv, UsedTyped
    <2>2. used.runs + 1 \in 0 .. MaxRuns
      BY <1>2, <2>1
    <2>3. used' = [used EXCEPT !.runs = used.runs + 1]
      BY DEF Start
    <2> QED
      BY <2>2, <2>3 DEF TypeInv, UsedTyped
  <1>5. ThreadsTyped'
    <2> DEFINE o == Nothing(used.runs + 1)
    <2>1. o \in Words
      BY NothingInWords DEF RunInv
    <2>2. /\ pc' = [pc EXCEPT ![w] = "block"]
          /\ \E r \in Request : req' = [req EXCEPT ![w] = r]
          /\ obs' = [obs EXCEPT ![w] = o]
          /\ decision' = [decision EXCEPT ![w] = NoDecision]
          /\ result' = [result EXCEPT ![w] = "running"]
      BY DEF Start, Goto
    <2> HIDE DEF o
    <2>3. "block" \in Locations /\ "block" \notin Accepting /\ "running" \in Outcomes
      BY DEF Locations, Calls, Accepting, Outcomes
    <2>4. /\ pc' \in [Worker -> Locations] /\ req' \in [Worker -> Request]
          /\ obs' \in [Worker -> Words]
          /\ decision' \in [Worker -> Decision \cup {NoDecision}]
          /\ result' \in [Worker -> Outcomes]
      BY <2>1, <2>2, <2>3 DEF TypeInv, ThreadsTyped
    <2>5. \A v \in Worker : pc'[v] \in Accepting => Decided(decision'[v])
      <3>1. \A v \in Worker \ {w} : pc'[v] = pc[v] /\ decision'[v] = decision[v]
        BY <2>2 DEF TypeInv, ThreadsTyped
      <3>2. pc'[w] = "block"
        BY <2>2 DEF TypeInv, ThreadsTyped
      <3> QED
        BY <2>3, <3>1, <3>2 DEF TypeInv, ThreadsTyped
    <2> QED
      BY <2>4, <2>5 DEF ThreadsTyped
  <1> QED
    BY <1>1, <1>3, <1>4, <1>5 DEF TypeInv

LEMMA EnvironmentTyped ==
    ASSUME InWords, Addressed, GateInv, FloorInv, NodeInv, NodeInv', RunInv,
           CountInv, TypeInv, Environment
    PROVE  CountInv' /\ TypeInv'
  <1>1. CASE MineQueued /\ UNCHANGED <<workerVars, gateVars, used>>
    <2>1. UNCHANGED <<pc, req, obs, decision, result, consumed, sent, used>>
      BY <1>1 DEF workerVars, gateVars
    <2>2. CountInv'
      BY <1>1, <2>1, MineQueuedKeepsCountInv
    <2>3. NodeTyped'
      BY <1>1, MineQueuedTyped DEF TypeInv
    <2>4. ThreadsTyped' /\ GateTyped' /\ UsedTyped'
      BY <2>1 DEF TypeInv, ThreadsTyped, GateTyped, UsedTyped
    <2> QED
      BY <2>2, <2>3, <2>4 DEF TypeInv
  <1>2. CASE OwnTransfer \/ IncomingTransfer \/ AllowanceSpend
    <2>1. CountInv'
      BY <1>2, EventKeepsCountInv
    <2>2. NodeTyped'
      BY <1>2, EventTyped DEF TypeInv
    <2>3. /\ used.events < MaxEvents /\ used' = [used EXCEPT !.events = used.events + 1]
          /\ UNCHANGED <<pc, req, decision, result, gateVars>>
          /\ \/ obs' = obs
             \/ obs' = [w \in Worker |->
                            IF pc[w] \in {"gateNonce", "consume", "send"}
                            THEN [obs[w] EXCEPT !.drained = TRUE] ELSE obs[w]]
      BY <1>2 DEF OwnTransfer, IncomingTransfer, AllowanceSpend, Event
    <2>4. UsedTyped'
      <3>1. used.events \in 0 .. MaxEvents /\ MaxEvents \in Nat
        BY ExecutionAssumption DEF TypeInv, UsedTyped
      <3>2. used.events + 1 \in 0 .. MaxEvents
        BY <2>3, <3>1
      <3> QED
        BY <2>3, <3>2 DEF TypeInv, UsedTyped
    <2>5. obs' \in [Worker -> Words]
      <3>1. \A w \in Worker : obs[w] \in Words
        BY DEF TypeInv, ThreadsTyped
      <3>2. \A w \in Worker : [obs[w] EXCEPT !.drained = TRUE] \in Words
        BY <3>1, RecordMark
      <3> QED
        BY <2>3, <3>1, <3>2 DEF TypeInv, ThreadsTyped
    <2>6. ThreadsTyped' /\ GateTyped'
      BY <2>3, <2>5 DEF TypeInv, ThreadsTyped, GateTyped, gateVars
    <2> QED
      BY <2>1, <2>2, <2>4, <2>6 DEF TypeInv
  <1>3. CASE Crash
    <2>1. /\ UNCHANGED <<nodeVars, req, obs, decision>>
          /\ pc' = [w \in Worker |-> "idle"]
          /\ result' = [w \in Worker |-> IF pc[w] = "idle" THEN result[w] ELSE "error"]
          /\ consumed' = {} /\ sent' = <<>>
          /\ \E kind : Fault(kind) \/ TearingFault(kind)
      BY <1>3 DEF Crash
    <2>2. NodeTyped' /\ queue' = queue /\ chain' = chain
      BY <2>1, NodeKeptTyped DEF TypeInv, nodeVars
    <2>3. UsedTyped' /\ used'.runs = used.runs /\ used'.events = used.events
      BY <2>1, CountersTyped DEF TypeInv
    <2>4. GateTyped'
      BY <2>1 DEF GateTyped
    <2>5. ThreadsTyped'
      <3>1. "idle" \in Locations /\ "idle" \notin Accepting /\ "error" \in Outcomes
        BY DEF Locations, Accepting, Outcomes
      <3> QED
        BY <2>1, <3>1 DEF TypeInv, ThreadsTyped
    <2>6. \A v \in Worker : Onward(pc[v], pc'[v]) /\ obs'[v].run = obs[v].run
      BY <2>1 DEF Onward
    <2>7. chain'.nonce <= chain.nonce
      BY <2>2, ChainNonce
    <2>8. CountInv'
      BY <2>2, <2>3, <2>6, <2>7, QuietKeepsCountInv
    <2> QED
      BY <2>2, <2>3, <2>4, <2>5, <2>8 DEF TypeInv
  <1> QED
    BY <1>1, <1>2, <1>3 DEF Environment

LEMMA TypesInit == InWords /\ Init => CountInv /\ TypeInv
  <1> SUFFICES ASSUME InWords, Init PROVE CountInv /\ TypeInv
    OBVIOUS
  <1>1. /\ chain = Genesis /\ snapshots = {} /\ queue = {}
        /\ pc = [w \in Worker |-> "idle"]
        /\ req \in [Worker -> {CHOOSE r \in Request : TRUE}]
        /\ obs = [w \in Worker |-> Nothing(0)]
        /\ decision = [w \in Worker |-> NoDecision]
        /\ result = [w \in Worker |-> "none"]
        /\ consumed = {} /\ sent = <<>>
        /\ used = [runs |-> 0, events |-> 0, faults |-> 0, torn |-> FALSE]
    BY DEF Init, NodeInit
  <1>2. CountInv
    <2>1. \A t : t \notin Owed
      <3>1. \A v \in Worker : Due(pc[v], obs[v].run) = {}
        BY <1>1 DEF Due, BeforeSimulation
      <3> QED
        BY <1>1, <3>1, OwedMeans
    <2>2. Owed = {}
      BY <2>1
    <2>3. QueueInv
      BY <1>1 DEF QueueInv
    <2>4. Fits(Owed, chain.nonce, used)
      <3>1. chain.nonce = 0 /\ used.runs = 0 /\ used.events = 0
        BY <1>1 DEF Genesis
      <3> QED
        BY <2>2, <3>1, FS_EmptySet DEF Fits
    <2> QED
      BY <2>3, <2>4 DEF CountInv
  <1>3. NodeTyped
    <2>1. Genesis \in ChainState
      <3>1. StartBalance \in Nat
        BY NodeAssumption, WordNumbers
      <3>2. <<>> \in Seq(BlockBody) /\ <<>> \in Seq(Origin) /\ <<>> \in Seq(Nat)
        OBVIOUS
      <3> QED
        BY <3>1, <3>2 DEF Genesis, ChainState
    <2>2. Chains = {Genesis}
      BY <1>1 DEF Chains
    <2> QED
      BY <1>1, <2>1, <2>2, SupplyAtGenesis DEF NodeTyped, Typed
  <1>4. ThreadsTyped
    <2>1. "idle" \in Locations /\ "idle" \notin Accepting /\ "none" \in Outcomes
      BY DEF Locations, Accepting, Outcomes
    <2>2. (CHOOSE r \in Request : TRUE) \in Request
      BY ExecutionAssumption
    <2>3. Nothing(0) \in Words
      BY NothingInWords
    <2> QED
      BY <1>1, <2>1, <2>2, <2>3 DEF ThreadsTyped
  <1>5. GateTyped /\ UsedTyped
    BY <1>1, ExecutionAssumption DEF GateTyped, UsedTyped
  <1> QED
    BY <1>2, <1>3, <1>4, <1>5 DEF TypeInv

LEMMA TypesStep ==
    ASSUME InWords, Addressed, GateInv, FloorInv, RestoreInv, RestoreInv',
           CountInv, TypeInv, [Next]_vars
    PROVE  CountInv' /\ TypeInv'
  <1>1. NodeInv /\ NodeInv' /\ RunInv
    BY DEF RestoreInv
  <1>2. ASSUME NEW w \in Worker, Step(w) \/ NoopRevert(w)
        PROVE  CountInv' /\ TypeInv'
    BY <1>1, <1>2, ReadsTyped, ChecksTyped, SnapshotsTyped, SendersTyped, DecideTyped DEF Step
  <1>3. ASSUME NEW w \in Worker, Start(w) \/ TransportFails(w) \/ ResponseLost(w)
        PROVE  CountInv' /\ TypeInv'
    BY <1>1, <1>3, StartTyped, SendersTyped, LostRevertTyped
  <1>4. CASE UNCHANGED vars
    <2>1. /\ UNCHANGED <<chain, snapshots, queue>>
          /\ UNCHANGED <<pc, req, obs, decision, result, consumed, sent, used>>
      BY <1>4 DEF vars, nodeVars, workerVars, gateVars
    <2>2. \A v \in Worker : Onward(pc[v], pc'[v]) /\ obs'[v].run = obs[v].run
      BY <2>1, OnwardFromThere
    <2>3. chain'.nonce <= chain.nonce
      BY <1>1, <2>1, ChainNonce
    <2>4. CountInv'
      BY <1>1, <2>1, <2>2, <2>3, QuietKeepsCountInv
    <2>5. NodeTyped'
      BY <2>1 DEF TypeInv, NodeTyped, Chains
    <2> QED
      BY <2>1, <2>4, <2>5 DEF TypeInv, ThreadsTyped, GateTyped, UsedTyped
  <1> QED
    BY <1>1, <1>2, <1>3, <1>4, EnvironmentTyped DEF Next

\* Whatever the threads, the other users of the node and the faults do, every
\* balance, nonce and gas limit that is observed, simulated, judged or handed to
\* the sender is one that core/models.py accepts (at most UINT256_MAX), provided
\* the supply of the token and the number of transactions ever sent are.
THEOREM ExecutionTypes ==
    ASSUME InWords, Addressed
    PROVE  Spec => []TypeOK
  <1>1. Spec => []GateInv
    BY GateInit, GateStep, PTL DEF Spec
  <1>2. Spec => [](GateInv /\ FloorInv)
    BY <1>1, FloorInit, FloorStep, PTL DEF Spec
  <1>3. Spec => []RestoreInv
    BY <1>2, RestoreInit, RestoreStep, PTL DEF Spec
  <1>4. Init => CountInv /\ TypeInv
    BY TypesInit
  <1>5. /\ GateInv /\ FloorInv /\ RestoreInv /\ RestoreInv'
        /\ CountInv /\ TypeInv /\ [Next]_vars
        => CountInv' /\ TypeInv'
    BY TypesStep
  <1>6. Spec => [](CountInv /\ TypeInv)
    BY <1>2, <1>3, <1>4, <1>5, PTL DEF Spec
  <1>7. NodeInv /\ TypeInv => TypeOK
    <2> SUFFICES ASSUME NodeInv, TypeInv PROVE TypeOK
      OBVIOUS
    <2>1. Words \subseteq Observation
      BY WordNumbers DEF Words, Observation
    <2>2. /\ chain \in ChainState /\ nextId \in Nat
          /\ \A s \in snapshots : s.id \in 0 .. nextId - 1 /\ s.chain \in ChainState
      BY DEF TypeInv, NodeTyped, Typed, Chains, NodeInv
    <2>3. \A q \in queue : q.tx \in Transaction /\ q.origin \in Origin
      BY DEF TypeInv, NodeTyped, Pays
    <2>4. obs \in [Worker -> Observation]
      BY <2>1 DEF TypeInv, ThreadsTyped
    <2> QED
      BY <2>2, <2>3, <2>4 DEF TypeOK, TypeInv, ThreadsTyped, GateTyped, UsedTyped, Outcomes
  <1>8. RestoreInv => NodeInv
    BY DEF RestoreInv
  <1> QED
    BY <1>3, <1>6, <1>7, <1>8, PTL

=============================================================================
