---------------------------- MODULE AgentWallet ----------------------------
(***************************************************************************)
(* The Agent Wallet path: a script writes a bundle (an approval and an     *)
(* exact transfer with the chain context it was computed in), and a        *)
(* process checks the bundle, simulates it, reads the context again and    *)
(* hands the transfer to the wallet's command line, then verifies the      *)
(* receipt (research/build_agent_wallet_direct_bundle.py,                  *)
(* chain/src/agent-wallet-direct-floor.ts, agent-wallet-runtime.ts,        *)
(* delegated-floor-gate.ts, agent-wallet-cli.ts).                          *)
(*                                                                         *)
(* On the direct path the guarded wallet itself sends; on the delegated    *)
(* path a delegate redeems a signed delegation.  Both read one nonce and   *)
(* one balance, so they share the network model.  The wallet service       *)
(* behind the command line is external: it broadcasts a request now, later *)
(* (second factor) or never, and tells the process or does not.            *)
(*                                                                         *)
(* Links stand for every comparison of hashes, addresses, chain ids and    *)
(* the approval's confirmation: they all hold, or one does not.            *)
(***************************************************************************)
EXTENDS PublicNetwork

CONSTANTS
    Runner,         \* processes: run-agent-wallet(-direct).ts
    Path,           \* "direct", "delegated"
    Floor,          \* balance floors of the approvals
    Amount,         \* transfer amounts
    None,
    Events,         \* what happens besides: subset of EventKind
    MaxBuilds,      \* bound: bundles written
    MaxRuns,        \* bound: processes started
    MaxEdits,       \* bound: bundles changed by hand
    MaxEvents       \* bound: events

EventKind == {"spend", "incoming", "own", "replace", "drop", "active", "kill"}

ASSUME AgentAssumption ==
    /\ Path \subseteq {"direct", "delegated"}
    /\ Floor \subseteq Nat /\ Amount \subseteq Nat \ {0}
    /\ Events \subseteq EventKind
    /\ MaxBuilds \in Nat /\ MaxRuns \in Nat
    /\ MaxEdits \in Nat /\ MaxEvents \in Nat

VARIABLES
    bundle,     \* the bundle file, or None
    draft,      \* the bundle a script is building, or None
    run,        \* each process and its locals
    requests,   \* transfers the wallet service took: each may be broadcast, even again
    active,     \* whether the wallet the command line uses is the right one
    handed,     \* history: [bundle, look, tx] of every transfer handed over
    verified,   \* history: [bundle, block] of every broadcast result
    evidence,   \* history: [bundle, block] of every evidence source captured
    used        \* [builds, runs, edits, events]: the bounded counters

fileVars == <<bundle, draft>>
walletVars == <<requests, active>>
historyVars == <<handed, verified, evidence>>
vars == <<networkVars, fileVars, run, walletVars, historyVars, used>>

-----------------------------------------------------------------------------
(* Bundles: DirectFloorCandidate, DelegatedFloorCandidate and approval. *)

\* data is the amount in the calldata, amount the one in the effect; nonce is
\* the execution's, contextNonce the one in the context.
Bundle == [path : Path, floor : Nat, linked : BOOLEAN, block : Nat,
           balance : Nat, contextNonce : Nat, nonce : Nat, data : Nat,
           amount : Nat, after : Nat]

ExecutionOf(b) == [nonce |-> b.nonce, amount |-> b.data, own |-> FALSE,
                   network |-> "policy"]

\* verifyDirectTransferBinding, verifyDelegatedExecutionBinding
Binds(b) == b.data = b.amount

\* Faulty: the effect is believed.
Eligible_BelievesEffect(b) ==
    /\ b.linked
    /\ b.amount # 0
    /\ b.after >= b.floor
    /\ b.nonce = b.contextNonce
    /\ Binds(b)

\* evaluateDirectFloor; for a delegated bundle evaluateDelegatedFloor and the
\* binding, which every path checks as well.
Eligible(b) ==
    /\ b.linked
    /\ b.amount # 0
    /\ b.balance >= b.amount /\ b.balance - b.amount = b.after
    /\ b.after >= b.floor
    /\ b.nonce = b.contextNonce
    /\ Binds(b)

-----------------------------------------------------------------------------
(* build_agent_wallet_direct_bundle.py, and the reject variant of it. *)

\* Faulty: the amount is not compared with the balance.
BuildStart_AnyAmount(path, floor, amount) ==
    /\ draft = None
    /\ used.builds < MaxBuilds
    /\ used' = [used EXCEPT !.builds = @ + 1]
    /\ draft' = [path |-> path, floor |-> floor, linked |-> TRUE,
                 block |-> Len(blocks), balance |-> Balance,
                 contextNonce |-> 0, nonce |-> 0, data |-> amount,
                 amount |-> amount, after |-> Balance - amount]
    /\ UNCHANGED <<networkVars, bundle, run, walletVars, historyVars>>

\* The script reads a block and, at that block, the balance.
BuildStart(path, floor, amount) ==
    /\ draft = None
    /\ used.builds < MaxBuilds
    /\ used' = [used EXCEPT !.builds = @ + 1]
    /\ Balance >= amount
    /\ draft' = [path |-> path, floor |-> floor, linked |-> TRUE,
                 block |-> Len(blocks), balance |-> Balance,
                 contextNonce |-> 0, nonce |-> 0, data |-> amount,
                 amount |-> amount, after |-> Balance - amount]
    /\ UNCHANGED <<networkVars, bundle, run, walletVars, historyVars>>

\* It reads the pending nonce, has the policy compiled and approved, and writes
\* the file; --overwrite replaces an older one.
BuildEnd ==
    /\ draft # None
    /\ bundle' = [draft EXCEPT !.contextNonce = PendingNonce, !.nonce = PendingNonce]
    /\ draft' = None
    /\ UNCHANGED <<networkVars, run, walletVars, historyVars, used>>

\* A file can be changed by hand: its calldata or effect, its nonce, its floor
\* with the approval it came from.
Edits(b) ==
    {[b EXCEPT !.data = b.data + 1], [b EXCEPT !.after = b.after + 1],
     [b EXCEPT !.nonce = b.nonce + 1],
     [b EXCEPT !.floor = b.floor + 1, !.linked = FALSE],
     [b EXCEPT !.amount = b.amount + 1, !.data = b.data + 1]}

Edit ==
    /\ bundle # None
    /\ used.edits < MaxEdits
    /\ used' = [used EXCEPT !.edits = @ + 1]
    /\ bundle' \in Edits(bundle)
    /\ UNCHANGED <<networkVars, draft, run, walletVars, historyVars>>

-----------------------------------------------------------------------------
(* A process. *)

ContextPart == {"block", "nonce", "balance"}

Locations == {"idle", "simulate", "context", "address", "handover", "cli",
              "receipt", "verify", "verified"}

\* todo holds the reads of the context that are out, same what they said so far.
Locals == [bundle : Bundle \cup {None}, todo : SUBSET ContextPart, same : BOOLEAN,
           look : Nat, tx : Tx \cup {None}, mined : Nat]

NoLocals == [bundle |-> None, todo |-> {}, same |-> FALSE, look |-> 0,
             tx |-> None, mined |-> 0]

At(r, pc) == run[r].pc = pc
Moves(r, pc, at) == run' = [run EXCEPT ![r] = [pc |-> pc, at |-> at]]

\* The process ends with exit code 1, or after a preflight with its result.
Ends(r) == Moves(r, "idle", NoLocals)

RunOnly == UNCHANGED <<networkVars, fileVars, walletVars, historyVars, used>>

\* The file is parsed and checked for its form; a delegated bundle has to be
\* eligible at once.
Start(r) ==
    /\ At(r, "idle") /\ bundle # None
    /\ used.runs < MaxRuns
    /\ used' = [used EXCEPT !.runs = @ + 1]
    /\ bundle.path = "delegated" => Eligible(bundle)
    /\ Moves(r, "simulate", [NoLocals EXCEPT !.bundle = bundle])
    /\ UNCHANGED <<networkVars, fileVars, walletVars, historyVars>>

\* eth_call of the calldata on the latest block.
Simulate(r) ==
    /\ At(r, "simulate")
    /\ IF TransferWorks(run[r].at.bundle.data)
       THEN Moves(r, "context", [run[r].at EXCEPT !.todo = ContextPart, !.same = TRUE])
       ELSE Ends(r)
    /\ RunOnly

\* Faulty: the balance is not compared.
StillValid_AnyBalance(b, what) ==
    \/ what = "block" /\ Len(blocks) >= b.block
    \/ what = "nonce" /\ PendingNonce = b.contextNonce
    \/ what = "balance"

\* contextStillValid on the direct path, canonical equality on the other, part by
\* part: the chain only grows here, so the block number stands for the hash.
StillValid(b, what) ==
    \/ what = "block" /\ Len(blocks) >= b.block
                      /\ (b.path = "delegated" => Len(blocks) = b.block)
    \/ what = "nonce" /\ PendingNonce = b.contextNonce
    \/ what = "balance" /\ Balance = b.balance

\* readContext: three answers in any order.  After the last a preflight ends,
\* and a direct bundle is evaluated only now.
ReadContext(r, what) ==
    /\ At(r, "context") /\ what \in run[r].at.todo
    /\ LET old == run[r].at
           at == [old EXCEPT !.todo = @ \ {what},
                             !.same = @ /\ StillValid(old.bundle, what),
                             !.look = IF what = "balance" THEN Len(blocks) ELSE @]
       IN  IF at.todo # {} THEN Moves(r, "context", at)
           ELSE \/ /\ at.same /\ Eligible(at.bundle)
                   /\ Moves(r, "address", [NoLocals EXCEPT !.bundle = at.bundle,
                                                           !.look = at.look])
                \/ Ends(r)
    /\ RunOnly

-----------------------------------------------------------------------------
(* createAgentWalletCliSender, and the wallet service behind it. *)

\* `wallet address` must name the sender.
CheckAddress(r) ==
    /\ At(r, "address")
    /\ IF active THEN Moves(r, "handover", run[r].at) ELSE Ends(r)
    /\ RunOnly

\* Faulty: the wallet fills in the nonce that is due.
Payload_NextNonce(b) == [ExecutionOf(b) EXCEPT !.nonce = PendingNonce]

\* buildAgentWalletTransactionPayload
Payload(b) == ExecutionOf(b)

\* `wallet send-transaction --wait`: the service takes the request, or refuses.
HandOver(r) ==
    /\ At(r, "handover")
    /\ LET b == run[r].at.bundle
       IN  \/ /\ requests' = requests \cup {Payload(b)}
              /\ handed' = handed \cup {[bundle |-> b, look |-> run[r].at.look,
                                        tx |-> Payload(b)]}
              /\ Moves(r, "cli", [NoLocals EXCEPT !.bundle = b])
           \/ Ends(r) /\ UNCHANGED <<requests, handed>>
    /\ UNCHANGED <<networkVars, fileVars, active, verified, evidence, used>>

\* The service signs and broadcasts a request, at any time or never.
Broadcast ==
    /\ \E tx \in requests : Takes(tx) /\ Pooled(tx)
    /\ UNCHANGED <<fileVars, run, walletVars, historyVars, used>>

\* The command prints one hash: of a transaction the wallet sent.
CliPrints(r) ==
    /\ At(r, "cli")
    /\ \E tx \in pool \cup {blocks[i].tx : i \in MinedNonces} :
           Moves(r, "receipt", [run[r].at EXCEPT !.tx = tx])
    /\ RunOnly

\* It times out, asks for a second factor, or prints no hash, or several; the
\* request stays with the service.
CliFails(r) == At(r, "cli") /\ Ends(r) /\ RunOnly

-----------------------------------------------------------------------------
(* verifyReceipt. *)

\* waitForTransactionReceipt answers for the printed transaction, or for one the
\* wallet replaced it by: the one that was mined with its nonce.
ReceiptBlocks(tx) == {i \in MinedNonces : blocks[i].tx.nonce = tx.nonce}

Receipt(r) ==
    /\ At(r, "receipt")
    /\ \E i \in ReceiptBlocks(run[r].at.tx) :
           IF blocks[i].ok
           THEN Moves(r, "verify", [run[r].at EXCEPT !.mined = i])
           ELSE Ends(r)
    /\ RunOnly

\* Faulty: a receipt is awaited without a limit.
ReceiptTimeout_Never(r) ==
    At(r, "receipt") /\ run[r].at.tx.own /\ Ends(r) /\ RunOnly

\* 120 seconds on the direct path, 60 on the other.
ReceiptTimeout(r) == At(r, "receipt") /\ Ends(r) /\ RunOnly

\* Faulty: the transaction behind the hash is not looked at.
Confirms_BalanceOnly(at) == blocks[at.mined].left = at.bundle.after

\* getTransaction finds the printed hash, pending or mined; one that was replaced
\* is not found.
Found(tx) == tx \in pool \/ BlocksOf(tx) # {}

\* The transaction behind the printed hash is the approved execution, and the
\* wallet holds at the receipt's block what the effect says.
Confirms(at) ==
    /\ Found(at.tx) /\ at.tx = ExecutionOf(at.bundle)
    /\ blocks[at.mined].left = at.bundle.after

Verify(r) ==
    /\ At(r, "verify")
    /\ LET at == run[r].at
       IN  IF Confirms(at)
           THEN /\ Moves(r, "verified", [NoLocals EXCEPT !.bundle = at.bundle,
                                                         !.mined = at.mined])
                /\ verified' = verified
                       \cup {[bundle |-> at.bundle, block |-> at.mined]}
           ELSE Ends(r) /\ UNCHANGED verified
    /\ UNCHANGED <<networkVars, fileVars, walletVars, handed, evidence, used>>

\* Faulty: the result is not compared with the bundle it is filed with.
SameCandidate_Unchecked(r) == bundle.path = "direct"

SameCandidate(r) == bundle = run[r].at.bundle

\* capture_agent_wallet_direct_accept.py looks at the chain by itself, with the
\* bundle file as it is then.
Capture(r) ==
    /\ At(r, "verified")
    /\ LET i == run[r].at.mined
       IN  evidence' =
             IF /\ bundle.path = "direct" /\ SameCandidate(r)
                /\ blocks[i].ok /\ blocks[i].tx = ExecutionOf(bundle)
                /\ blocks[i].tx.amount = bundle.amount
                /\ blocks[i].left = bundle.after
             THEN evidence \cup {[bundle |-> bundle, block |-> i]}
             ELSE evidence
    /\ Ends(r)
    /\ UNCHANGED <<networkVars, fileVars, walletVars, handed, verified, used>>

-----------------------------------------------------------------------------
Mine == MineTx /\ UNCHANGED <<fileVars, run, walletVars, historyVars, used>>

\* The user selects another Agent Wallet; a process is stopped.
Event ==
    /\ used.events < MaxEvents
    /\ used' = [used EXCEPT !.events = @ + 1]
    /\ \E kind \in Events :
          \/ NetworkEvent(kind) /\ UNCHANGED <<run, active>>
          \/ kind = "active" /\ active' = ~active /\ UNCHANGED <<networkVars, run>>
          \/ /\ kind = "kill" /\ \E r \in Runner : ~At(r, "idle") /\ Ends(r)
             /\ UNCHANGED <<networkVars, active>>
    /\ UNCHANGED <<fileVars, requests, historyVars>>

Init ==
    /\ NetworkInit
    /\ bundle = None /\ draft = None
    /\ run = [r \in Runner |-> [pc |-> "idle", at |-> NoLocals]]
    /\ requests = {} /\ active = TRUE
    /\ handed = {} /\ verified = {} /\ evidence = {}
    /\ used = [builds |-> 0, runs |-> 0, edits |-> 0, events |-> 0]

RunStep(r) ==
    \/ Simulate(r)
    \/ \E what \in ContextPart : ReadContext(r, what)
    \/ CheckAddress(r) \/ HandOver(r) \/ CliPrints(r) \/ CliFails(r)
    \/ Receipt(r) \/ ReceiptTimeout(r) \/ Verify(r) \/ Capture(r)

Operator ==
    \/ \E path \in Path, floor \in Floor, amount \in Amount :
          BuildStart(path, floor, amount)
    \/ BuildEnd \/ Edit
    \/ \E r \in Runner : Start(r)

Next ==
    \/ (\E r \in Runner : RunStep(r))
    \/ Operator \/ Broadcast \/ Mine \/ Event

Spec == Init /\ [][Next]_vars

\* Every call a process waits for returns or times out; the wallet service and
\* the network need do nothing.
FairSpec == Spec /\ \A r \in Runner : WF_vars(RunStep(r))

-----------------------------------------------------------------------------
(* Properties. *)

\* The type invariant.
TypeOK ==
    /\ NetworkTypeOK
    /\ bundle \in Bundle \cup {None} /\ draft \in Bundle \cup {None}
    /\ run \in [Runner -> [pc : Locations, at : Locals]]
    /\ requests \subseteq Tx /\ active \in BOOLEAN
    /\ handed \subseteq [bundle : Bundle, look : Nat, tx : Tx]
    /\ verified \subseteq [bundle : Bundle, block : Nat]
    /\ evidence \subseteq [bundle : Bundle, block : Nat]
    /\ used \in [builds : 0 .. MaxBuilds, runs : 0 .. MaxRuns,
                 edits : 0 .. MaxEdits, events : 0 .. MaxEvents]

\* The chain executed a bundle as it was approved.
ExactOnChain(b, i) ==
    /\ Eligible(b)
    /\ blocks[i].ok
    /\ blocks[i].tx = ExecutionOf(b)
    /\ blocks[i].left = b.balance - b.amount
    /\ blocks[i].left >= b.floor

\* A broadcast result is returned only for a transfer the chain executed exactly
\* as approved, even when the wallet's own transfer was pending as the context
\* was read, the command line printed another hash, or the receipt is that of a
\* transaction the user replaced the printed one by
\* (chain/src/agent-wallet-direct-floor.ts:333-365).
VerifiedIsExact == \A v \in verified : ExactOnChain(v.bundle, v.block)

\* Evidence is filed only with the bundle that was run, though the file may have
\* been rewritten since (research/capture_agent_wallet_direct_accept.py:60-120).
EvidenceIsExact ==
    \A e \in evidence : e \in verified /\ ExactOnChain(e.bundle, e.block)

\* What was handed over, if it is mined right after the last look at the
\* balance, moves what was approved and keeps the floor, whoever edited the
\* bundle (chain/src/agent-wallet-direct-floor.ts:275-284, 384-410).
HandedKeepsFloor ==
    \A h \in handed :
        LET n == h.look + 1
        IN  n \in DOMAIN blocks /\ blocks[n].tx = h.tx /\ blocks[n].ok
                => /\ blocks[n].left = h.bundle.after
                   /\ h.bundle.after >= h.bundle.floor

\* Running one bundle again, after a timeout or a second factor that came late,
\* or in two processes at once, never moves its tokens twice
\* (chain/src/agent-wallet-cli.ts:82-93, 117-140).
BundleMinedOnce ==
    \A h, g \in handed : h.bundle = g.bundle =>
        \A i \in BlocksOf(h.tx), j \in BlocksOf(g.tx) : i = j

\* A process never waits for ever, whatever the wallet service and the network
\* leave undone (chain/src/agent-wallet-cli.ts:107,
\* chain/src/agent-wallet-direct-floor.ts:338).
RunEnds == \A r \in Runner : ~At(r, "idle") ~> At(r, "idle")

=============================================================================
