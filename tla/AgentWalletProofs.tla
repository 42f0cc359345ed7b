------------------------- MODULE AgentWalletProofs -------------------------
(***************************************************************************)
(* The Agent Wallet path, for any number of processes, bundles, edits and  *)
(* events: what is handed over is an approved bundle whose balance was     *)
(* seen, what is verified the chain executed exactly, and a bundle moves   *)
(* its tokens once.                                                        *)
(***************************************************************************)
EXTENDS AgentWallet, PublicNetworkProofs, SequenceTheorems

-----------------------------------------------------------------------------
(* The invariant. *)

Result == [bundle : Bundle, block : Nat]

\* The chain executed a bundle, in a block there is.
Executed(b, i) == i \in DOMAIN blocks /\ ExactOnChain(b, i)

\* What a process's locals are good for, where it is.
Fits(pc, at) ==
    /\ pc # "idle" => at.bundle \in Bundle
    /\ pc = "context" /\ "balance" \notin at.todo /\ at.same =>
           Held(at.look, at.bundle.balance)
    /\ pc \in {"address", "handover"} =>
           Eligible(at.bundle) /\ Held(at.look, at.bundle.balance)
    /\ pc \in {"cli", "receipt", "verify"} => Eligible(at.bundle)
    /\ pc = "verify" => /\ at.mined \in ReceiptBlocks(at.tx)
                        /\ blocks[at.mined].ok
    /\ pc = "verified" =>
           /\ Executed(at.bundle, at.mined)
           /\ [bundle |-> at.bundle, block |-> at.mined] \in verified

RunsFit == \A r \in Runner : Fits(run[r].pc, run[r].at)

\* Only eligible bundles are handed over, as they are.
EntryHolds(h) ==
    /\ h.bundle \in Bundle /\ Eligible(h.bundle) /\ h.tx = ExecutionOf(h.bundle)
    /\ Held(h.look, h.bundle.balance)

HistoryInv ==
    /\ \A h \in handed : EntryHolds(h)
    /\ \A v \in verified : Executed(v.bundle, v.block)
    /\ evidence \subseteq verified

AgentTypes ==
    /\ NetworkTypes
    /\ bundle \in Bundle \cup {None} /\ draft \in Bundle \cup {None}
    /\ run \in [Runner -> [pc : Locations, at : Locals]]
    /\ requests \subseteq Tx /\ active \in BOOLEAN
    /\ handed \subseteq [bundle : Bundle, look : Nat, tx : Tx]
    /\ verified \subseteq Result
    /\ used \in [builds : 0 .. MaxBuilds, runs : 0 .. MaxRuns,
                 edits : 0 .. MaxEdits, events : 0 .. MaxEvents]

AgentInv == AgentTypes /\ NetworkInv /\ RunsFit /\ HistoryInv

-----------------------------------------------------------------------------
(* What later blocks leave true. *)

LEMMA ExecutedStays ==
    ASSUME NetworkInv, NetworkInv', Extended
    PROVE  /\ \A b, i : Executed(b, i) => Executed(b, i)'
           /\ \A h : EntryHolds(h) => EntryHolds(h)'
  <1>1. \A i \in DOMAIN blocks : i \in DOMAIN blocks' /\ blocks'[i] = blocks[i]
    BY DEF Extended
  <1>2. \A b, i : Executed(b, i) => Executed(b, i)'
    BY <1>1 DEF Executed, ExactOnChain
  <1>3. \A h : EntryHolds(h) => EntryHolds(h)'
    BY HeldStays DEF EntryHolds
  <1> QED
    BY <1>2, <1>3

LEMMA FitsStays ==
    ASSUME NetworkInv, NetworkInv', Extended, verified \subseteq verified'
    PROVE  \A pc, at : Fits(pc, at) => Fits(pc, at)'
  <1>1. \A i \in DOMAIN blocks : i \in DOMAIN blocks' /\ blocks'[i] = blocks[i]
    BY DEF Extended
  <1>2. /\ \A look, balance : Held(look, balance) => Held(look, balance)'
        /\ \A b, i : Executed(b, i) => Executed(b, i)'
    BY HeldStays, ExecutedStays
  <1>3. \A tx : ReceiptBlocks(tx) \subseteq ReceiptBlocks(tx)'
    BY <1>1 DEF ReceiptBlocks, MinedNonces
  <1>4. \A tx : \A i \in ReceiptBlocks(tx) : blocks'[i] = blocks[i]
    BY <1>1 DEF ReceiptBlocks, MinedNonces
  <1> QED
    BY <1>1, <1>2, <1>3, <1>4 DEF Fits

LEMMA HistoryStays ==
    ASSUME HistoryInv, NetworkInv, NetworkInv', Extended, UNCHANGED historyVars
    PROVE  HistoryInv'
  BY ExecutedStays DEF HistoryInv, historyVars

LEMMA NoLocalsType == NoLocals \in Locals
  BY DEF NoLocals, Locals

LEMMA IdleFits == Fits("idle", NoLocals)
  BY DEF Fits

\* A process moves on, the others stay.
LEMMA RunMoves ==
    ASSUME run \in [Runner -> [pc : Locations, at : Locals]], RunsFit,
           NEW r \in Runner, NEW pc \in Locations, NEW at \in Locals,
           Moves(r, pc, at), Fits(pc, at)', \A p, a : Fits(p, a) => Fits(p, a)'
    PROVE  run' \in [Runner -> [pc : Locations, at : Locals]] /\ RunsFit'
  <1> DEFINE new == [pc |-> pc, at |-> at]
  <1>1. new \in [pc : Locations, at : Locals] /\ new.pc = pc /\ new.at = at
    OBVIOUS
  <1>2. run' = [run EXCEPT ![r] = new]
    BY DEF Moves
  <1> HIDE DEF new
  <1>3. /\ run' \in [Runner -> [pc : Locations, at : Locals]]
        /\ run'[r].pc = pc /\ run'[r].at = at
        /\ \A q \in Runner : q # r => run'[q] = run[q]
    BY <1>1, <1>2
  <1> QED
    BY <1>3 DEF RunsFit

\* A step that leaves the histories alone, and every process but those that
\* end or one that moves to where its locals fit.
LEMMA WorldKeeps ==
    ASSUME AgentInv, NetworkInv', NetworkTypes', Extended,
           bundle' \in Bundle \cup {None}, draft' \in Bundle \cup {None},
           run' \in [Runner -> [pc : Locations, at : Locals]],
           requests' \subseteq Tx, active' \in BOOLEAN,
           used' \in [builds : 0 .. MaxBuilds, runs : 0 .. MaxRuns,
                      edits : 0 .. MaxEdits, events : 0 .. MaxEvents],
           UNCHANGED historyVars,
           \A r \in Runner : \/ run'[r] = run[r]
                             \/ run'[r].pc = "idle" /\ run'[r].at = NoLocals
                             \/ Fits(run[r].pc, run[r].at)'
    PROVE  AgentInv'
  <1>1. HistoryInv'
    BY HistoryStays DEF AgentInv
  <1>2. \A p, a : Fits(p, a) => Fits(p, a)'
    BY FitsStays DEF AgentInv, historyVars
  <1>3. RunsFit'
    BY <1>2, IdleFits DEF AgentInv, RunsFit
  <1> QED
    BY <1>1, <1>3 DEF AgentInv, AgentTypes, historyVars

\* A step that changes nothing but the process.
LEMMA RunOnlyKeeps ==
    ASSUME AgentInv, NEW r \in Runner, NEW pc \in Locations, NEW at \in Locals,
           Moves(r, pc, at), Fits(pc, at), RunOnly
    PROVE  AgentInv'
  <1>1. UNCHANGED <<networkVars, fileVars, walletVars, historyVars, used>>
    BY DEF RunOnly
  <1>2. NetworkInv' /\ Extended /\ NetworkTypes'
    BY <1>1, NetworkUnchanged DEF AgentInv, AgentTypes
  <1>3. HistoryInv'
    BY <1>1, <1>2, HistoryStays DEF AgentInv
  <1>4. \A p, a : Fits(p, a) => Fits(p, a)'
    BY <1>1, <1>2, FitsStays DEF AgentInv, historyVars
  <1>5. run' \in [Runner -> [pc : Locations, at : Locals]] /\ RunsFit'
    BY <1>4, RunMoves DEF AgentInv, AgentTypes
  <1> QED
    BY <1>1, <1>2, <1>3, <1>5
       DEF AgentInv, AgentTypes, fileVars, walletVars, historyVars

LEMMA EndsKeeps ==
    ASSUME AgentInv, NEW r \in Runner, Ends(r), RunOnly
    PROVE  AgentInv'
  <1>1. "idle" \in Locations
    BY DEF Locations
  <1> QED
    BY <1>1, NoLocalsType, IdleFits, RunOnlyKeeps DEF Ends

LEMMA RunFits ==
    ASSUME AgentInv, NEW r \in Runner
    PROVE  /\ run[r].pc \in Locations /\ run[r].at \in Locals
           /\ Fits(run[r].pc, run[r].at)
           /\ Balance \in Nat /\ PendingNonce \in Nat
           /\ Len(blocks) \in Nat /\ DOMAIN blocks = 1 .. Len(blocks)
           /\ Held(Len(blocks), Balance)
  <1>1. run[r] \in [pc : Locations, at : Locals]
    BY DEF AgentInv, AgentTypes
  <1>2. /\ Len(blocks) \in Nat /\ DOMAIN blocks = 1 .. Len(blocks)
        /\ Balance \in Nat /\ Held(Len(blocks), Balance)
    BY BlocksForm DEF AgentInv, NetworkInv, Balance, Held
  <1>3. PendingNonce \in Nat
    BY PendingNonceDefined DEF AgentInv, AgentTypes
  <1> QED
    BY <1>1, <1>2, <1>3 DEF AgentInv, RunsFit

-----------------------------------------------------------------------------
(* The steps of a process. *)

LEMMA SimulateKeeps ==
    ASSUME AgentInv, NEW r \in Runner, Simulate(r)
    PROVE  AgentInv'
  <1> DEFINE at == [run[r].at EXCEPT !.todo = ContextPart, !.same = TRUE]
  <1>1. RunOnly /\ (Moves(r, "context", at) \/ Ends(r))
    BY Zenon DEF Simulate
  <1>2. run[r].at \in Locals /\ run[r].at.bundle \in Bundle
    BY RunFits DEF Simulate, At, Fits
  <1>3. at \in Locals /\ at.bundle = run[r].at.bundle /\ at.todo = ContextPart
    BY <1>2 DEF Locals
  <1> HIDE DEF at
  <1>4. Fits("context", at) /\ "context" \in Locations
    BY <1>2, <1>3 DEF Fits, ContextPart, Locations
  <1> QED
    BY <1>1, <1>3, <1>4, RunOnlyKeeps, EndsKeeps

\* The balance is that of the bundle when all three reads agreed.
LEMMA ReadContextKeeps ==
    ASSUME AgentInv, NEW r \in Runner, NEW what \in ContextPart, ReadContext(r, what)
    PROVE  AgentInv'
  <1> DEFINE old == run[r].at
             valid == StillValid(old.bundle, what)
             look == IF what = "balance" THEN Len(blocks) ELSE old.look
             at == [old EXCEPT !.todo = @ \ {what}, !.same = @ /\ valid,
                               !.look = IF what = "balance" THEN Len(blocks) ELSE @]
             last == [NoLocals EXCEPT !.bundle = at.bundle, !.look = at.look]
  <1>1. RunOnly /\ \/ Moves(r, "context", at)
                   \/ at.todo = {} /\ at.same /\ Eligible(at.bundle)
                        /\ Moves(r, "address", last)
                   \/ Ends(r)
    BY Zenon DEF ReadContext
  <1>2. /\ old \in Locals /\ old.bundle \in Bundle
        /\ "balance" \notin old.todo /\ old.same => Held(old.look, old.bundle.balance)
    BY RunFits DEF ReadContext, At, Fits
  <1>3. valid \in BOOLEAN /\ look \in Nat
    BY <1>2, RunFits DEF StillValid, Locals
  <1>4. valid /\ what = "balance" => Held(look, old.bundle.balance)
    BY RunFits DEF StillValid
  <1> HIDE DEF valid, look
  <1>5. /\ at.todo = old.todo \ {what} /\ at.bundle = old.bundle
        /\ (at.same <=> old.same /\ valid) /\ at.look = look
    BY <1>2 DEF Locals, look
  <1>6. at \in Locals
    <2>1. /\ old.todo \ {what} \in SUBSET ContextPart /\ (old.same /\ valid) \in BOOLEAN
          /\ (IF what = "balance" THEN Len(blocks) ELSE old.look) \in Nat
      BY <1>2, <1>3 DEF Locals, look
    <2> QED
      BY <1>2, <2>1 DEF Locals
  <1>7. "balance" \notin at.todo /\ at.same => Held(at.look, at.bundle.balance)
    <2>1. CASE what = "balance"
      BY <1>4, <1>5, <2>1
    <2>2. CASE what # "balance"
      BY <1>2, <1>5, <2>2 DEF look
    <2> QED
      BY <2>1, <2>2
  <1> HIDE DEF at
  <1>8. last \in Locals /\ last.bundle = at.bundle /\ last.look = at.look
    BY <1>6 DEF NoLocals, Locals
  <1> HIDE DEF last
  <1>9. Fits("context", at) /\ {"context", "address"} \subseteq Locations
    BY <1>2, <1>5, <1>7 DEF Fits, Locations
  <1>10. at.todo = {} /\ at.same /\ Eligible(at.bundle) => Fits("address", last)
    BY <1>2, <1>5, <1>7, <1>8 DEF Fits
  <1> QED
    BY <1>1, <1>6, <1>8, <1>9, <1>10, RunOnlyKeeps, EndsKeeps

LEMMA CheckAddressKeeps ==
    ASSUME AgentInv, NEW r \in Runner, CheckAddress(r)
    PROVE  AgentInv'
  <1> DEFINE at == run[r].at
  <1>1. RunOnly /\ (Moves(r, "handover", at) \/ Ends(r))
    BY Zenon DEF CheckAddress
  <1>2. at \in Locals /\ Fits("address", at)
    BY RunFits DEF CheckAddress, At
  <1> HIDE DEF at
  <1>3. Fits("handover", at) /\ "handover" \in Locations
    BY <1>2 DEF Fits, Locations
  <1> QED
    BY <1>1, <1>2, <1>3, RunOnlyKeeps, EndsKeeps

LEMMA CliPrintsKeeps ==
    ASSUME AgentInv, NEW r \in Runner, CliPrints(r)
    PROVE  AgentInv'
  <1>1. PICK tx \in pool \cup {blocks[i].tx : i \in MinedNonces} :
            Moves(r, "receipt", [run[r].at EXCEPT !.tx = tx])
    BY DEF CliPrints
  <1>2. tx \in Tx
    <2>1. blocks \in Seq(Block) /\ pool \subseteq Tx
      BY DEF AgentInv, AgentTypes, NetworkTypes, NetworkTypeOK
    <2>2. \A i \in DOMAIN blocks : blocks[i] \in Block
      BY <2>1
    <2>3. \A i \in DOMAIN blocks : blocks[i].tx \in Tx
      BY <2>2 DEF Block
    <2> QED
      BY <2>1, <2>3 DEF MinedNonces
  <1> DEFINE at == [run[r].at EXCEPT !.tx = tx]
  <1>3. /\ run[r].at \in Locals /\ run[r].at.bundle \in Bundle
        /\ Eligible(run[r].at.bundle)
    BY RunFits DEF CliPrints, At, Fits
  <1>4. at \in Locals /\ at.bundle = run[r].at.bundle
    BY <1>2, <1>3 DEF Locals
  <1>5. Moves(r, "receipt", at) /\ RunOnly
    BY <1>1 DEF CliPrints
  <1> HIDE DEF at
  <1>6. Fits("receipt", at) /\ "receipt" \in Locations
    BY <1>3, <1>4 DEF Fits, Locations
  <1> QED
    BY <1>4, <1>5, <1>6, RunOnlyKeeps

LEMMA ReceiptKeeps ==
    ASSUME AgentInv, NEW r \in Runner, Receipt(r)
    PROVE  AgentInv'
  <1>1. PICK i \in ReceiptBlocks(run[r].at.tx) :
            \/ blocks[i].ok /\ Moves(r, "verify", [run[r].at EXCEPT !.mined = i])
            \/ Ends(r)
    BY DEF Receipt
  <1> DEFINE at == [run[r].at EXCEPT !.mined = i]
  <1>2. /\ run[r].at \in Locals /\ run[r].at.bundle \in Bundle
        /\ Eligible(run[r].at.bundle)
    BY RunFits DEF Receipt, At, Fits
  <1>3. i \in Nat
    BY RunFits DEF ReceiptBlocks, MinedNonces
  <1>4. /\ at \in Locals /\ at.bundle = run[r].at.bundle
        /\ at.tx = run[r].at.tx /\ at.mined = i
    BY <1>2, <1>3 DEF Locals
  <1>5. RunOnly /\ ((blocks[i].ok /\ Moves(r, "verify", at)) \/ Ends(r))
    BY <1>1 DEF Receipt
  <1> HIDE DEF at
  <1>6. blocks[i].ok => Fits("verify", at)
    BY <1>1, <1>2, <1>4 DEF Fits
  <1>7. "verify" \in Locations
    BY DEF Locations
  <1> QED
    BY <1>4, <1>5, <1>6, <1>7, RunOnlyKeeps, EndsKeeps

\* Only an eligible bundle whose balance was seen is handed over.
LEMMA HandOverKeeps ==
    ASSUME AgentInv, NEW r \in Runner, HandOver(r)
    PROVE  AgentInv'
  <1>1. PICK b, look : b = run[r].at.bundle /\ look = run[r].at.look
    OBVIOUS
  <1> DEFINE entry == [bundle |-> b, look |-> look, tx |-> Payload(b)]
             at == [NoLocals EXCEPT !.bundle = b]
  <1>2. /\ UNCHANGED <<networkVars, fileVars, active, verified, evidence, used>>
        /\ \/ /\ requests' = requests \cup {Payload(b)}
              /\ handed' = handed \cup {entry}
              /\ Moves(r, "cli", at)
           \/ Ends(r) /\ UNCHANGED <<requests, handed>>
    BY <1>1, Zenon DEF HandOver
  <1>3. /\ b \in Bundle /\ Eligible(b) /\ Held(look, b.balance) /\ look \in Nat
    BY <1>1, RunFits DEF HandOver, At, Fits, Locals
  <1>4. CASE Ends(r) /\ UNCHANGED <<requests, handed>>
    BY <1>2, <1>4, EndsKeeps DEF RunOnly, walletVars, historyVars
  <1>5. CASE /\ requests' = requests \cup {Payload(b)}
             /\ handed' = handed \cup {entry} /\ Moves(r, "cli", at)
    <2>1. Payload(b) \in Tx /\ Payload(b) = ExecutionOf(b)
      BY <1>3 DEF Payload, ExecutionOf, Bundle, Tx
    <2>2. /\ entry \in [bundle : Bundle, look : Nat, tx : Tx]
          /\ entry.bundle = b /\ entry.look = look /\ entry.tx = ExecutionOf(b)
      BY <1>3, <2>1
    <2>3. at \in Locals /\ at.bundle = b
      BY <1>3 DEF NoLocals, Locals
    <2> HIDE DEF entry, at
    <2>4. NetworkInv' /\ Extended /\ NetworkTypes'
      BY <1>2, NetworkUnchanged DEF AgentInv, AgentTypes
    <2>5. EntryHolds(entry)
      BY <1>3, <2>2 DEF EntryHolds
    <2>6. HistoryInv'
      BY <1>2, <1>5, <2>4, <2>5, ExecutedStays DEF AgentInv, HistoryInv
    <2>7. \A p, a : Fits(p, a) => Fits(p, a)'
      BY <1>2, <2>4, FitsStays DEF AgentInv
    <2>8. Fits("cli", at) /\ "cli" \in Locations
      BY <1>3, <2>3 DEF Fits, Locations
    <2>9. run' \in [Runner -> [pc : Locations, at : Locals]] /\ RunsFit'
      BY <1>5, <2>3, <2>7, <2>8, RunMoves DEF AgentInv, AgentTypes
    <2> QED
      BY <1>2, <1>5, <2>1, <2>2, <2>4, <2>6, <2>9 DEF AgentInv, AgentTypes, fileVars
  <1> QED
    BY <1>2, <1>4, <1>5

\* An eligible execution behind the printed hash is the one of the receipt: had
\* it been replaced, the hash would not be found.
LEMMA ConfirmedIsMined ==
    ASSUME NetworkInv, PoolApart, NEW b, Eligible(b), NEW i,
           NEW tx, tx = ExecutionOf(b), Found(tx), i \in ReceiptBlocks(tx)
    PROVE  i \in DOMAIN blocks /\ blocks[i].tx = tx
  <1>1. i \in MinedNonces /\ blocks[i].tx.nonce = tx.nonce
    BY DEF ReceiptBlocks
  <1>2. BlocksOf(tx) # {}
    BY <1>1, PendingNotMined DEF Found
  <1>3. PICK j \in BlocksOf(tx) : TRUE
    BY <1>2
  <1>4. tx # Others
    <2>1. b.data # 0
      BY DEF Eligible, Binds
    <2>2. tx.amount = b.data
      BY DEF ExecutionOf
    <2> QED
      BY <2>1, <2>2 DEF Others
  <1>5. i \in BlocksOf(blocks[i].tx) /\ blocks[i].tx # Others
    BY <1>1 DEF BlocksOf, MinedNonces
  <1>6. i = j
    <2>1. PICK ty : ty = blocks[i].tx
      OBVIOUS
    <2> QED
      BY <1>1, <1>3, <1>4, <1>5, <2>1, OneBlockPerNonce
  <1> QED
    BY <1>3, <1>6 DEF BlocksOf

\* What is returned as a result the chain executed exactly.
LEMMA VerifyKeeps ==
    ASSUME AgentInv, PoolApart, NEW r \in Runner, Verify(r)
    PROVE  AgentInv'
  <1>1. PICK b, i : b = run[r].at.bundle /\ i = run[r].at.mined
    OBVIOUS
  <1> DEFINE at == [NoLocals EXCEPT !.bundle = b, !.mined = i]
             result == [bundle |-> b, block |-> i]
  <1>2. /\ UNCHANGED <<networkVars, fileVars, walletVars, handed, evidence, used>>
        /\ \/ /\ Confirms(run[r].at) /\ Moves(r, "verified", at)
              /\ verified' = verified \cup {result}
           \/ Ends(r) /\ UNCHANGED verified
    BY <1>1, Zenon DEF Verify
  <1>3. /\ b \in Bundle /\ Eligible(b) /\ i \in Nat
        /\ i \in ReceiptBlocks(run[r].at.tx) /\ blocks[i].ok
    <2>1. /\ b \in Bundle /\ Eligible(b)
          /\ i \in ReceiptBlocks(run[r].at.tx) /\ blocks[i].ok
      BY <1>1, RunFits DEF Verify, At, Fits
    <2>2. i \in DOMAIN blocks
      BY <2>1 DEF ReceiptBlocks, MinedNonces
    <2> QED
      BY <2>1, <2>2, RunFits
  <1>4. CASE Ends(r) /\ UNCHANGED verified
    BY <1>2, <1>4, EndsKeeps DEF RunOnly, historyVars
  <1>5. CASE /\ Confirms(run[r].at) /\ Moves(r, "verified", at)
             /\ verified' = verified \cup {result}
    <2>1. PICK tx : tx = run[r].at.tx
      OBVIOUS
    <2>11. Found(tx) /\ tx = ExecutionOf(b) /\ blocks[i].left = b.after
      BY <1>1, <1>5, <2>1 DEF Confirms
    <2>12. i \in DOMAIN blocks /\ blocks[i].tx = ExecutionOf(b)
      BY <1>3, <2>1, <2>11, ConfirmedIsMined DEF AgentInv
    <2>2. Executed(b, i)
      BY <1>3, <2>11, <2>12 DEF Executed, ExactOnChain, Eligible
    <2>3. result \in Result /\ result.bundle = b /\ result.block = i
      BY <1>3 DEF Result
    <2>4. at \in Locals /\ at.bundle = b /\ at.mined = i
      BY <1>3 DEF NoLocals, Locals
    <2> HIDE DEF at
    <2>5. NetworkInv' /\ Extended /\ NetworkTypes'
      BY <1>2, NetworkUnchanged DEF AgentInv, AgentTypes
    <2>6. Executed(b, i)' /\ \A v \in verified : Executed(v.bundle, v.block)'
      BY <2>2, <2>5, ExecutedStays DEF AgentInv, HistoryInv
    <2>7. HistoryInv'
      <3>1. \A h \in handed' : EntryHolds(h)'
        BY <1>2, <2>5, ExecutedStays DEF AgentInv, HistoryInv
      <3>2. \A v \in verified' : Executed(v.bundle, v.block)'
        BY <1>5, <2>3, <2>6
      <3> QED
        BY <1>2, <1>5, <3>1, <3>2 DEF AgentInv, HistoryInv
    <2>8. \A p, a : Fits(p, a) => Fits(p, a)'
      BY <1>5, <2>5, FitsStays DEF AgentInv
    <2>9. Fits("verified", at)' /\ "verified" \in Locations
      BY <1>3, <1>5, <2>4, <2>6 DEF Fits, Locations
    <2>10. run' \in [Runner -> [pc : Locations, at : Locals]] /\ RunsFit'
      BY <1>5, <2>4, <2>8, <2>9, RunMoves DEF AgentInv, AgentTypes
    <2> QED
      BY <1>2, <1>5, <2>3, <2>5, <2>7, <2>10
         DEF AgentInv, AgentTypes, fileVars, walletVars
  <1> QED
    BY <1>2, <1>4, <1>5

\* Evidence is a result that was verified.
LEMMA CaptureKeeps ==
    ASSUME AgentInv, NEW r \in Runner, Capture(r)
    PROVE  AgentInv'
  <1>1. /\ Ends(r)
        /\ UNCHANGED <<networkVars, fileVars, walletVars, handed, verified, used>>
    BY DEF Capture
  <1>2. [bundle |-> run[r].at.bundle, block |-> run[r].at.mined] \in verified
    BY RunFits DEF Capture, At, Fits
  <1>3. evidence' \subseteq verified
    <2>1. evidence \subseteq verified
      BY DEF AgentInv, HistoryInv
    <2> QED
      BY <1>2, <2>1 DEF Capture, SameCandidate
  <1>4. NetworkInv' /\ Extended /\ NetworkTypes'
    BY <1>1, NetworkUnchanged DEF AgentInv, AgentTypes
  <1>5. HistoryInv'
    BY <1>1, <1>3, <1>4, ExecutedStays DEF AgentInv, HistoryInv
  <1>6. \A p, a : Fits(p, a) => Fits(p, a)'
    BY <1>1, <1>4, FitsStays DEF AgentInv
  <1>7. run' \in [Runner -> [pc : Locations, at : Locals]] /\ RunsFit'
    <2>1. "idle" \in Locations
      BY DEF Locations
    <2>2. Fits("idle", NoLocals)'
      BY <1>6, IdleFits
    <2> QED
      BY <1>1, <1>6, <2>1, <2>2, NoLocalsType, RunMoves DEF AgentInv, AgentTypes, Ends
  <1> QED
    BY <1>1, <1>4, <1>5, <1>7 DEF AgentInv, AgentTypes, fileVars, walletVars

-----------------------------------------------------------------------------
(* Bundles, processes that start, the wallet service and the network. *)

Counters == [builds : 0 .. MaxBuilds, runs : 0 .. MaxRuns,
             edits : 0 .. MaxEdits, events : 0 .. MaxEvents]

LEMMA Counted1 ==
    ASSUME AgentInv
    PROVE  /\ used.builds < MaxBuilds => [used EXCEPT !.builds = @ + 1] \in Counters
           /\ used.runs < MaxRuns => [used EXCEPT !.runs = @ + 1] \in Counters
           /\ used.edits < MaxEdits => [used EXCEPT !.edits = @ + 1] \in Counters
           /\ used.events < MaxEvents => [used EXCEPT !.events = @ + 1] \in Counters
  <1>1. used \in Counters
    BY DEF AgentInv, AgentTypes, Counters
  <1>2. /\ used.builds < MaxBuilds => used.builds + 1 \in 0 .. MaxBuilds
        /\ used.runs < MaxRuns => used.runs + 1 \in 0 .. MaxRuns
        /\ used.edits < MaxEdits => used.edits + 1 \in 0 .. MaxEdits
        /\ used.events < MaxEvents => used.events + 1 \in 0 .. MaxEvents
    BY <1>1, AgentAssumption DEF Counters
  <1> QED
    BY <1>1, <1>2 DEF Counters

LEMMA BuildStartKeeps ==
    ASSUME AgentInv, NEW path \in Path, NEW floor \in Floor, NEW amount \in Amount,
           BuildStart(path, floor, amount)
    PROVE  AgentInv'
  <1>1. NetworkInv' /\ Extended /\ NetworkTypes'
    BY NetworkUnchanged DEF AgentInv, AgentTypes, BuildStart
  <1>2. Balance \in Nat /\ Len(blocks) \in Nat
    BY BlocksForm DEF AgentInv, NetworkInv, Balance
  <1>3. Balance >= amount /\ amount \in Nat /\ floor \in Nat
    BY AgentAssumption, Zenon DEF BuildStart
  <1>4. Balance - amount \in Nat
    BY <1>2, <1>3
  <1>5. draft' \in Bundle
    BY <1>2, <1>3, <1>4 DEF BuildStart, Bundle
  <1>6. used' \in Counters
    BY Counted1 DEF BuildStart
  <1> QED
    BY <1>1, <1>5, <1>6, WorldKeeps
       DEF BuildStart, walletVars, AgentInv, AgentTypes, Counters

LEMMA BuildEndKeeps ==
    ASSUME AgentInv, BuildEnd
    PROVE  AgentInv'
  <1>1. NetworkInv' /\ Extended /\ NetworkTypes'
    BY NetworkUnchanged DEF AgentInv, AgentTypes, BuildEnd
  <1>2. draft \in Bundle /\ PendingNonce \in Nat
    BY PendingNonceDefined DEF AgentInv, AgentTypes, BuildEnd
  <1>3. bundle' \in Bundle
    BY <1>2 DEF BuildEnd, Bundle
  <1> QED
    BY <1>1, <1>3, WorldKeeps DEF BuildEnd, walletVars, AgentInv, AgentTypes

LEMMA EditKeeps ==
    ASSUME AgentInv, Edit
    PROVE  AgentInv'
  <1>1. NetworkInv' /\ Extended /\ NetworkTypes'
    BY NetworkUnchanged DEF AgentInv, AgentTypes, Edit
  <1>2. bundle \in Bundle
    BY DEF AgentInv, AgentTypes, Edit
  <1>3. Edits(bundle) \subseteq Bundle
    <2>1. PICK b \in Bundle : b = bundle
      BY <1>2
    <2>2. \A n \in {b.data, b.after, b.nonce, b.floor, b.amount} : n + 1 \in Nat
      BY DEF Bundle
    <2>3. [b EXCEPT !.data = b.data + 1] \in Bundle
      BY <2>2 DEF Bundle
    <2>4. [b EXCEPT !.after = b.after + 1] \in Bundle
      BY <2>2 DEF Bundle
    <2>5. [b EXCEPT !.nonce = b.nonce + 1] \in Bundle
      BY <2>2 DEF Bundle
    <2>6. [b EXCEPT !.floor = b.floor + 1, !.linked = FALSE] \in Bundle
      BY <2>2 DEF Bundle
    <2>7. [b EXCEPT !.amount = b.amount + 1, !.data = b.data + 1] \in Bundle
      BY <2>2 DEF Bundle
    <2> QED
      BY <2>1, <2>3, <2>4, <2>5, <2>6, <2>7, Zenon DEF Edits
  <1>4. bundle' \in Bundle /\ used' \in Counters
    BY <1>3, Counted1 DEF Edit
  <1> QED
    BY <1>1, <1>4, WorldKeeps DEF Edit, walletVars, AgentInv, AgentTypes, Counters

LEMMA StartKeeps ==
    ASSUME AgentInv, NEW r \in Runner, Start(r)
    PROVE  AgentInv'
  <1>1. NetworkInv' /\ Extended /\ NetworkTypes'
    BY NetworkUnchanged DEF AgentInv, AgentTypes, Start
  <1>2. PICK b \in Bundle : b = bundle
    BY DEF AgentInv, AgentTypes, Start
  <1> DEFINE at == [NoLocals EXCEPT !.bundle = b]
  <1>3. at \in Locals /\ at.bundle = b
    BY DEF NoLocals, Locals
  <1>4. Moves(r, "simulate", at)
    BY <1>2 DEF Start
  <1> HIDE DEF at
  <1>5. Fits("simulate", at) /\ "simulate" \in Locations
    BY <1>3 DEF Fits, Locations
  <1>6. UNCHANGED historyVars /\ used' \in Counters
    BY Counted1 DEF Start
  <1>7. \A p, a : Fits(p, a) => Fits(p, a)'
    BY <1>1, <1>6, FitsStays DEF AgentInv, historyVars
  <1>8. run' \in [Runner -> [pc : Locations, at : Locals]] /\ RunsFit'
    BY <1>3, <1>4, <1>5, <1>7, RunMoves DEF AgentInv, AgentTypes
  <1>9. HistoryInv'
    BY <1>1, <1>6, HistoryStays DEF AgentInv
  <1> QED
    BY <1>1, <1>6, <1>8, <1>9
       DEF Start, fileVars, walletVars, historyVars, AgentInv, AgentTypes, Counters

LEMMA BroadcastKeeps ==
    ASSUME AgentInv, Broadcast
    PROVE  AgentInv'
  <1>1. PICK tx \in requests : Pooled(tx)
    BY DEF Broadcast
  <1>2. tx \in Tx /\ tx.amount \in Nat
    BY DEF AgentInv, AgentTypes, Tx
  <1>3. NetworkInv' /\ Extended /\ NetworkTypes'
    BY <1>1, <1>2, PooledKeepsNetwork, PooledKeepsTypes DEF AgentInv, AgentTypes
  <1> QED
    BY <1>3, WorldKeeps DEF Broadcast, fileVars, walletVars, AgentInv, AgentTypes

LEMMA MineKeeps ==
    ASSUME AgentInv, Mine
    PROVE  AgentInv'
  <1>1. NetworkInv' /\ Extended /\ NetworkTypes'
    BY MineKeepsNetwork, MineKeepsTypes DEF AgentInv, AgentTypes, Mine
  <1> QED
    BY <1>1, WorldKeeps DEF Mine, fileVars, walletVars, AgentInv, AgentTypes

LEMMA EventKeeps ==
    ASSUME AgentInv, Event
    PROVE  AgentInv'
  <1>1. /\ UNCHANGED <<fileVars, requests, historyVars>>
        /\ used' \in Counters
    BY Counted1 DEF Event
  <1>2. ASSUME NEW kind, NetworkEvent(kind), UNCHANGED <<run, active>>
        PROVE  AgentInv'
    <2>1. NetworkInv' /\ Extended /\ NetworkTypes'
      BY <1>2, EventKeepsNetwork, EventKeepsTypes DEF AgentInv, AgentTypes
    <2> QED
      BY <1>1, <1>2, <2>1, WorldKeeps DEF fileVars, AgentInv, AgentTypes, Counters
  <1>3. CASE active' = ~active /\ UNCHANGED <<networkVars, run>>
    <2>1. NetworkInv' /\ Extended /\ NetworkTypes'
      BY <1>3, NetworkUnchanged DEF AgentInv, AgentTypes
    <2>2. active' \in BOOLEAN
      BY <1>3
    <2> QED
      BY <1>1, <1>3, <2>1, <2>2, WorldKeeps DEF fileVars, AgentInv, AgentTypes, Counters
  <1>4. ASSUME NEW r \in Runner, Ends(r), UNCHANGED <<networkVars, active>>
        PROVE  AgentInv'
    <2>1. NetworkInv' /\ Extended /\ NetworkTypes'
      BY <1>4, NetworkUnchanged DEF AgentInv, AgentTypes
    <2>2. [pc |-> "idle", at |-> NoLocals] \in [pc : Locations, at : Locals]
      BY NoLocalsType DEF Locations
    <2>3. /\ run' \in [Runner -> [pc : Locations, at : Locals]]
          /\ run'[r].pc = "idle" /\ run'[r].at = NoLocals
          /\ \A q \in Runner : q # r => run'[q] = run[q]
      BY <1>4, <2>2 DEF Ends, Moves, AgentInv, AgentTypes
    <2> QED
      BY <1>1, <1>4, <2>1, <2>3, WorldKeeps DEF fileVars, AgentInv, AgentTypes, Counters
  <1> QED
    BY <1>2, <1>3, <1>4, Zenon DEF Event

-----------------------------------------------------------------------------
(* The theorems. *)

LEMMA AgentStarts == Init => AgentInv
  <1> SUFFICES ASSUME Init PROVE AgentInv
    OBVIOUS
  <1>1. NetworkTypes /\ NetworkInv
    BY NetworkStarts, TypesStart DEF Init
  <1>2. [pc |-> "idle", at |-> NoLocals] \in [pc : Locations, at : Locals]
    BY NoLocalsType DEF Locations
  <1>3. run \in [Runner -> [pc : Locations, at : Locals]]
    BY <1>2 DEF Init
  <1>4. RunsFit
    BY IdleFits DEF RunsFit, Init
  <1>5. used \in Counters
    BY AgentAssumption DEF Init, Counters
  <1> QED
    BY <1>1, <1>3, <1>4, <1>5 DEF Init, AgentInv, AgentTypes, HistoryInv, Counters

LEMMA RunStepKeeps ==
    ASSUME AgentInv, PoolApart, NEW r \in Runner, RunStep(r)
    PROVE  AgentInv'
  <1>1. CASE Simulate(r) \/ \E what \in ContextPart : ReadContext(r, what)
    BY <1>1, SimulateKeeps, ReadContextKeeps
  <1>2. CASE CheckAddress(r) \/ HandOver(r) \/ CliPrints(r)
    BY <1>2, CheckAddressKeeps, HandOverKeeps, CliPrintsKeeps
  <1>3. CASE CliFails(r) \/ ReceiptTimeout(r)
    BY <1>3, EndsKeeps DEF CliFails, ReceiptTimeout
  <1>4. CASE Receipt(r) \/ Verify(r) \/ Capture(r)
    BY <1>4, ReceiptKeeps, VerifyKeeps, CaptureKeeps
  <1> QED
    BY <1>1, <1>2, <1>3, <1>4 DEF RunStep

\* No step puts two transactions of one nonce into the pool.
LEMMA PoolStaysApart ==
    ASSUME AgentInv, PoolApart, [Next]_vars
    PROVE  PoolApart'
  <1>0. NetworkTypes
    BY DEF AgentInv, AgentTypes
  <1>1. CASE UNCHANGED networkVars
    BY <1>1, UnchangedKeepsApart
  <1>2. ASSUME NEW r \in Runner, RunStep(r) PROVE UNCHANGED networkVars
    <2>1. CASE Simulate(r) \/ \E what \in ContextPart : ReadContext(r, what)
      BY <2>1, Zenon DEF Simulate, ReadContext, RunOnly
    <2>2. CASE CheckAddress(r) \/ CliPrints(r) \/ CliFails(r)
               \/ Receipt(r) \/ ReceiptTimeout(r)
      BY <2>2, Zenon DEF CheckAddress, CliPrints, CliFails, Receipt, ReceiptTimeout,
                         RunOnly
    <2>3. CASE HandOver(r) \/ Verify(r) \/ Capture(r)
      BY <2>3, Zenon DEF HandOver, Verify, Capture
    <2> QED
      BY <1>2, <2>1, <2>2, <2>3 DEF RunStep
  <1>3. CASE Operator
    <2>1. UNCHANGED networkVars
      BY <1>3, Zenon DEF Operator, BuildStart, BuildEnd, Edit, Start
    <2> QED
      BY <1>1, <2>1
  <1>4. CASE Broadcast
    BY <1>0, <1>4, PooledKeepsApart DEF Broadcast
  <1>5. CASE Mine
    BY <1>0, <1>5, MineKeepsApart DEF Mine
  <1>6. CASE Event
    <2>1. UNCHANGED networkVars \/ \E kind : NetworkEvent(kind)
      BY <1>6, Zenon DEF Event
    <2> QED
      BY <1>0, <1>1, <2>1, EventKeepsApart
  <1> QED
    BY <1>1, <1>2, <1>3, <1>4, <1>5, <1>6 DEF Next, vars

LEMMA AgentStep == AgentInv /\ PoolApart /\ [Next]_vars => AgentInv'
  <1> SUFFICES ASSUME AgentInv, PoolApart, [Next]_vars PROVE AgentInv'
    OBVIOUS
  <1>1. ASSUME NEW r \in Runner, RunStep(r) PROVE AgentInv'
    BY <1>1, RunStepKeeps
  <1>2. CASE Operator
    BY <1>2, BuildStartKeeps, BuildEndKeeps, EditKeeps, StartKeeps DEF Operator
  <1>3. CASE Broadcast \/ Mine \/ Event
    BY <1>3, BroadcastKeeps, MineKeeps, EventKeeps
  <1>4. CASE UNCHANGED vars
    <2>1. NetworkInv' /\ Extended /\ NetworkTypes'
      BY <1>4, NetworkUnchanged DEF AgentInv, AgentTypes, vars
    <2> QED
      BY <1>4, <2>1, WorldKeeps DEF AgentInv, AgentTypes, vars, fileVars, walletVars
  <1> QED
    BY <1>1, <1>2, <1>3, <1>4 DEF Next

\* The inductive invariant.
THEOREM AgentInvariant == Spec => [](AgentInv /\ PoolApart)
  <1>1. Init => PoolApart
    BY PoolStartsApart DEF Init
  <1> QED
    BY <1>1, AgentStarts, AgentStep, PoolStaysApart, PTL DEF Spec

\* The types hold with any number of processes, bundles, edits and events.
THEOREM AgentTypesHold == Spec => []TypeOK
  <1>1. ASSUME AgentInv PROVE TypeOK
    <2>1. evidence \subseteq verified
      BY <1>1 DEF AgentInv, HistoryInv
    <2> QED
      BY <1>1, <2>1 DEF AgentInv, AgentTypes, TypeOK, NetworkTypes, Result
  <1>2. AgentInv => TypeOK
    BY <1>1
  <1> QED
    BY <1>2, AgentInvariant, PTL

\* Every broadcast result is of a transfer that the chain executed as approved
\* (chain/src/agent-wallet-direct-floor.ts:333-365).
THEOREM ResultsAreExact == Spec => []VerifiedIsExact
  <1>1. AgentInv => VerifiedIsExact
    BY DEF AgentInv, HistoryInv, VerifiedIsExact, Executed
  <1> QED
    BY <1>1, AgentInvariant, PTL

\* Evidence is filed with the bundle that was run and executed
\* (research/capture_agent_wallet_direct_accept.py:60-120).
THEOREM EvidenceIsTrue == Spec => []EvidenceIsExact
  <1>1. AgentInv => EvidenceIsExact
    BY DEF AgentInv, HistoryInv, EvidenceIsExact, Executed
  <1> QED
    BY <1>1, AgentInvariant, PTL

\* A transfer that was handed over is no block of somebody else.
LEMMA HandedIsOwn ==
    ASSUME AgentInv, NEW h \in handed
    PROVE  /\ h.tx # Others /\ h.tx.amount = h.bundle.amount
           /\ h.tx.nonce = h.bundle.nonce
  <1>1. EntryHolds(h)
    BY DEF AgentInv, HistoryInv
  <1>2. h.tx.amount = h.bundle.data /\ h.tx.nonce = h.bundle.nonce
    BY <1>1 DEF EntryHolds, ExecutionOf
  <1>3. h.bundle.data = h.bundle.amount /\ h.bundle.amount # 0
    BY <1>1 DEF EntryHolds, Eligible, Binds
  <1> QED
    BY <1>2, <1>3 DEF Others

\* What is mined right after the last look at the balance keeps the floor
\* (chain/src/agent-wallet-direct-floor.ts:275-284, 384-410).
THEOREM HandoversKeepFloor == Spec => []HandedKeepsFloor
  <1>1. ASSUME AgentInv PROVE HandedKeepsFloor
    <2> SUFFICES ASSUME NEW h \in handed, NEW n, n = h.look + 1, n \in DOMAIN blocks,
                        blocks[n].tx = h.tx, blocks[n].ok
                 PROVE  /\ blocks[n].left = h.bundle.after
                        /\ h.bundle.after >= h.bundle.floor
      BY DEF HandedKeepsFloor
    <2>1. h.bundle \in Bundle /\ Eligible(h.bundle) /\ Held(h.look, h.bundle.balance)
      BY <1>1 DEF AgentInv, HistoryInv, EntryHolds
    <2>2. n \in MinedNonces /\ blocks[n].tx.amount = h.bundle.amount
      BY <1>1, HandedIsOwn DEF MinedNonces
    <2>3. blocks[n].left = BalanceAt(n - 1) - blocks[n].tx.amount
      BY <1>1, <2>2 DEF AgentInv, NetworkInv, Deducted
    <2>4. n - 1 = h.look
      BY <1>1, <2>1, BlocksForm DEF Held, AgentInv, NetworkInv
    <2> QED
      BY <2>1, <2>2, <2>3, <2>4 DEF Held, Eligible
  <1>2. AgentInv => HandedKeepsFloor
    BY <1>1
  <1> QED
    BY <1>2, AgentInvariant, PTL

\* A bundle moves its tokens once, however often it is run
\* (chain/src/agent-wallet-cli.ts:82-93, 117-140).
THEOREM BundlesMineOnce == Spec => []BundleMinedOnce
  <1>1. ASSUME AgentInv PROVE BundleMinedOnce
    <2> SUFFICES ASSUME NEW h \in handed, NEW g \in handed, h.bundle = g.bundle,
                        NEW i \in BlocksOf(h.tx), NEW j \in BlocksOf(g.tx)
                 PROVE  i = j
      BY DEF BundleMinedOnce
    <2>1. h.tx.nonce = g.tx.nonce /\ h.tx # Others /\ g.tx # Others
      BY <1>1, HandedIsOwn
    <2> QED
      BY <1>1, <2>1, OneBlockPerNonce DEF AgentInv
  <1>2. AgentInv => BundleMinedOnce
    BY <1>1
  <1> QED
    BY <1>2, AgentInvariant, PTL

=============================================================================
