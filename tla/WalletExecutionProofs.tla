----------------------- MODULE WalletExecutionProofs -----------------------
(***************************************************************************)
(* The MetaMask path, for any number of tabs, forms, approvals and events: *)
(* what is signed was decided and seen again, a hash belongs to its plan,  *)
(* and what is confirmed is on the chain and kept the floor.               *)
(***************************************************************************)
EXTENDS WalletExecution, PublicNetworkProofs, SequenceTheorems

-----------------------------------------------------------------------------
(* The invariant. *)

Planned == {"decide", "check", "again", "ask",
            "report", "poll", "after", "confirm", "record"}
Trusted == {"check", "again", "ask"}
Sent == {"report", "poll", "after", "confirm", "record"}

SignedFor(plan, tx) ==
    \E i \in DOMAIN signed : signed[i].plan = plan /\ signed[i].tx = tx

\* A receipt with a log is that of a transfer on the policy's chain.
Genuine(receipt, tx) ==
    GoodReceipt(receipt) => /\ receipt.block \in BlocksOf(tx)
                            /\ blocks[receipt.block].ok

\* What a tab's locals are good for, where it is.
Fits(pc, at) ==
    /\ pc \in {"look", "authorize"} => at.amount \in Amount
    /\ pc \in Planned => at.plan \in Plan
    /\ pc \in Trusted => Accepts(at.plan)
    /\ pc = "again" /\ "balance" \notin at.todo => Held(at.look, at.balance)
    /\ pc = "ask" => Held(at.look, at.plan.balance)
    /\ pc \in Sent => at.tx \in Tx /\ SignedFor(at.plan, at.tx)
    /\ pc \in {"after", "confirm", "record"} =>
           at.receipt \in Receipt /\ Genuine(at.receipt, at.tx)
    /\ pc \in {"confirm", "record"} => Held(at.receipt.block, at.balanceAfter)
    /\ pc = "record" => GoodReceipt(at.receipt) /\ KeptFloor(at.balanceAfter, at.plan)

PagesFit == \A t \in Tab : Fits(page[t].pc, page[t].at)

\* Everything signed carries the nonce and the amount of an accepted plan.
EntryHolds(entry) ==
    /\ entry.tx.nonce = entry.plan.nonce /\ entry.tx.amount = entry.plan.amount
    /\ Accepts(entry.plan)
    /\ Held(entry.look, entry.plan.balance)

SignedAsDecided == \A i \in DOMAIN signed : EntryHolds(signed[i])

ConsoleInv ==
    /\ console.approval = None => console.transaction = NotCreated
    /\ DecidedUnderApproval
    /\ HashBelongsToPlan
    /\ ConfirmedOnChain

WalletTypes ==
    /\ NetworkTypes
    /\ console \in [stage : Stage, approval : Approval \cup {None},
                    transaction : Transaction]
    /\ page \in [Tab -> Page]
    /\ network \in {"policy", "other"}
    /\ signed \in Seq([plan : Plan, tx : Tx, look : Nat])
    /\ used \in [plans : 0 .. MaxPlans, policies : 0 .. MaxPolicies,
                 events : 0 .. MaxEvents]

WalletInv ==
    /\ WalletTypes /\ NetworkInv /\ PagesFit /\ SignedAsDecided /\ ConsoleInv

-----------------------------------------------------------------------------
(* What later blocks and signatures leave true. *)

\* Nothing that was signed is forgotten.
MoreSigned ==
    \A i \in DOMAIN signed : i \in DOMAIN signed' /\ signed'[i] = signed[i]

LEMMA BlocksStay ==
    ASSUME NetworkInv, NetworkInv', Extended
    PROVE  /\ \A look, balance : Held(look, balance) => Held(look, balance)'
           /\ \A tx : BlocksOf(tx) \subseteq BlocksOf(tx)'
           /\ \A tx : \A i \in BlocksOf(tx) : blocks'[i] = blocks[i]
           /\ \A r, tx : Genuine(r, tx) => Genuine(r, tx)'
  <1>1. \A tx : BlocksOf(tx) \subseteq BlocksOf(tx)'
    BY MinedStays
  <1>2. \A look, balance : Held(look, balance) => Held(look, balance)'
    BY HeldStays
  <1>3. \A tx : \A i \in BlocksOf(tx) : blocks'[i] = blocks[i]
    BY DEF BlocksOf, Extended
  <1>4. \A r, tx : Genuine(r, tx) => Genuine(r, tx)'
    BY <1>1, <1>3 DEF Genuine, GoodReceipt
  <1> QED
    BY <1>1, <1>2, <1>3, <1>4

LEMMA FitsStays ==
    ASSUME NetworkInv, NetworkInv', Extended, MoreSigned
    PROVE  \A pc, at : Fits(pc, at) => Fits(pc, at)'
  <1>1. \A plan, tx : SignedFor(plan, tx) => SignedFor(plan, tx)'
    BY DEF SignedFor, MoreSigned
  <1>2. /\ \A look, balance : Held(look, balance) => Held(look, balance)'
        /\ \A r, tx : Genuine(r, tx) => Genuine(r, tx)'
    BY BlocksStay
  <1> QED
    BY <1>1, <1>2 DEF Fits

LEMMA ConsoleStays ==
    ASSUME ConsoleInv, NetworkInv, NetworkInv', Extended, MoreSigned,
           UNCHANGED console
    PROVE  ConsoleInv'
  <1>1. /\ \A tx : BlocksOf(tx) \subseteq BlocksOf(tx)'
        /\ \A tx : \A i \in BlocksOf(tx) : blocks'[i] = blocks[i]
    BY BlocksStay
  <1>2. HashBelongsToPlan'
    BY DEF ConsoleInv, HashBelongsToPlan, MoreSigned
  <1>3. ConfirmedOnChain'
    BY <1>1 DEF ConsoleInv, ConfirmedOnChain
  <1> QED
    BY <1>2, <1>3 DEF ConsoleInv, DecidedUnderApproval

LEMMA SignedStays ==
    ASSUME SignedAsDecided, NetworkInv, NetworkInv', Extended, UNCHANGED signed
    PROVE  SignedAsDecided'
  BY BlocksStay DEF SignedAsDecided, EntryHolds

\* A tab moves on, the others stay.
LEMMA TabMoves ==
    ASSUME page \in [Tab -> Page], PagesFit, NEW t \in Tab,
           NEW pc \in Locations, NEW at \in Locals, Moves(t, pc, at),
           Fits(pc, at)', \A p, a : Fits(p, a) => Fits(p, a)'
    PROVE  page' \in [Tab -> Page] /\ PagesFit'
  <1>1. page[t] \in Page
    OBVIOUS
  <1>2. [page[t] EXCEPT !.pc = pc, !.at = at] \in Page
    BY <1>1 DEF Page
  <1>3. page' = [page EXCEPT ![t] = [page[t] EXCEPT !.pc = pc, !.at = at]]
    BY DEF Moves
  <1>4. page' \in [Tab -> Page]
    BY <1>2, <1>3
  <1>5. page'[t].pc = pc /\ page'[t].at = at
    BY <1>1, <1>3 DEF Page
  <1>6. \A u \in Tab : u # t => page'[u] = page[u]
    BY <1>3
  <1> QED
    BY <1>4, <1>5, <1>6 DEF PagesFit

LEMMA NoLocalsType == NoLocals \in Locals
  BY DEF NoLocals, Locals

LEMMA IdleFits == Fits("idle", NoLocals)
  BY DEF Fits, Planned, Trusted, Sent

\* A step that changes nothing but the tab.
LEMMA PageOnlyKeeps ==
    ASSUME WalletInv, NEW t \in Tab, NEW pc \in Locations, NEW at \in Locals,
           Moves(t, pc, at), Fits(pc, at), PageOnly
    PROVE  WalletInv'
  <1>1. UNCHANGED <<networkVars, console, network, signed, used>>
    BY DEF PageOnly
  <1>2. NetworkInv' /\ Extended /\ NetworkTypes' /\ MoreSigned
    BY <1>1, NetworkUnchanged DEF WalletInv, WalletTypes, MoreSigned
  <1>3. ConsoleInv' /\ SignedAsDecided'
    BY <1>1, <1>2, ConsoleStays, SignedStays DEF WalletInv
  <1>4. \A p, a : Fits(p, a) => Fits(p, a)'
    BY <1>2, FitsStays DEF WalletInv
  <1>5. page' \in [Tab -> Page] /\ PagesFit'
    BY <1>4, TabMoves DEF WalletInv, WalletTypes
  <1> QED
    BY <1>1, <1>2, <1>3, <1>5 DEF WalletInv, WalletTypes

LEMMA EndsKeeps ==
    ASSUME WalletInv, NEW t \in Tab, Ends(t), PageOnly
    PROVE  WalletInv'
  <1>1. "idle" \in Locations
    BY DEF Locations
  <1> QED
    BY <1>1, NoLocalsType, IdleFits, PageOnlyKeeps DEF Ends

-----------------------------------------------------------------------------
(* The tab reads. *)

\* Where a tab is, and what its locals are good for there.
LEMMA TabFits ==
    ASSUME WalletInv, NEW t \in Tab
    PROVE  /\ page[t] \in Page /\ page[t].at \in Locals
           /\ Fits(page[t].pc, page[t].at)
           /\ Balance \in Nat /\ PendingNonce \in Nat
           /\ Len(blocks) \in Nat /\ \A i \in 0 .. Len(blocks) : BalanceAt(i) \in Nat
  <1>1. page[t] \in Page
    BY DEF WalletInv, WalletTypes
  <1>2. Len(blocks) \in Nat /\ \A i \in 0 .. Len(blocks) : BalanceAt(i) \in Nat
    BY BlocksForm DEF WalletInv, NetworkInv
  <1>3. PendingNonce \in Nat
    BY PendingNonceDefined DEF WalletInv, WalletTypes
  <1> QED
    BY <1>1, <1>2, <1>3 DEF WalletInv, PagesFit, Page, Balance

LEMMA SubmitKeeps ==
    ASSUME WalletInv, NEW t \in Tab, NEW amount \in Amount, Submit(t, amount)
    PROVE  WalletInv'
  <1> DEFINE at == [NoLocals EXCEPT !.amount = amount,
                                    !.todo = {"balance", "nonce", "call"}]
  <1>1. at \in Locals /\ at.amount = amount /\ "look" \in Locations
    BY DEF NoLocals, Locals, Locations
  <1>2. Moves(t, "look", at) /\ UNCHANGED <<networkVars, console, network, signed>>
    BY DEF Submit
  <1> HIDE DEF at
  <1>3. NetworkInv' /\ Extended /\ NetworkTypes' /\ MoreSigned
    BY <1>2, NetworkUnchanged DEF WalletInv, WalletTypes, MoreSigned
  <1>4. ConsoleInv' /\ SignedAsDecided'
    BY <1>2, <1>3, ConsoleStays, SignedStays DEF WalletInv
  <1>5. \A p, a : Fits(p, a) => Fits(p, a)'
    BY <1>3, FitsStays DEF WalletInv
  <1>6. Fits("look", at)
    BY <1>1 DEF Fits, Planned, Trusted, Sent
  <1>7. page' \in [Tab -> Page] /\ PagesFit'
    BY <1>1, <1>2, <1>5, <1>6, TabMoves DEF WalletInv, WalletTypes
  <1>8. used' \in [plans : 0 .. MaxPlans, policies : 0 .. MaxPolicies,
                   events : 0 .. MaxEvents]
    BY WalletAssumption DEF Submit, WalletInv, WalletTypes
  <1> QED
    BY <1>2, <1>3, <1>4, <1>7, <1>8 DEF WalletInv, WalletTypes

LEMMA ConnectKeeps ==
    ASSUME WalletInv, NEW t \in Tab, Connect(t)
    PROVE  WalletInv'
  <1>1. page' = [page EXCEPT ![t].connected = TRUE] /\ PageOnly
    BY DEF Connect
  <1>2. NetworkInv' /\ Extended /\ NetworkTypes' /\ MoreSigned
    BY <1>1, NetworkUnchanged DEF WalletInv, WalletTypes, MoreSigned, PageOnly
  <1>3. ConsoleInv' /\ SignedAsDecided'
    BY <1>1, <1>2, ConsoleStays, SignedStays DEF WalletInv, PageOnly
  <1>4. \A p, a : Fits(p, a) => Fits(p, a)'
    BY <1>2, FitsStays DEF WalletInv
  <1>5. /\ page' \in [Tab -> Page]
        /\ \A u \in Tab : page'[u].pc = page[u].pc /\ page'[u].at = page[u].at
    BY <1>1 DEF WalletInv, WalletTypes, Page
  <1>6. PagesFit'
    BY <1>4, <1>5 DEF WalletInv, PagesFit
  <1> QED
    BY <1>1, <1>2, <1>3, <1>5, <1>6 DEF WalletInv, WalletTypes, PageOnly

LEMMA LoadKeeps ==
    ASSUME WalletInv, NEW t \in Tab, Load(t)
    PROVE  WalletInv'
  <1>1. /\ page' = [page EXCEPT ![t].connected = FALSE]
        /\ UNCHANGED <<networkVars, console, network, signed, used>>
    BY DEF Load
  <1>2. NetworkInv' /\ Extended /\ NetworkTypes' /\ MoreSigned
    BY <1>1, NetworkUnchanged DEF WalletInv, WalletTypes, MoreSigned
  <1>3. ConsoleInv' /\ SignedAsDecided'
    BY <1>1, <1>2, ConsoleStays, SignedStays DEF WalletInv
  <1>4. \A p, a : Fits(p, a) => Fits(p, a)'
    BY <1>2, FitsStays DEF WalletInv
  <1>5. /\ page' \in [Tab -> Page]
        /\ \A u \in Tab : page'[u].pc = page[u].pc /\ page'[u].at = page[u].at
    BY <1>1 DEF WalletInv, WalletTypes, Page
  <1>6. PagesFit'
    BY <1>4, <1>5 DEF WalletInv, PagesFit
  <1> QED
    BY <1>1, <1>2, <1>3, <1>5, <1>6 DEF WalletInv, WalletTypes

\* The first look: an amount stays an amount.
LEMMA AnswerKeeps ==
    ASSUME WalletInv, NEW t \in Tab, NEW what, Answer(t, what)
    PROVE  WalletInv'
  <1> DEFINE at == [page[t].at EXCEPT !.todo = @ \ {what}]
             next == IF at.todo = {} THEN "authorize" ELSE "look"
             nonce == IF network = "policy" THEN PendingNonce ELSE 0
  <1>1. PICK new : /\ Moves(t, next, new) \/ Ends(t)
                   /\ new \in {at, [at EXCEPT !.balance = Balance],
                               [at EXCEPT !.nonce = nonce]}
    BY DEF Answer
  <1>2. /\ page[t].at \in Locals /\ page[t].at.amount \in Amount
        /\ Balance \in Nat /\ nonce \in Nat
    BY TabFits DEF Answer, At, Fits
  <1>3. at \in Locals /\ at.amount \in Amount
    BY <1>2 DEF Locals
  <1>4. next \in {"look", "authorize"} /\ next \in Locations /\ PageOnly
    BY DEF Locations, Answer
  <1> HIDE DEF next, nonce, at
  <1>5. new \in Locals /\ new.amount \in Amount
    BY <1>1, <1>2, <1>3 DEF Locals
  <1>6. Fits(next, new)
    BY <1>4, <1>5 DEF Fits, Planned, Trusted, Sent
  <1> QED
    BY <1>1, <1>4, <1>5, <1>6, PageOnlyKeeps, EndsKeeps

\* A plan is made of the approval in force and of what was read.
LEMMA AuthorizeKeeps ==
    ASSUME WalletInv, NEW t \in Tab, Authorize(t)
    PROVE  WalletInv'
  <1> DEFINE plan == [approval |-> console.approval, amount |-> page[t].at.amount,
                      nonce |-> page[t].at.nonce, balance |-> page[t].at.balance]
             at == [NoLocals EXCEPT !.plan = plan]
  <1>1. CASE console.approval # None /\ Moves(t, "decide", at) /\ PageOnly
    <2>1. page[t].at \in Locals /\ page[t].at.amount \in Amount
      BY TabFits DEF Authorize, At, Fits
    <2>2. console.approval \in Approval
      BY <1>1 DEF WalletInv, WalletTypes
    <2>3. plan \in Plan
      BY <2>1, <2>2 DEF Plan, Locals
    <2> HIDE DEF plan
    <2>4. at \in Locals /\ at.plan = plan
      BY <2>3 DEF NoLocals, Locals
    <2>5. Fits("decide", at) /\ "decide" \in Locations
      BY <2>3, <2>4 DEF Fits, Trusted, Sent, Locations
    <2> QED
      BY <1>1, <2>4, <2>5, PageOnlyKeeps
  <1>2. CASE Ends(t) /\ PageOnly
    BY <1>2, EndsKeeps
  <1> QED
    BY <1>1, <1>2, Zenon DEF Authorize

LEMMA CheckWalletKeeps ==
    ASSUME WalletInv, NEW t \in Tab, CheckWallet(t)
    PROVE  WalletInv'
  <1> DEFINE at == [page[t].at EXCEPT !.todo = {"balance", "nonce"}]
  <1>1. CASE Moves(t, "again", at) /\ PageOnly
    <2>1. /\ page[t].at \in Locals /\ page[t].at.plan \in Plan
          /\ Accepts(page[t].at.plan)
      BY TabFits DEF CheckWallet, At, Fits, Planned, Trusted
    <2>2. at \in Locals /\ at.plan = page[t].at.plan /\ "balance" \in at.todo
      BY <2>1 DEF Locals
    <2> HIDE DEF at
    <2>3. Fits("again", at) /\ "again" \in Locations
      BY <2>1, <2>2 DEF Fits, Sent, Locations
    <2> QED
      BY <1>1, <2>2, <2>3, PageOnlyKeeps
  <1>2. CASE Ends(t) /\ PageOnly
    BY <1>2, EndsKeeps
  <1> QED
    BY <1>1, <1>2, Zenon DEF CheckWallet

\* The second look: the plan's balance was the wallet's at a block it saw.
LEMMA AnswerAgainKeeps ==
    ASSUME WalletInv, NEW t \in Tab, NEW what \in {"balance", "nonce", "call"},
           AnswerAgain(t, what)
    PROVE  WalletInv'
  <1> DEFINE old == [page[t].at EXCEPT !.todo = @ \ {what}]
             nonce == IF network = "policy" THEN PendingNonce ELSE 0
             at == IF what = "balance"
                   THEN [old EXCEPT !.balance = Balance, !.look = Len(blocks)]
                   ELSE [old EXCEPT !.nonce = nonce]
             last == [NoLocals EXCEPT !.plan = at.plan, !.look = at.look]
  <1>1. PageOnly /\ \/ Moves(t, "again", at)
                    \/ at.todo = {} /\ StillFresh(at) /\ Moves(t, "ask", last)
                    \/ Ends(t)
    BY Zenon DEF AnswerAgain
  <1>2. /\ page[t].at \in Locals /\ page[t].at.plan \in Plan
        /\ Accepts(page[t].at.plan)
        /\ "balance" \notin page[t].at.todo => Held(page[t].at.look, page[t].at.balance)
    BY TabFits DEF AnswerAgain, At, Fits, Planned, Trusted
  <1>3. /\ Balance \in Nat /\ nonce \in Nat /\ Len(blocks) \in Nat
        /\ Held(Len(blocks), Balance)
    BY TabFits DEF Held, Balance
  <1>4. old \in Locals /\ old.plan = page[t].at.plan
        /\ old.look = page[t].at.look /\ old.balance = page[t].at.balance
        /\ old.todo = page[t].at.todo \ {what}
    BY <1>2 DEF Locals
  <1> HIDE DEF old, nonce
  <1>5. at \in Locals /\ at.plan = page[t].at.plan /\ at.todo = old.todo
    BY <1>3, <1>4 DEF Locals
  <1>6. "balance" \notin at.todo => Held(at.look, at.balance)
    <2>1. CASE what = "balance"
      <3>1. at.balance = Balance /\ at.look = Len(blocks)
        BY <2>1, <1>4 DEF Locals
      <3> QED
        BY <1>3, <3>1
    <2>2. CASE what # "balance"
      <3>1. at.balance = old.balance /\ at.look = old.look
        BY <2>2, <1>4 DEF Locals
      <3> QED
        BY <1>2, <1>4, <1>5, <2>2, <3>1
    <2> QED
      BY <2>1, <2>2
  <1> HIDE DEF at
  <1>7. last \in Locals /\ last.plan = at.plan /\ last.look = at.look
    BY <1>5 DEF NoLocals, Locals
  <1> HIDE DEF last
  <1>8. CASE Moves(t, "again", at)
    <2>1. Fits("again", at) /\ "again" \in Locations
      BY <1>2, <1>5, <1>6 DEF Fits, Sent, Locations
    <2> QED
      BY <1>1, <1>5, <1>8, <2>1, PageOnlyKeeps
  <1>9. CASE at.todo = {} /\ StillFresh(at) /\ Moves(t, "ask", last)
    <2>1. Held(last.look, last.plan.balance)
      BY <1>6, <1>7, <1>9 DEF StillFresh
    <2>2. Fits("ask", last) /\ "ask" \in Locations
      BY <1>2, <1>5, <1>7, <2>1 DEF Fits, Sent, Locations
    <2> QED
      BY <1>1, <1>7, <1>9, <2>2, PageOnlyKeeps
  <1> QED
    BY <1>1, <1>8, <1>9, EndsKeeps

\* A receipt with a log comes from the policy's chain.
LEMMA PollKeeps ==
    ASSUME WalletInv, NEW t \in Tab, Poll(t)
    PROVE  WalletInv'
  <1>1. PICK r \in ReceiptsOf(page[t].at.tx) :
            Moves(t, "after", [page[t].at EXCEPT !.receipt = r])
    BY DEF Poll
  <1>2. /\ page[t].at \in Locals /\ page[t].at.plan \in Plan
        /\ page[t].at.tx \in Tx /\ SignedFor(page[t].at.plan, page[t].at.tx)
    BY TabFits DEF Poll, At, Fits, Planned, Sent
  <1>3. r \in Receipt /\ Genuine(r, page[t].at.tx)
    <2>1. CASE r \in {[ok |-> blocks[i].ok, log |-> blocks[i].ok, block |-> i] :
                          i \in BlocksOf(page[t].at.tx)}
      <3>1. PICK i \in BlocksOf(page[t].at.tx) :
                r = [ok |-> blocks[i].ok, log |-> blocks[i].ok, block |-> i]
        BY <2>1
      <3>2. blocks[i].ok \in BOOLEAN /\ i \in Nat
        <4>1. blocks \in Seq(Block) /\ i \in DOMAIN blocks
          BY DEF BlocksOf, WalletInv, WalletTypes, NetworkTypes, NetworkTypeOK
        <4>2. blocks[i] \in Block /\ i \in Nat
          BY <4>1
        <4> QED
          BY <4>2 DEF Block
      <3>3. r \in Receipt
        BY <3>1, <3>2 DEF Receipt
      <3>4. Genuine(r, page[t].at.tx)
        BY <3>1 DEF Genuine, GoodReceipt
      <3> QED
        BY <3>3, <3>4
    <2>2. CASE r \in {[ok |-> TRUE, log |-> FALSE, block |-> i] :
                          i \in 1 .. Len(blocks) + 1}
      <3>1. Len(blocks) \in Nat
        BY TabFits
      <3>2. PICK i \in 1 .. Len(blocks) + 1 : r = [ok |-> TRUE, log |-> FALSE, block |-> i]
        BY <2>2
      <3>3. i \in Nat /\ r.log = FALSE
        BY <3>1, <3>2
      <3>4. r \in Receipt
        BY <3>2, <3>3 DEF Receipt
      <3> QED
        BY <3>3, <3>4 DEF Genuine, GoodReceipt
    <2> QED
      BY <2>1, <2>2 DEF ReceiptsOf
  <1> DEFINE at == [page[t].at EXCEPT !.receipt = r]
  <1>4. at \in Locals /\ at.plan = page[t].at.plan /\ at.tx = page[t].at.tx
        /\ at.receipt = r
    BY <1>2, <1>3 DEF Locals
  <1>5. Moves(t, "after", at) /\ PageOnly
    BY <1>1 DEF Poll
  <1> HIDE DEF at
  <1>6. Fits("after", at) /\ "after" \in Locations
    BY <1>2, <1>3, <1>4 DEF Fits, Trusted, Locations
  <1> QED
    BY <1>4, <1>5, <1>6, PageOnlyKeeps

LEMMA ReadAfterKeeps ==
    ASSUME WalletInv, NEW t \in Tab, ReadAfter(t)
    PROVE  WalletInv'
  <1> DEFINE b == page[t].at.receipt.block
             at == [page[t].at EXCEPT !.balanceAfter = BalanceAt(b)]
  <1>1. CASE b <= Len(blocks) /\ Moves(t, "confirm", at) /\ PageOnly
    <2>1. /\ page[t].at \in Locals /\ page[t].at.plan \in Plan
          /\ page[t].at.tx \in Tx /\ SignedFor(page[t].at.plan, page[t].at.tx)
          /\ page[t].at.receipt \in Receipt
          /\ Genuine(page[t].at.receipt, page[t].at.tx)
      BY TabFits DEF ReadAfter, At, Fits, Planned, Sent
    <2>2. b \in 0 .. Len(blocks) /\ BalanceAt(b) \in Nat
      <3>1. b \in Nat /\ Len(blocks) \in Nat
        BY <2>1, TabFits DEF Receipt
      <3>2. b \in 0 .. Len(blocks)
        BY <1>1, <3>1
      <3> QED
        BY <3>2, TabFits
    <2>3. at \in Locals /\ at.plan = page[t].at.plan /\ at.tx = page[t].at.tx
          /\ at.receipt = page[t].at.receipt /\ at.balanceAfter = BalanceAt(b)
      BY <2>1, <2>2 DEF Locals
    <2> HIDE DEF at
    <2>4. Fits("confirm", at) /\ "confirm" \in Locations
      BY <2>1, <2>2, <2>3 DEF Fits, Trusted, Held, Locations
    <2> QED
      BY <1>1, <2>3, <2>4, PageOnlyKeeps
  <1>2. CASE Ends(t) /\ PageOnly
    BY <1>2, EndsKeeps
  <1> QED
    BY <1>1, <1>2, Zenon DEF ReadAfter

LEMMA ConfirmKeeps ==
    ASSUME WalletInv, NEW t \in Tab, Confirm(t)
    PROVE  WalletInv'
  <1> DEFINE at == page[t].at
  <1>1. CASE /\ GoodReceipt(at.receipt) /\ KeptFloor(at.balanceAfter, at.plan)
             /\ Moves(t, "record", at) /\ PageOnly
    <2>1. at \in Locals /\ Fits("confirm", at)
      BY TabFits DEF Confirm, At
    <2> HIDE DEF at
    <2>2. Fits("record", at) /\ "record" \in Locations
      BY <1>1, <2>1 DEF Fits, Planned, Trusted, Sent, Locations
    <2> QED
      BY <1>1, <2>1, <2>2, PageOnlyKeeps DEF at
  <1>2. CASE Ends(t) /\ PageOnly
    BY <1>2, EndsKeeps
  <1> QED
    BY <1>1, <1>2, Zenon DEF Confirm

-----------------------------------------------------------------------------
(* The server's sections. *)

LEMMA ServerKeeps ==
    ASSUME WalletInv, NEW t \in Tab, NEW pc \in Locations, NEW at \in Locals,
           Moves(t, pc, at), Fits(pc, at),
           UNCHANGED <<networkVars, network, signed, used>>,
           console' \in [stage : Stage, approval : Approval \cup {None},
                         transaction : Transaction],
           ConsoleInv'
    PROVE  WalletInv'
  <1>1. NetworkInv' /\ Extended /\ NetworkTypes' /\ MoreSigned
    BY NetworkUnchanged DEF WalletInv, WalletTypes, MoreSigned
  <1>2. SignedAsDecided'
    BY <1>1, SignedStays DEF WalletInv
  <1>3. \A p, a : Fits(p, a) => Fits(p, a)'
    BY <1>1, FitsStays DEF WalletInv
  <1>4. page' \in [Tab -> Page] /\ PagesFit'
    BY <1>3, TabMoves DEF WalletInv, WalletTypes
  <1> QED
    BY <1>1, <1>2, <1>4 DEF WalletInv, WalletTypes

\* The decision is stored under the approval it was taken for.
LEMMA DecideKeeps ==
    ASSUME WalletInv, NEW t \in Tab, Decide(t)
    PROVE  WalletInv'
  <1> DEFINE plan == page[t].at.plan
             verdict == IF Accepts(plan) THEN "wallet-authorized" ELSE "rejected"
             new == [status |-> verdict, plan |-> plan, tx |-> None]
  <1>1. /\ page[t] \in Page /\ page[t].at \in Locals /\ plan \in Plan
        /\ Fits("decide", page[t].at)
    BY TabFits DEF Decide, At, Fits, Planned
  <1>2. CASE SamePolicy(plan)
    <2>1. /\ console' = [console EXCEPT !.stage = verdict, !.transaction = new]
          /\ IF Accepts(plan) THEN Moves(t, "check", page[t].at) ELSE Ends(t)
          /\ UNCHANGED <<networkVars, network, signed, used>>
      BY <1>2, Zenon DEF Decide
    <2>2. verdict \in Stage /\ verdict \in {"wallet-authorized", "rejected"}
      BY DEF Stage
    <2> HIDE DEF verdict, plan
    <2>3. new \in Transaction
      BY <1>1, <2>2 DEF Transaction, Status
    <2>4. /\ console' \in [stage : Stage, approval : Approval \cup {None},
                           transaction : Transaction]
          /\ console'.approval = console.approval /\ console'.transaction = new
      BY <2>1, <2>2, <2>3 DEF WalletInv, WalletTypes
    <2>5. console.approval = plan.approval /\ plan.approval \in Approval
      BY <1>1, <1>2 DEF SamePolicy, Plan
    <2>6. ConsoleInv'
      BY <2>2, <2>4, <2>5, WalletAssumption
         DEF ConsoleInv, DecidedUnderApproval, HashBelongsToPlan, ConfirmedOnChain
    <2>7. Accepts(plan) => Fits("check", page[t].at) /\ "check" \in Locations
      BY <1>1 DEF Fits, Planned, Trusted, Sent, Locations, plan
    <2>8. "idle" \in Locations
      BY DEF Locations
    <2>9. CASE Accepts(plan)
      BY <1>1, <2>1, <2>4, <2>6, <2>7, <2>9, ServerKeeps
    <2>10. CASE ~Accepts(plan)
      BY <2>1, <2>4, <2>6, <2>8, <2>10, ServerKeeps, NoLocalsType, IdleFits DEF Ends
    <2> QED
      BY <2>9, <2>10
  <1>3. CASE ~SamePolicy(plan)
    <2>1. Ends(t) /\ PageOnly
      BY <1>3, Zenon DEF Decide, PageOnly
    <2> QED
      BY <2>1, EndsKeeps
  <1> QED
    BY <1>2, <1>3

\* A hash is recorded for the plan the tab had it signed for.
LEMMA ReportKeeps ==
    ASSUME WalletInv, NEW t \in Tab, Report(t)
    PROVE  WalletInv'
  <1>0. PICK at \in Locals : at = page[t].at
    BY TabFits
  <1>1. at \in Locals /\ at.tx \in Tx /\ SignedFor(at.plan, at.tx) /\ Fits("report", at)
    BY <1>0, TabFits DEF Report, At, Fits, Sent
  <1>2. CASE Awaits(at.plan)
    <2>1. /\ console' = [console EXCEPT !.stage = "wallet-submitted",
                            !.transaction.status = "submitted",
                            !.transaction.tx = at.tx]
          /\ Moves(t, "poll", at)
          /\ UNCHANGED <<networkVars, network, signed, used>>
      BY <1>0, <1>2, Zenon DEF Report
    <2>2. /\ console.transaction \in Transaction
          /\ console.transaction.status = "wallet-authorized"
          /\ console.transaction.plan = at.plan
      BY <1>2 DEF Awaits, WalletInv, WalletTypes
    <2>3. /\ console' \in [stage : Stage, approval : Approval \cup {None},
                           transaction : Transaction]
          /\ console'.approval = console.approval
          /\ console'.transaction.status = "submitted"
          /\ console'.transaction.plan = console.transaction.plan
          /\ console'.transaction.tx = at.tx
      BY <1>1, <2>1, <2>2 DEF WalletInv, WalletTypes, Transaction, Stage, Status
    <2>4. console.transaction # NotCreated
      BY <2>2 DEF NotCreated
    <2>5. SignedFor(at.plan, at.tx)'
      BY <1>1, <2>1 DEF SignedFor
    <2>6. ConsoleInv'
      BY <2>2, <2>3, <2>4, <2>5 DEF WalletInv, ConsoleInv, DecidedUnderApproval,
         HashBelongsToPlan, ConfirmedOnChain, SignedFor
    <2>7. Fits("poll", at) /\ "poll" \in Locations
      BY <1>1 DEF Fits, Planned, Trusted, Sent, Locations
    <2> QED
      BY <1>1, <2>1, <2>3, <2>6, <2>7, ServerKeeps
  <1>3. CASE ~Awaits(at.plan)
    <2>1. Ends(t) /\ PageOnly
      BY <1>0, <1>3, Zenon DEF Report, PageOnly
    <2> QED
      BY <2>1, EndsKeeps
  <1> QED
    BY <1>2, <1>3

\* What is confirmed was mined and left the floor.
LEMMA RecordKeeps ==
    ASSUME WalletInv, NEW t \in Tab, Record(t)
    PROVE  WalletInv'
  <1> DEFINE at == page[t].at
  <1>1. /\ at \in Locals /\ at.tx \in Tx /\ SignedFor(at.plan, at.tx)
        /\ at.receipt \in Receipt /\ Genuine(at.receipt, at.tx)
        /\ Held(at.receipt.block, at.balanceAfter)
        /\ GoodReceipt(at.receipt) /\ KeptFloor(at.balanceAfter, at.plan)
    BY TabFits DEF Record, At, Fits, Sent
  <1>2. CASE Submitted(at)
    <2>1. /\ console' = [console EXCEPT !.stage = "wallet-confirmed",
                                        !.transaction.status = "confirmed"]
          /\ Ends(t) /\ UNCHANGED <<networkVars, network, signed, used>>
      BY <1>2, Zenon DEF Record
    <2> HIDE DEF at
    <2>2. /\ console.transaction \in Transaction
          /\ console.transaction.status = "submitted"
          /\ console.transaction.plan = at.plan
          /\ console.transaction.tx = at.tx
      BY <1>2 DEF Submitted, WalletInv, WalletTypes
    <2>3. /\ console' \in [stage : Stage, approval : Approval \cup {None},
                           transaction : Transaction]
          /\ console'.approval = console.approval
          /\ console'.transaction.status = "confirmed"
          /\ console'.transaction.plan = at.plan
          /\ console'.transaction.tx = at.tx
      BY <2>1, <2>2 DEF WalletInv, WalletTypes, Transaction, Stage, Status
    <2>4. console.transaction # NotCreated
      BY <2>2 DEF NotCreated
    <2> DEFINE i == at.receipt.block
    <2>5. i \in BlocksOf(at.tx) /\ blocks[i].ok
      BY <1>1 DEF Genuine
    <2>6. blocks[i].left = at.balanceAfter
      <3>1. i # 0
        BY <2>5, BlocksForm DEF BlocksOf, WalletInv, NetworkInv
      <3> QED
        BY <1>1, <3>1 DEF Held, BalanceAt
    <2>7. blocks[i].tx.amount = at.plan.amount
      BY <1>1, <2>5 DEF SignedFor, SignedAsDecided, EntryHolds, WalletInv, BlocksOf
    <2>8. blocks[i].left >= at.plan.approval.floor
      BY <1>1, <2>6 DEF KeptFloor
    <2>9. UNCHANGED <<blocks, signed>>
      BY <2>1 DEF networkVars
    <2>10. ConfirmedOnChain'
      BY <2>3, <2>5, <2>7, <2>8, <2>9 DEF ConfirmedOnChain, BlocksOf
    <2>11. HashBelongsToPlan'
      BY <1>1, <2>3, <2>9 DEF HashBelongsToPlan, SignedFor
    <2>12. ConsoleInv'
      BY <2>2, <2>3, <2>4, <2>10, <2>11
         DEF WalletInv, ConsoleInv, DecidedUnderApproval
    <2>13. "idle" \in Locations
      BY DEF Locations
    <2> QED
      BY <2>1, <2>3, <2>12, <2>13, ServerKeeps, NoLocalsType, IdleFits DEF Ends
  <1>3. CASE ~Submitted(at)
    <2>1. Ends(t) /\ PageOnly
      BY <1>3, Zenon DEF Record, PageOnly
    <2> QED
      BY <2>1, EndsKeeps
  <1> QED
    BY <1>2, <1>3

-----------------------------------------------------------------------------
(* The user, the policy flow and the network. *)

\* The console and what is signed stay, tabs stay or are reloaded.
LEMMA WorldKeeps ==
    ASSUME WalletInv, NetworkInv', NetworkTypes', Extended,
           UNCHANGED <<console, signed>>,
           network' \in {"policy", "other"},
           used' \in [plans : 0 .. MaxPlans, policies : 0 .. MaxPolicies,
                      events : 0 .. MaxEvents],
           page' \in [Tab -> Page],
           \A t \in Tab : \/ page'[t].pc = page[t].pc /\ page'[t].at = page[t].at
                          \/ page'[t].pc = "idle" /\ page'[t].at = NoLocals
    PROVE  WalletInv'
  <1>1. MoreSigned
    BY DEF MoreSigned
  <1>2. ConsoleInv' /\ SignedAsDecided'
    BY <1>1, ConsoleStays, SignedStays DEF WalletInv
  <1>3. \A p, a : Fits(p, a) => Fits(p, a)'
    BY <1>1, FitsStays DEF WalletInv
  <1>4. PagesFit'
    BY <1>3, IdleFits DEF WalletInv, PagesFit
  <1> QED
    BY <1>2, <1>4 DEF WalletInv, WalletTypes

\* A counted event.
LEMMA EventCounted ==
    ASSUME WalletInv, used.events < MaxEvents,
           used' = [used EXCEPT !.events = @ + 1]
    PROVE  used' \in [plans : 0 .. MaxPlans, policies : 0 .. MaxPolicies,
                      events : 0 .. MaxEvents]
  <1>1. used \in [plans : 0 .. MaxPlans, policies : 0 .. MaxPolicies,
                  events : 0 .. MaxEvents]
    BY DEF WalletInv, WalletTypes
  <1>2. used.events + 1 \in 0 .. MaxEvents
    BY <1>1, WalletAssumption
  <1> QED
    BY <1>1, <1>2

\* The wallet signs what the accepted plan says, and keeps the history.
LEMMA SignKeeps ==
    ASSUME WalletInv, NEW t \in Tab, Sign(t)
    PROVE  WalletInv'
  <1>0. PICK plan, tx, look :
            /\ plan = page[t].at.plan /\ tx = WalletRequest(plan, network)
            /\ look = page[t].at.look
    OBVIOUS
  <1> DEFINE entry == [plan |-> plan, tx |-> tx, look |-> look]
             at == [NoLocals EXCEPT !.plan = plan, !.tx = tx]
             gone == [pc |-> "idle", connected |-> FALSE, at |-> NoLocals]
  <1>1. /\ (Takes(tx) /\ Pooled(tx)) \/ UNCHANGED networkVars
        /\ signed' = Append(signed, entry)
        /\ UNCHANGED <<console, network>>
        /\ \/ Moves(t, "report", at) /\ UNCHANGED used
           \/ /\ used.events < MaxEvents
              /\ page' = [page EXCEPT ![t] = gone]
              /\ used' = [used EXCEPT !.events = @ + 1]
    BY <1>0, Zenon DEF Sign
  <1>2. /\ page[t].at \in Locals /\ plan \in Plan /\ Accepts(plan)
        /\ Held(look, plan.balance)
    BY <1>0, TabFits DEF Sign, At, Fits, Planned, Trusted
  <1>3. /\ tx.nonce = plan.nonce /\ tx.amount = plan.amount /\ tx \in Tx
        /\ look \in Nat
    BY <1>0, <1>2, WalletAssumption
       DEF WalletRequest, Plan, Tx, WalletInv, WalletTypes, Locals
  <1>4. entry.plan = plan /\ entry.tx = tx /\ entry.look = look
    OBVIOUS
  <1>5. entry \in [plan : Plan, tx : Tx, look : Nat]
    BY <1>2, <1>3
  <1>6. NetworkInv' /\ Extended /\ NetworkTypes'
    <2>1. CASE Pooled(tx)
      <3>1. tx.amount \in Nat
        BY <1>3 DEF Tx
      <3> QED
        BY <1>3, <2>1, <3>1, PooledKeepsNetwork, PooledKeepsTypes DEF WalletInv, WalletTypes
    <2>2. CASE UNCHANGED networkVars
      BY <2>2, NetworkUnchanged DEF WalletInv, WalletTypes
    <2> QED
      BY <1>1, <2>1, <2>2
  <1>7. at \in Locals /\ at.plan = plan /\ at.tx = tx
    BY <1>2, <1>3 DEF NoLocals, Locals
  <1> HIDE DEF at, entry
  <1>8. /\ signed' \in Seq([plan : Plan, tx : Tx, look : Nat])
        /\ Len(signed) \in Nat /\ DOMAIN signed = 1 .. Len(signed)
        /\ DOMAIN signed' = 1 .. Len(signed) + 1
        /\ \A i \in 1 .. Len(signed) : signed'[i] = signed[i]
        /\ signed'[Len(signed) + 1] = entry
    BY <1>1, <1>5 DEF WalletInv, WalletTypes
  <1>9. MoreSigned
    BY <1>8 DEF MoreSigned
  <1>10. \A p, a : Fits(p, a) => Fits(p, a)'
    BY <1>6, <1>9, FitsStays DEF WalletInv
  <1>11. ConsoleInv'
    BY <1>1, <1>6, <1>9, ConsoleStays DEF WalletInv
  <1>12. SignedAsDecided'
    <2>1. \A e : EntryHolds(e) => EntryHolds(e)'
      BY <1>6, BlocksStay DEF WalletInv, EntryHolds
    <2>2. EntryHolds(entry)
      BY <1>2, <1>3, <1>4 DEF EntryHolds
    <2>3. \A i \in 1 .. Len(signed) : EntryHolds(signed[i])
      BY <1>8 DEF WalletInv, SignedAsDecided
    <2>4. \A i \in 1 .. Len(signed) + 1 : i \in 1 .. Len(signed) \/ i = Len(signed) + 1
      BY <1>8
    <2> QED
      BY <1>8, <2>1, <2>2, <2>3, <2>4 DEF SignedAsDecided
  <1>13. page' \in [Tab -> Page] /\ PagesFit' /\
         used' \in [plans : 0 .. MaxPlans, policies : 0 .. MaxPolicies,
                    events : 0 .. MaxEvents]
    <2>1. CASE Moves(t, "report", at) /\ UNCHANGED used
      <3>1. SignedFor(plan, tx)'
        BY <1>4, <1>8 DEF SignedFor
      <3>2. Fits("report", at)' /\ "report" \in Locations
        BY <1>2, <1>3, <1>7, <3>1 DEF Fits, Trusted, Locations
      <3> QED
        BY <1>7, <1>10, <2>1, <3>2, TabMoves DEF WalletInv, WalletTypes
    <2>2. CASE /\ used.events < MaxEvents
               /\ page' = [page EXCEPT ![t] = gone]
               /\ used' = [used EXCEPT !.events = @ + 1]
      <3>1. gone \in Page
        BY NoLocalsType DEF Page, Locations
      <3>2. page' \in [Tab -> Page] /\ page'[t] = gone
            /\ \A u \in Tab : u # t => page'[u] = page[u]
        BY <2>2, <3>1 DEF WalletInv, WalletTypes
      <3>3. Fits(page[t].pc, page[t].at)'
        BY <1>10, <3>2, IdleFits
      <3> QED
        BY <1>10, <2>2, <3>2, <3>3, EventCounted DEF WalletInv, PagesFit
    <2> QED
      BY <1>1, <2>1, <2>2
  <1> QED
    BY <1>1, <1>6, <1>8, <1>11, <1>12, <1>13 DEF WalletInv, WalletTypes

\* A new request leaves no approval and no transaction.
LEMMA SupersedeKeeps ==
    ASSUME WalletInv, Supersede
    PROVE  WalletInv'
  <1>1. NetworkInv' /\ Extended /\ NetworkTypes' /\ MoreSigned
    BY NetworkUnchanged DEF WalletInv, WalletTypes, MoreSigned, Supersede
  <1>2. SignedAsDecided' /\ PagesFit'
    BY <1>1, SignedStays, FitsStays DEF WalletInv, Supersede, PagesFit
  <1>3. /\ console' \in [stage : Stage, approval : Approval \cup {None},
                         transaction : Transaction]
        /\ console'.approval = None /\ console'.transaction = NotCreated
        /\ NotCreated.status = "not-created"
    BY DEF Supersede, Stage, Transaction, NotCreated, Status
  <1>4. ConsoleInv'
    BY <1>3 DEF ConsoleInv, DecidedUnderApproval, HashBelongsToPlan, ConfirmedOnChain
  <1>5. used' \in [plans : 0 .. MaxPlans, policies : 0 .. MaxPolicies,
                   events : 0 .. MaxEvents]
    <2>1. used \in [plans : 0 .. MaxPlans, policies : 0 .. MaxPolicies,
                    events : 0 .. MaxEvents]
      BY DEF WalletInv, WalletTypes
    <2>2. used.policies + 1 \in 0 .. MaxPolicies
      BY <2>1, WalletAssumption DEF Supersede
    <2> QED
      BY <2>1, <2>2 DEF Supersede
  <1> QED
    BY <1>1, <1>2, <1>3, <1>4, <1>5 DEF WalletInv, WalletTypes, Supersede

\* An approval is given where there was none, or is given again.
LEMMA ApproveKeeps ==
    ASSUME WalletInv, NEW a \in Approval, Approve(a)
    PROVE  WalletInv'
  <1>1. NetworkInv' /\ Extended /\ NetworkTypes' /\ MoreSigned
    BY NetworkUnchanged DEF WalletInv, WalletTypes, MoreSigned, Approve
  <1>2. SignedAsDecided' /\ PagesFit'
    BY <1>1, SignedStays, FitsStays DEF WalletInv, Approve, PagesFit
  <1>3. /\ console' \in [stage : Stage, approval : Approval \cup {None},
                         transaction : Transaction]
        /\ console'.approval = a /\ console'.transaction = console.transaction
    BY DEF Approve, WalletInv, WalletTypes, Stage
  <1>4. console.approval # a => console.transaction = NotCreated
    BY DEF Approve, WalletInv, ConsoleInv
  <1>5. UNCHANGED <<blocks, signed>>
    BY DEF Approve, networkVars
  <1>6. HashBelongsToPlan' /\ ConfirmedOnChain'
    BY <1>3, <1>5 DEF WalletInv, ConsoleInv, HashBelongsToPlan, ConfirmedOnChain, BlocksOf
  <1>7. ConsoleInv'
    BY <1>3, <1>4, <1>6, WalletAssumption
       DEF WalletInv, ConsoleInv, DecidedUnderApproval
  <1> QED
    BY <1>1, <1>2, <1>3, <1>7 DEF WalletInv, WalletTypes, Approve

LEMMA MineKeeps ==
    ASSUME WalletInv, Mine
    PROVE  WalletInv'
  <1>1. NetworkInv' /\ Extended /\ NetworkTypes'
    BY MineKeepsNetwork, MineKeepsTypes DEF WalletInv, WalletTypes, Mine
  <1>2. UNCHANGED <<console, page, network, signed, used>>
    BY DEF Mine
  <1> QED
    BY <1>1, <1>2, WorldKeeps DEF WalletInv, WalletTypes

\* Every tab forgets its wallet.
LEMMA SwitchKeeps ==
    ASSUME WalletInv, NEW to \in {"policy", "other"}, Switch(to),
           UNCHANGED <<console, signed>>,
           used' \in [plans : 0 .. MaxPlans, policies : 0 .. MaxPolicies,
                      events : 0 .. MaxEvents]
    PROVE  WalletInv'
  <1>1. NetworkInv' /\ Extended /\ NetworkTypes'
    BY NetworkUnchanged DEF WalletInv, WalletTypes, Switch
  <1>2. /\ page' \in [Tab -> Page] /\ network' = to
        /\ \A t \in Tab : page'[t].pc = page[t].pc /\ page'[t].at = page[t].at
    BY DEF Switch, WalletInv, WalletTypes, Page
  <1> QED
    BY <1>1, <1>2, WorldKeeps

LEMMA EventKeeps ==
    ASSUME WalletInv, Event
    PROVE  WalletInv'
  <1>1. /\ UNCHANGED <<console, signed>>
        /\ used' \in [plans : 0 .. MaxPlans, policies : 0 .. MaxPolicies,
                      events : 0 .. MaxEvents]
    BY EventCounted DEF Event
  <1>2. ASSUME NEW kind, NetworkEvent(kind), UNCHANGED <<page, network>>
        PROVE  WalletInv'
    <2>1. NetworkInv' /\ Extended /\ NetworkTypes'
      BY <1>2, EventKeepsNetwork, EventKeepsTypes DEF WalletInv, WalletTypes
    <2> QED
      BY <1>1, <1>2, <2>1, WorldKeeps DEF WalletInv, WalletTypes
  <1>3. CASE Switch("other")
    BY <1>1, <1>3, SwitchKeeps
  <1>4. CASE Reload
    <2>1. PICK t \in Tab :
              page' = [page EXCEPT ![t] = [pc |-> "idle", connected |-> FALSE,
                                           at |-> NoLocals]]
      BY <1>4 DEF Reload
    <2>2. [pc |-> "idle", connected |-> FALSE, at |-> NoLocals] \in Page
      BY NoLocalsType DEF Page, Locations
    <2>3. /\ page' \in [Tab -> Page]
          /\ page'[t].pc = "idle" /\ page'[t].at = NoLocals
          /\ \A u \in Tab : u # t => page'[u] = page[u]
      BY <2>1, <2>2 DEF WalletInv, WalletTypes
    <2>4. NetworkInv' /\ Extended /\ NetworkTypes' /\ UNCHANGED network
      BY <1>4, NetworkUnchanged DEF WalletInv, WalletTypes, Reload
    <2> QED
      BY <1>1, <2>3, <2>4, WorldKeeps DEF WalletInv, WalletTypes
  <1> QED
    BY <1>2, <1>3, <1>4 DEF Event

-----------------------------------------------------------------------------
(* The theorems. *)

LEMMA WalletStarts == Init => WalletInv
  <1> SUFFICES ASSUME Init PROVE WalletInv
    OBVIOUS
  <1>1. NetworkTypes /\ NetworkInv
    BY NetworkStarts, TypesStart DEF Init
  <1>2. /\ console = [stage |-> "proposal-ready", approval |-> None,
                      transaction |-> NotCreated]
        /\ page = [t \in Tab |-> [pc |-> "idle", connected |-> FALSE, at |-> NoLocals]]
        /\ network = "policy" /\ signed = <<>>
        /\ used = [plans |-> 0, policies |-> 0, events |-> 0]
    BY DEF Init
  <1>3. console \in [stage : Stage, approval : Approval \cup {None},
                     transaction : Transaction]
    BY <1>2 DEF Stage, Transaction, NotCreated, Status
  <1>4. page \in [Tab -> Page]
    BY <1>2, NoLocalsType DEF Page, Locations
  <1>5. used \in [plans : 0 .. MaxPlans, policies : 0 .. MaxPolicies,
                  events : 0 .. MaxEvents]
    BY <1>2, WalletAssumption
  <1>6. PagesFit
    BY <1>2, IdleFits DEF PagesFit
  <1>7. SignedAsDecided /\ signed \in Seq([plan : Plan, tx : Tx, look : Nat])
    BY <1>2 DEF SignedAsDecided
  <1>8. ConsoleInv
    BY <1>2 DEF ConsoleInv, DecidedUnderApproval, HashBelongsToPlan,
                ConfirmedOnChain, NotCreated
  <1> QED
    BY <1>1, <1>2, <1>3, <1>4, <1>5, <1>6, <1>7, <1>8 DEF WalletInv, WalletTypes

LEMMA PageStepKeeps ==
    ASSUME WalletInv, NEW t \in Tab, PageStep(t)
    PROVE  WalletInv'
  <1>1. CASE \E what \in {"balance", "nonce", "call"} :
                 Answer(t, what) \/ AnswerAgain(t, what)
    BY <1>1, AnswerKeeps, AnswerAgainKeeps
  <1>2. CASE EstimateFails(t)
    BY <1>2, EndsKeeps DEF EstimateFails
  <1>3. CASE Authorize(t) \/ Decide(t) \/ CheckWallet(t) \/ Report(t) \/ Poll(t)
    BY <1>3, AuthorizeKeeps, DecideKeeps, CheckWalletKeeps, ReportKeeps, PollKeeps
  <1>4. CASE PollTimeout(t)
    BY <1>4, EndsKeeps DEF PollTimeout
  <1>5. CASE ReadAfter(t) \/ Confirm(t) \/ Record(t)
    BY <1>5, ReadAfterKeeps, ConfirmKeeps, RecordKeeps
  <1> QED
    BY <1>1, <1>2, <1>3, <1>4, <1>5 DEF PageStep

LEMMA WalletStep == WalletInv /\ [Next]_vars => WalletInv'
  <1> SUFFICES ASSUME WalletInv, [Next]_vars PROVE WalletInv'
    OBVIOUS
  <1>1. ASSUME NEW t \in Tab, PageStep(t) PROVE WalletInv'
    BY <1>1, PageStepKeeps
  <1>2. ASSUME NEW t \in Tab, User(t) PROVE WalletInv'
    <2>1. CASE Decline(t)
      BY <2>1, EndsKeeps DEF Decline
    <2> QED
      BY <1>2, <2>1, LoadKeeps, ConnectKeeps, SignKeeps, SubmitKeeps DEF User
  <1>3. CASE Supersede
    BY <1>3, SupersedeKeeps
  <1>4. ASSUME NEW a \in Approval, Approve(a) PROVE WalletInv'
    BY <1>4, ApproveKeeps
  <1>5. CASE Mine \/ Event
    BY <1>5, MineKeeps, EventKeeps
  <1>6. CASE SwitchBack
    BY <1>6, SwitchKeeps DEF SwitchBack, WalletInv, WalletTypes
  <1>7. CASE UNCHANGED vars
    <2>1. NetworkInv' /\ Extended /\ NetworkTypes'
      BY <1>7, NetworkUnchanged DEF WalletInv, WalletTypes, vars
    <2> QED
      BY <1>7, <2>1, WorldKeeps DEF WalletInv, WalletTypes, vars
  <1> QED
    BY <1>1, <1>2, <1>3, <1>4, <1>5, <1>6, <1>7 DEF Next

LEMMA SignedTyped ==
    ASSUME WalletInv, NEW i \in DOMAIN signed
    PROVE  signed[i].plan \in Plan /\ signed[i].look \in Nat
  <1> DEFINE E == [plan : Plan, tx : Tx, look : Nat]
  <1>1. signed \in Seq(E)
    BY DEF WalletInv, WalletTypes
  <1> HIDE DEF E
  <1>2. signed[i] \in E
    BY <1>1
  <1> QED
    BY <1>2 DEF E

\* The inductive invariant.
THEOREM WalletInvariant == Spec => []WalletInv
  BY WalletStarts, WalletStep, PTL DEF Spec

\* The form is shown by tabs only.
LEMMA FormTyped == Spec => [](form \subseteq Tab)
  <1>1. Init => form \subseteq Tab
    BY DEF Init
  <1>2. ASSUME form \subseteq Tab, [Next]_vars
        PROVE  (form \subseteq Tab)'
    <2>1. ASSUME NEW t \in Tab, PageStep(t) \/ User(t) PROVE form' \subseteq Tab
      <3>1. CASE Load(t)
        BY <1>2, <3>1 DEF Load
      <3>2. CASE Decide(t) \/ Report(t) \/ Record(t)
        BY <1>2, <3>2 DEF Decide, Report, Record
      <3>3. CASE Sign(t)
        <4>1. form' = form \/ form' = form \ {t}
          BY <3>3, Zenon DEF Sign
        <4> QED
          BY <1>2, <4>1
      <3>4. ASSUME NEW amount, Submit(t, amount) PROVE form' \subseteq Tab
        BY <1>2, <3>4 DEF Submit
      <3>5. CASE PageOnly
        BY <1>2, <3>5 DEF PageOnly
      <3> QED
        BY <2>1, <3>1, <3>2, <3>3, <3>4, <3>5
           DEF PageStep, User, Answer, AnswerAgain, EstimateFails, Authorize, CheckWallet,
               Poll, PollTimeout, ReadAfter, Confirm, Connect, Decline
    <2>2. CASE Event
      <3>1. form' = form \/ \E t \in Tab : form' = form \ {t}
        BY <2>2 DEF Event, Switch, Reload
      <3> QED
        BY <1>2, <3>1
    <2>3. CASE Supersede \/ (\E a \in Approval : Approve(a)) \/ Mine \/ SwitchBack \/ UNCHANGED vars
      BY <1>2, <2>3 DEF Supersede, Approve, Mine, SwitchBack, Switch, vars
    <2> QED
      BY <1>2, <2>1, <2>2, <2>3 DEF Next
  <1> QED
    BY <1>1, <1>2, PTL DEF Spec

\* The types hold with any number of tabs, plans and events; the pending count
\* that plans carry is always defined (ui/app.js:1044-1051).
THEOREM WalletTypesHold == Spec => []TypeOK
  <1>1. WalletInv /\ form \subseteq Tab => TypeOK
    BY DEF WalletInv, WalletTypes, TypeOK, NetworkTypes
  <1> QED
    BY <1>1, WalletInvariant, FormTyped, PTL

\* However many tabs decide and approve at once, the decision on display was
\* taken under the approval in force (ui/server.py:771-778).
THEOREM DecisionsFollowApproval == Spec => []DecidedUnderApproval
  <1>1. WalletInv => DecidedUnderApproval
    BY DEF WalletInv, ConsoleInv
  <1> QED
    BY <1>1, WalletInvariant, PTL

\* A recorded hash was signed for the recorded plan (ui/server.py:798-806).
THEOREM HashesBelong == Spec => []HashBelongsToPlan
  <1>1. WalletInv => HashBelongsToPlan
    BY DEF WalletInv, ConsoleInv
  <1> QED
    BY <1>1, WalletInvariant, PTL

\* A confirmed transfer is mined on the policy's chain and left the approved
\* floor, whatever else happened there (ui/server.py:878-930).
THEOREM ConfirmationsAreTrue == Spec => []ConfirmedOnChain
  <1>1. WalletInv => ConfirmedOnChain
    BY DEF WalletInv, ConsoleInv
  <1> QED
    BY <1>1, WalletInvariant, PTL

\* A transfer mined right after the second look keeps the floor
\* (ui/app.js:1056-1068).
THEOREM SecondLookKeepsFloor == Spec => []SignedKeepsFloor
  <1>1. ASSUME WalletInv PROVE SignedKeepsFloor
    <2> SUFFICES ASSUME NEW i \in DOMAIN signed, NEW b, b = signed[i].look + 1,
                        b \in DOMAIN blocks, blocks[b].tx = signed[i].tx, blocks[b].ok
                 PROVE  blocks[b].left >= signed[i].plan.approval.floor
      BY DEF SignedKeepsFloor
    <2>1. EntryHolds(signed[i])
      BY <1>1 DEF WalletInv, SignedAsDecided
    <2>2. signed[i].plan \in Plan /\ signed[i].look \in Nat
      BY <1>1, SignedTyped
    <2>3. /\ signed[i].plan.amount \in Nat \ {0} /\ signed[i].plan.balance \in Nat
          /\ signed[i].plan.approval.floor \in Nat
      BY <2>2, WalletAssumption DEF Plan
    <2>4. b \in MinedNonces
      BY <2>1, <2>3 DEF MinedNonces, Others, EntryHolds
    <2>5. b - 1 = signed[i].look
      BY <2>2
    <2>6. blocks[b].left = BalanceAt(b - 1) - blocks[b].tx.amount
      BY <1>1, <2>4 DEF WalletInv, NetworkInv, Deducted
    <2> QED
      BY <2>1, <2>3, <2>5, <2>6 DEF Held, Accepts, EntryHolds
  <1>2. WalletInv => SignedKeepsFloor
    BY <1>1
  <1> QED
    BY <1>2, WalletInvariant, PTL

\* The chain executes a plan once, however often it is authorized and signed
\* (ui/server.py:733-740).
THEOREM PlansMineOnce == Spec => []PlanMinedOnce
  <1>1. ASSUME WalletInv PROVE PlanMinedOnce
    <2> SUFFICES ASSUME NEW i \in DOMAIN signed, NEW j \in DOMAIN signed,
                        signed[i].plan = signed[j].plan,
                        NEW b \in BlocksOf(signed[i].tx),
                        NEW c \in BlocksOf(signed[j].tx)
                 PROVE  b = c
      BY DEF PlanMinedOnce
    <2>1. signed[i].tx.nonce = signed[j].tx.nonce
      BY <1>1 DEF WalletInv, SignedAsDecided, EntryHolds
    <2>2. \A k \in DOMAIN signed : signed[k].tx # Others
      <3> SUFFICES ASSUME NEW k \in DOMAIN signed PROVE signed[k].tx # Others
        OBVIOUS
      <3>1. signed[k].tx.amount = signed[k].plan.amount /\ signed[k].plan \in Plan
        BY <1>1, SignedTyped DEF WalletInv, SignedAsDecided, EntryHolds
      <3>2. signed[k].plan.amount # 0
        BY <3>1, WalletAssumption DEF Plan
      <3> QED
        BY <3>1, <3>2 DEF Others
    <2> QED
      BY <1>1, <2>1, <2>2, OneBlockPerNonce DEF WalletInv
  <1>2. WalletInv => PlanMinedOnce
    BY <1>1
  <1> QED
    BY <1>2, WalletInvariant, PTL

=============================================================================
