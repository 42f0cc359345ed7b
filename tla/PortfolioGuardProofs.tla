------------------------ MODULE PortfolioGuardProofs ------------------------
(***************************************************************************)
(* What PortfolioGuard hands over was judged by a proposal the user        *)
(* confirmed or somebody approved by hand, and what is then mined keeps    *)
(* the limits of that proposal on the chain: for any number of callers,    *)
(* policies, limits and moves, and for any edits of the files.  In between *)
(* stands what the evaluator's loops compute, for any series of values     *)
(* (PortfolioLimits).                                                      *)
(***************************************************************************)
EXTENDS PortfolioGuard, FiniteSetTheorems, SequenceTheorems, TLAPS

-----------------------------------------------------------------------------
(* Judged as shown.                                                        *)

\* The desk keeps its drawers, and an approval its fields, whatever is written
\* into them.
DeskForm ==
    /\ DOMAIN desk = {"request", "proposal", "approval"}
    /\ desk.approval # None =>
          DOMAIN desk.approval = {"scope", "proposal", "proposalHash",
                                  "policyHash", "confirmation"}

\* The proposals somebody approved, at the command line or in the file.
Approved == confirmed \cup byHand

\* A user's approval carries a hash the user typed, unless somebody wrote its
\* confirmation or its scope: any other edit makes it invalid, not another's.
UserApprovals ==
    desk.approval # None /\ desk.approval.scope = "user"
        => desk.approval.confirmation \in Approved

Decided(call) == call.pc \in {"accepted", "current"}

CallsConfirmed ==
    /\ DOMAIN calls = Caller
    /\ \A c \in Caller : Decided(calls[c]) => calls[c].proposal \in Approved

\* JudgedAsShown is about what was sent; the strengthening follows a proposal
\* from the file through the evaluator's answer and the call to the pool.
GuardInv ==
    /\ DeskForm
    /\ UserApprovals
    /\ CallsConfirmed
    /\ \E S : ledger \in Seq(S)
    /\ JudgedAsShown

LEMMA GuardInit == Init => GuardInv
  <1> SUFFICES ASSUME Init PROVE GuardInv
    OBVIOUS
  <1>1. DeskForm /\ UserApprovals
    BY DEF Init, DeskForm, UserApprovals
  <1>2. CallsConfirmed
    BY DEF Init, CallsConfirmed, Decided, Idle
  <1>3. ledger \in Seq({}) /\ JudgedAsShown
    BY DEF Init, JudgedAsShown
  <1> QED
    BY <1>1, <1>2, <1>3 DEF GuardInv

-----------------------------------------------------------------------------
(* The workflow writes the desk; only Approve and an edit by hand make a      *)
(* user's approval.                                                          *)

LEMMA WorkflowStep ==
    ASSUME GuardInv, Workflow
    PROVE  GuardInv'
  <1>1. UNCHANGED <<ledger, calls, pool>> /\ Approved \subseteq Approved'
    BY DEF Workflow, CreateRequest, CompileLocal, EditProposal, EditApproval,
           CompileResponse, Show, Approve, ApproveFixture, Approved
  <1>2. DeskForm /\ UserApprovals
    BY DEF GuardInv
  <1>3. DeskForm' /\ UserApprovals'
    <2>1. CASE desk'.approval = desk.approval /\ DOMAIN desk' = DOMAIN desk
      BY <1>1, <1>2, <2>1 DEF DeskForm, UserApprovals
    <2>2. CASE Approve
      <3>1. desk' = [desk EXCEPT !.approval = ApprovalOf(desk.proposal, "user")]
        BY <2>2 DEF Approve
      <3>2. desk'.approval = ApprovalOf(desk.proposal, "user") /\ DOMAIN desk' = DOMAIN desk
        BY <1>2, <3>1 DEF DeskForm
      <3>3. desk.proposal \in Approved'
        BY <2>2 DEF Approve, Confirms, Approved
      <3> QED
        BY <1>2, <3>2, <3>3 DEF DeskForm, UserApprovals, ApprovalOf
    <2>3. CASE ApproveFixture
      <3>1. desk' = [desk EXCEPT !.approval = ApprovalOf(desk.proposal, "test-fixture")]
        BY <2>3 DEF ApproveFixture
      <3>2. /\ desk'.approval = ApprovalOf(desk.proposal, "test-fixture")
            /\ DOMAIN desk' = DOMAIN desk
        BY <1>2, <3>1 DEF DeskForm
      <3> QED
        BY <1>2, <3>2 DEF DeskForm, UserApprovals, ApprovalOf
    <2>4. ASSUME NEW file \in Approvals, EditApproval(file) PROVE DeskForm' /\ UserApprovals'
      <3>1. desk.approval # None /\ desk' = [desk EXCEPT !.approval = file]
        BY <2>4 DEF EditApproval
      <3>2. desk'.approval = file /\ DOMAIN desk' = DOMAIN desk
        BY <1>2, <3>1 DEF DeskForm
      <3>3. DOMAIN file = {"scope", "proposal", "proposalHash", "policyHash", "confirmation"}
        BY DEF Approvals
      <3>4. file.scope = "user" => file.confirmation \in Approved'
        <4>1. CASE /\ file.scope = "user"
                   /\ \/ desk.approval.scope # "user"
                      \/ file.confirmation # desk.approval.confirmation
          BY <2>4, <4>1 DEF EditApproval, Approved
        <4>2. CASE desk.approval.scope = "user" /\ file.confirmation = desk.approval.confirmation
          BY <1>1, <1>2, <3>1, <4>2 DEF UserApprovals
        <4> QED
          BY <4>1, <4>2
      <3> QED
        BY <1>2, <3>2, <3>3, <3>4 DEF DeskForm, UserApprovals
    <2>5. CASE Show
      BY <2>1, <2>5 DEF Show
    <2>6. CASE \E p \in Offered : CreateRequest(p) \/ CompileLocal(p)
      <3>1. (\E r : desk' = [desk EXCEPT !.request = r]) \/ \E r : desk' = [desk EXCEPT !.proposal = r]
        BY <2>6 DEF CreateRequest, CompileLocal
      <3> QED
        BY <1>2, <2>1, <3>1 DEF DeskForm
    <2>7. CASE \E r \in Proposals : CompileResponse(r) \/ EditProposal(r)
      <3>1. \E r : desk' = [desk EXCEPT !.proposal = r]
        BY <2>7 DEF CompileResponse, EditProposal
      <3> QED
        BY <1>2, <2>1, <3>1 DEF DeskForm
    <2> QED
      BY <2>2, <2>3, <2>4, <2>5, <2>6, <2>7, WrittenAssumption DEF Workflow
  <1> QED
    BY <1>1, <1>3 DEF GuardInv, CallsConfirmed, JudgedAsShown, Approved

-----------------------------------------------------------------------------
(* The gate. *)

\* An approval that judges is a user's and fits itself, and so is about a
\* proposal somebody approved.
LEMMA JudgesConfirmed ==
    ASSUME GuardInv, Judges(desk.approval)
    PROVE  desk.approval.proposal \in Approved
  BY DEF GuardInv, UserApprovals, Judges, ValidApproval

LEMMA CallStep ==
    ASSUME GuardInv, NEW c \in Caller, Call(c)
    PROVE  GuardInv'
  <1>1. UNCHANGED <<desk, confirmed, byHand, ledger>> /\ DOMAIN calls = Caller
    BY DEF GuardInv, CallsConfirmed, Call, Capture, Evaluate, EvaluatorFails,
           CheckContext, BindAndSend
  <1>0. /\ ~Decided(Refused) /\ ~Decided(Sent)
        /\ \A snapshot : ~Decided([pc |-> "evaluating", snapshot |-> snapshot])
    BY DEF Decided, Refused, Sent
  <1>2. PICK new : /\ calls' = [calls EXCEPT ![c] = new]
                   /\ Decided(new) => new.proposal \in Approved
    <2>1. CASE \E claim \in Claim, move \in Move, coverage \in 0 .. clock :
                   Capture(c, claim, move, coverage)
      <3>1. PICK snapshot : calls' = [calls EXCEPT ![c] =
                                         [pc |-> "evaluating", snapshot |-> snapshot]]
        BY <2>1 DEF Capture
      <3> QED
        BY <1>0, <3>1, Zenon
    <2>2. CASE \E about \in Caller : Evaluate(c, about)
      <3>1. PICK about \in Caller : Evaluate(c, about)
        BY <2>2
      <3>2. desk.approval.proposal \in Approved
        BY <3>1, JudgesConfirmed DEF Evaluate, CanDecide
      <3>3. \/ calls' = [calls EXCEPT ![c] = Refused]
            \/ calls' = [calls EXCEPT ![c] =
                    [pc |-> "accepted", snapshot |-> calls[c].snapshot,
                     proposal |-> desk.approval.proposal]]
        BY <1>1, <3>1 DEF Evaluate, Decision, Belongs
      <3> DEFINE call == [pc |-> "accepted", snapshot |-> calls[c].snapshot,
                          proposal |-> desk.approval.proposal]
      <3>4. call.proposal \in Approved
        BY <3>2
      <3>5. calls' = [calls EXCEPT ![c] = Refused] \/ calls' = [calls EXCEPT ![c] = call]
        BY <3>3
      <3> HIDE DEF call
      <3> QED
        BY <1>0, <3>4, <3>5, Zenon
    <2>3. CASE EvaluatorFails(c)
      BY <1>0, <2>3, Zenon DEF EvaluatorFails
    <2>4. CASE CheckContext(c)
      <3>1. calls[c].proposal \in Approved
        BY <2>4 DEF CheckContext, GuardInv, CallsConfirmed, Decided
      <3>2. \/ calls' = [calls EXCEPT ![c] = Refused]
            \/ calls' = [calls EXCEPT ![c] =
                    [pc |-> "current", snapshot |-> calls[c].snapshot,
                     proposal |-> calls[c].proposal, seen |-> Len(ledger)]]
        BY <1>1, <2>4 DEF CheckContext, SameContext
      <3> DEFINE call == [pc |-> "current", snapshot |-> calls[c].snapshot,
                          proposal |-> calls[c].proposal, seen |-> Len(ledger)]
      <3>3. call.proposal \in Approved
        BY <3>1
      <3>4. calls' = [calls EXCEPT ![c] = Refused] \/ calls' = [calls EXCEPT ![c] = call]
        BY <3>2
      <3> HIDE DEF call
      <3> QED
        BY <1>0, <3>3, <3>4, Zenon
    <2>5. CASE BindAndSend(c)
      <3>1. \/ calls' = [calls EXCEPT ![c] = Sent]
            \/ calls' = [calls EXCEPT ![c] = Refused]
        BY <2>5 DEF BindAndSend
      <3> QED
        BY <1>0, <3>1, Zenon
    <2> QED
      BY <2>1, <2>2, <2>3, <2>4, <2>5 DEF Call
  <1>3. CallsConfirmed'
    BY <1>1, <1>2 DEF GuardInv, CallsConfirmed, Approved
  <1>4. \A tx \in pool' : tx \in pool \/ tx.proposal \in Approved
    <2>1. CASE BindAndSend(c)
      <3>1. calls[c].proposal \in Approved
        BY <2>1 DEF BindAndSend, GuardInv, CallsConfirmed, Decided
      <3> QED
        BY <2>1, <3>1 DEF BindAndSend
    <2> QED
      BY <2>1 DEF Call, Capture, Evaluate, EvaluatorFails, CheckContext
  <1>5. JudgedAsShown'
    BY <1>1, <1>4 DEF GuardInv, JudgedAsShown, Approved
  <1> QED
    BY <1>1, <1>3, <1>5 DEF GuardInv, DeskForm, UserApprovals, Approved

-----------------------------------------------------------------------------
(* The chain. *)

LEMMA AppendedSequence ==
    ASSUME NEW S, NEW s \in Seq(S), NEW e
    PROVE  /\ Append(s, e) \in Seq(S \cup {e})
           /\ DOMAIN Append(s, e) = DOMAIN s \cup {Len(s) + 1}
           /\ \A i \in DOMAIN s : Append(s, e)[i] = s[i]
           /\ Append(s, e)[Len(s) + 1] = e
  <1>1. s \in Seq(S \cup {e})
    OBVIOUS
  <1> QED
    BY <1>1

LEMMA MinedStep ==
    ASSUME GuardInv, NEW move, NEW by, Mined(move, by),
           by # Outside => by.proposal \in Approved,
           UNCHANGED <<desk, confirmed, byHand, calls>>, pool' \subseteq pool
    PROVE  GuardInv'
  <1>1. PICK S : ledger \in Seq(S)
    BY DEF GuardInv
  <1>2. PICK e : ledger' = Append(ledger, e) /\ e.by = by
    BY DEF Mined
  <1>3. \E T : ledger' \in Seq(T)
    BY <1>1, <1>2, AppendedSequence
  <1>4. \A i \in DOMAIN ledger' :
            ledger'[i].by # Outside => ledger'[i].by.proposal \in Approved
    BY <1>1, <1>2, AppendedSequence DEF GuardInv, JudgedAsShown, Approved
  <1>5. JudgedAsShown'
    BY <1>4 DEF GuardInv, JudgedAsShown, Approved
  <1> QED
    BY <1>3, <1>5 DEF GuardInv, DeskForm, UserApprovals, CallsConfirmed, Approved

LEMMA GuardStep == GuardInv /\ [Next]_vars => GuardInv'
  <1> SUFFICES ASSUME GuardInv, [Next]_vars PROVE GuardInv'
    OBVIOUS
  <1>1. ASSUME NEW m \in Move, MoveOutside(m) PROVE GuardInv'
    BY <1>1, MinedStep DEF MoveOutside
  <1>2. ASSUME NEW tx \in pool, Mine(tx) PROVE GuardInv'
    <2> DEFINE by == [proposal |-> tx.proposal, seen |-> tx.seen]
    <2>1. Mined(tx.move, by) /\ UNCHANGED <<desk, confirmed, byHand, calls>> /\ pool' \subseteq pool
      BY <1>2 DEF Mine
    <2>2. by.proposal \in Approved
      BY DEF GuardInv, JudgedAsShown, Approved
    <2> HIDE DEF by
    <2> QED
      BY <2>1, <2>2, MinedStep
  <1>3. CASE Tick \/ UNCHANGED vars
    BY <1>3 DEF Tick, vars, GuardInv, DeskForm, UserApprovals, CallsConfirmed, JudgedAsShown, Approved
  <1> QED
    BY <1>1, <1>2, <1>3, WorkflowStep, CallStep DEF Next

\* Whatever is handed over or mined was judged by a proposal whose hash the user
\* typed after reading it, or that somebody approved by hand in the file, however
\* often the files were edited, regenerated or approved as fixtures in between,
\* and for any number of callers (synthesis_models.py:96-138,
\* evaluate_pre_execution.py:36).
THEOREM SentWasConfirmed == Spec => []JudgedAsShown
  <1>1. GuardInv => JudgedAsShown
    BY DEF GuardInv
  <1> QED
    BY <1>1, GuardInit, GuardStep, PTL DEF Spec

-----------------------------------------------------------------------------
(* Loops.  The library's induction takes an operator as its parameter;     *)
(* counting the elements of finite sets does without.                      *)

\* Induction on a bounded counter, by counting: if some number were not in T,
\* as many numbers as are not in T would fit into one fewer.
LEMMA Induction ==
    ASSUME NEW n \in Nat, NEW T, 0 \in T, \A k \in 1 .. n : k - 1 \in T => k \in T
    PROVE  0 .. n \subseteq T
  <1> SUFFICES ASSUME NEW m \in 0 .. n, m \notin T PROVE FALSE
    OBVIOUS
  <1> DEFINE Bad == {k \in 0 .. m : k \notin T}
             Less == Bad \ {m}
             down == [k \in Bad |-> k - 1]
  <1>1. IsFiniteSet(Bad) /\ IsFiniteSet(Less) /\ Cardinality(Less) < Cardinality(Bad)
    <2>1. IsFiniteSet(0 .. m) /\ Bad \in SUBSET (0 .. m) /\ m \in Bad
      BY FS_Interval
    <2> HIDE DEF Bad
    <2>2. IsFiniteSet(Bad) /\ Cardinality(Bad) \in Nat
      BY <2>1, FS_Subset, FS_CardinalityType
    <2>3. IsFiniteSet(Less) /\ Cardinality(Less) = Cardinality(Bad) - 1
      BY <2>1, <2>2, FS_RemoveElement
    <2> QED
      BY <2>2, <2>3
  <1>2. down \in [Bad -> Less]
    OBVIOUS
  <1>3. \A j, k \in Bad : down[j] = down[k] => j = k
    OBVIOUS
  <1> HIDE DEF Bad, Less, down
  <1> QED
    BY <1>1, <1>2, <1>3, FS_PigeonHole

\* The values a loop's variable takes, turn by turn.
Iterates(f, n, base, step) ==
    /\ f[0] = base
    /\ \A k \in 1 .. n : f[k] = step[<<k, f[k - 1]>>]

\* A loop of n turns runs: there is a function that gives its variable's value
\* after every turn.
LEMMA LoopRuns ==
    ASSUME NEW n \in Nat, NEW S, NEW base \in S,
           NEW step \in [(1 .. n) \X S -> S]
    PROVE  \E f : f \in [0 .. n -> S] /\ Iterates(f, n, base, step)
  <1> DEFINE Run(f, m) ==
               f[0] = base /\ \A k \in 1 .. m : f[k] = step[<<k, f[k - 1]>>]
             T == {m \in 0 .. n : \E f \in [0 .. m -> S] : Run(f, m)}
  <1>1. 0 \in T
    <2> DEFINE g == [k \in 0 .. 0 |-> base]
    <2>1. g \in [0 .. 0 -> S]
      OBVIOUS
    <2>2. Run(g, 0)
      OBVIOUS
    <2>3. \E f \in [0 .. 0 -> S] : Run(f, 0)
      BY <2>1, <2>2
    <2> QED
      BY <2>3
  <1>2. ASSUME NEW m \in 1 .. n, m - 1 \in T PROVE m \in T
    <2>1. PICK f \in [0 .. m - 1 -> S] : Run(f, m - 1)
      BY <1>2
    <2>2. f[m - 1] \in S /\ step[<<m, f[m - 1]>>] \in S
      OBVIOUS
    <2> DEFINE g == [k \in 0 .. m |-> IF k = m THEN step[<<m, f[m - 1]>>] ELSE f[k]]
    <2>3. g \in [0 .. m -> S]
      BY <2>2
    <2>4. \A k \in 0 .. m : g[k] = IF k = 0 THEN base ELSE step[<<k, g[k - 1]>>]
      <3> TAKE k \in 0 .. m
      <3>1. CASE k = m
        <4>1. m - 1 \in 0 .. m /\ m - 1 # m /\ m \in 0 .. m /\ m # 0
          OBVIOUS
        <4>2. g[m - 1] = f[m - 1] /\ g[m] = step[<<m, f[m - 1]>>]
          BY <4>1
        <4> QED
          BY <3>1, <4>1, <4>2
      <3>2. CASE k # m
        <4>1. k \in 0 .. m - 1 /\ g[k] = f[k]
          BY <3>2
        <4>2. k # 0 => k - 1 \in 0 .. m - 1 /\ g[k - 1] = f[k - 1]
          BY <4>1
        <4>3. f[k] = IF k = 0 THEN base ELSE step[<<k, f[k - 1]>>]
          BY <2>1, <4>1
        <4> QED
          BY <4>1, <4>2, <4>3
      <3> QED
        BY <3>1, <3>2
    <2> HIDE DEF g
    <2>5. Run(g, m)
      <3>1. 0 \in 0 .. m /\ \A k \in 1 .. m : k \in 0 .. m /\ k # 0
        OBVIOUS
      <3> QED
        BY <2>4, <3>1
    <2>6. m \in 0 .. n
      OBVIOUS
    <2> HIDE DEF Run
    <2> QED
      BY <2>3, <2>5, <2>6
  <1>3. 0 .. n \subseteq T
    <2> HIDE DEF T
    <2> QED
      BY <1>1, <1>2, Induction
  <1> QED
    BY <1>3 DEF Iterates

\* A finite set of integers that is not empty has a largest and a smallest element,
\* and Max and Min choose them.
LEMMA FiniteHasBounds ==
    ASSUME NEW S \in SUBSET Int, IsFiniteSet(S), S # {}
    PROVE  /\ Max(S) \in S /\ \A y \in S : Max(S) >= y
           /\ Min(S) \in S /\ \A y \in S : Min(S) <= y
  <1> DEFINE Bounded(X) == X = {} \/ ( /\ \E x \in X : \A y \in X : x >= y
                                       /\ \E x \in X : \A y \in X : x <= y)
             n == Cardinality(S)
             T == {m \in 0 .. n : \A X \in SUBSET S : Cardinality(X) = m => Bounded(X)}
  <1>0. n \in Nat /\ \A X \in SUBSET S : IsFiniteSet(X)
    BY FS_CardinalityType, FS_Subset
  <1> HIDE DEF n
  <1>1. 0 \in T
    <2>1. \A X \in SUBSET S : Cardinality(X) = 0 => X = {}
      BY <1>0, FS_EmptySet
    <2> QED
      BY <1>0, <2>1
  <1>2. ASSUME NEW m \in 1 .. n, m - 1 \in T PROVE m \in T
    <2> SUFFICES ASSUME NEW X \in SUBSET S, Cardinality(X) = m PROVE Bounded(X)
      BY <1>0
    <2>1. IsFiniteSet(X) /\ X # {}
      BY <1>0, FS_EmptySet
    <2>2. PICK e \in X : TRUE
      BY <2>1
    <2>3. Cardinality(X \ {e}) = m - 1
      BY <2>1, FS_RemoveElement
    <2>4. Bounded(X \ {e})
      BY <1>2, <2>3
    <2>5. CASE X = {e}
      BY <2>5
    <2>6. CASE X # {e}
      <3>1. PICK a \in X \ {e}, b \in X \ {e} : \A y \in X \ {e} : a >= y /\ b <= y
        BY <2>4, <2>6
      <3>2. \A y \in X : (IF a >= e THEN a ELSE e) >= y /\ (IF b <= e THEN b ELSE e) <= y
        BY <3>1
      <3> QED
        BY <3>1, <3>2
    <2> QED
      BY <2>5, <2>6
  <1>3. 0 .. n \subseteq T
    <2> HIDE DEF T
    <2> QED
      BY <1>0, <1>1, <1>2, Induction
  <1>4. Bounded(S)
    BY <1>0, <1>3 DEF n
  <1> QED
    BY <1>4 DEF Max, Min

-----------------------------------------------------------------------------
(* What the limits mean.  A verdict is a Min, a Max or a running worst     *)
(* ratio; a limit is said with quantifiers.                                *)

Values == [t : Nat, before : Nat, after : Nat]

LEMMA MinMeaning ==
    ASSUME NEW S \in SUBSET Int, IsFiniteSet(S), S # {}, NEW v \in Int
    PROVE  /\ Min(S) \in Int
           /\ Min(S) >= v <=> \A x \in S : x >= v
           /\ Min(S) * BpsScale >= v <=> \A x \in S : x * BpsScale >= v
  <1>1. Min(S) \in S /\ \A y \in S : Min(S) <= y
    BY FiniteHasBounds
  <1> DEFINE m == Min(S)
  <1>2. m \in S /\ m \in Int /\ \A y \in S : y \in Int /\ m <= y
    BY <1>1
  <1> HIDE DEF m
  <1>3. m >= v <=> \A x \in S : x >= v
    BY <1>2
  <1>4. m * BpsScale >= v <=> \A x \in S : x * BpsScale >= v
    BY <1>2 DEF BpsScale
  <1> QED
    BY <1>2, <1>3, <1>4 DEF m

LEMMA MaxMeaning ==
    ASSUME NEW S \in SUBSET Int, IsFiniteSet(S), S # {}, NEW v \in Int
    PROVE  Max(S) <= v <=> \A x \in S : x <= v
  <1> DEFINE m == Max(S)
  <1>1. m \in S /\ m \in Int /\ \A y \in S : y \in Int /\ m >= y
    BY FiniteHasBounds
  <1> HIDE DEF m
  <1>2. m <= v <=> \A x \in S : x <= v
    BY <1>1
  <1> QED
    BY <1>2 DEF m

LEMMA ValueFields ==
    ASSUME NEW points \in Seq(Values)
    PROVE  /\ Len(points) \in Nat
           /\ \A i \in 1 .. Len(points) : /\ points[i] \in Values /\ points[i].t \in Nat
                                         /\ points[i].before \in Nat /\ points[i].after \in Nat
  <1>1. \A i \in 1 .. Len(points) : points[i] \in Values
    OBVIOUS
  <1> QED
    BY <1>1 DEF Values

LEMMA LossValue ==
    ASSUME NEW points \in Seq(Values), NEW i \in 1 .. Len(points), NEW j \in 1 .. Len(points)
    PROVE  Loss(points, i, j) = IF points[i].before >= points[j].after
                                THEN points[i].before - points[j].after ELSE 0
  <1> DEFINE d == points[i].before - points[j].after
             S == {0, d}
  <1>1. points[i].before \in Nat /\ points[j].after \in Nat /\ d \in Int
    BY ValueFields
  <1>2. S \in SUBSET Int /\ IsFiniteSet(S) /\ S # {}
    <2>1. IsFiniteSet({0}) /\ {0} \cup {d} = S
      BY FS_Singleton
    <2>2. IsFiniteSet({0} \cup {d})
      BY <2>1, FS_AddElement
    <2>3. S \in SUBSET Int
      BY <1>1
    <2> QED
      BY <2>1, <2>2, <2>3
  <1>3. Max(S) \in S /\ \A y \in S : Max(S) >= y
    <2> HIDE DEF S
    <2> QED
      BY <1>2, FiniteHasBounds
  <1>4. Loss(points, i, j) = Max(S)
    BY DEF Loss
  <1> QED
    BY <1>1, <1>3, <1>4

\* What the smallest observed value says of the points.
LEMMA ObservedMeaning ==
    ASSUME NEW points \in Seq(Values), points # <<>>, NEW last \in BOOLEAN
    PROVE  /\ Observed(points, last) \in SUBSET Int
           /\ IsFiniteSet(Observed(points, last)) /\ Observed(points, last) # {}
  <1>1. /\ Len(points) \in Nat \ {0} /\ points[1].before \in Nat
        /\ LastPoint(points).after \in Nat
    <2>1. Len(points) \in Nat \ {0}
      OBVIOUS
    <2> QED
      BY <2>1, ValueFields DEF LastPoint
  <1> DEFINE after == [i \in 1 .. Len(points) |-> points[i].after]
             A == {points[i].after : i \in 1 .. Len(points)}
  <1>2. IsFiniteSet(A) /\ A \in SUBSET Int
    <2>1. IsFiniteSet(1 .. Len(points))
      BY <1>1, FS_Interval
    <2>2. A \in SUBSET Int
      BY ValueFields
    <2>3. after \in Surjection(1 .. Len(points), A)
      BY DEF Surjection
    <2> QED
      BY <2>1, <2>2, <2>3, FS_Surjection
  <1>3. IsFiniteSet({LastPoint(points).after})
    BY FS_Singleton
  <1>4. IsFiniteSet({points[1].before} \cup A)
    <2>1. A \cup {points[1].before} = {points[1].before} \cup A
      OBVIOUS
    <2> HIDE DEF A
    <2> QED
      BY <1>2, <2>1, FS_AddElement
  <1> HIDE DEF A
  <1>5. Observed(points, last) = IF last THEN {LastPoint(points).after} ELSE {points[1].before} \cup A
    BY DEF Observed, A
  <1>6. CASE last
    <2>1. Observed(points, last) = {LastPoint(points).after}
      BY <1>5, <1>6
    <2> QED
      BY <1>1, <1>3, <2>1
  <1>7. CASE ~last
    <2>1. Observed(points, last) = {points[1].before} \cup A
      BY <1>5, <1>7
    <2>2. {points[1].before} \in SUBSET Int
      BY <1>1
    <2>3. {points[1].before} \cup A \in SUBSET Int /\ {points[1].before} \cup A # {}
      BY <1>2, <2>2
    <2> QED
      BY <1>4, <2>1, <2>3
  <1> QED
    BY <1>6, <1>7

LEMMA FloorMeaning ==
    ASSUME NEW points \in Seq(Values), points # <<>>, NEW last \in BOOLEAN,
           NEW inv \in [kind : {"floor"}, floor : Nat]
    PROVE  FloorHolds(inv, points, last)
             <=> IF last THEN LastPoint(points).after >= inv.floor
                 ELSE /\ points[1].before >= inv.floor
                      /\ \A i \in 1 .. Len(points) : points[i].after >= inv.floor
  <1>1. FloorHolds(inv, points, last) <=> \A x \in Observed(points, last) : x >= inv.floor
    BY ObservedMeaning, MinMeaning DEF FloorHolds
  <1> QED
    BY <1>1 DEF Observed

LEMMA DrawdownMeaning ==
    ASSUME NEW points \in Seq(Values), points # <<>>, NEW last \in BOOLEAN,
           NEW inv \in [kind : {"drawdown"}, reference : Nat, bps : 0 .. BpsScale]
    PROVE  DrawdownHolds(inv, points, last)
             <=> IF last THEN (inv.reference - LastPoint(points).after) * BpsScale
                                 <= inv.reference * inv.bps
                 ELSE /\ (inv.reference - points[1].before) * BpsScale
                             <= inv.reference * inv.bps
                      /\ \A i \in 1 .. Len(points) :
                            (inv.reference - points[i].after) * BpsScale
                                 <= inv.reference * inv.bps
  <1> DEFINE r == inv.reference
             c == r * (BpsScale - inv.bps)
  <1>1. r \in Nat /\ inv.bps \in Nat
    <2>1. inv.reference \in Nat /\ inv.bps \in 0 .. BpsScale
      OBVIOUS
    <2>2. 0 .. BpsScale \subseteq Nat
      BY DEF BpsScale
    <2> QED
      BY <2>1, <2>2
  <1>0. BpsScale - inv.bps \in Int /\ c \in Int
    <2>1. BpsScale - inv.bps \in Int
      BY <1>1 DEF BpsScale
    <2>2. \A y \in Int : r * y \in Int
      BY <1>1
    <2> QED
      BY <2>1, <2>2
  <1>2. DrawdownHolds(inv, points, last)
           <=> \A x \in Observed(points, last) : x * BpsScale >= c
    <2> HIDE DEF c
    <2>1. Min(Observed(points, last)) * BpsScale >= c
             <=> \A x \in Observed(points, last) : x * BpsScale >= c
      BY <1>0, ObservedMeaning, MinMeaning
    <2> QED
      BY <2>1 DEF DrawdownHolds, c
  <1>3. \A x \in Int : x * BpsScale >= c <=> (r - x) * BpsScale <= r * inv.bps
    <2> DEFINE b == inv.bps
    <2>1. \A p, q \in Nat : p * (10000 - q) = p * 10000 - p * q /\ p * q \in Nat
      OBVIOUS
    <2>2. b \in Nat /\ c = r * 10000 - r * b /\ r * b \in Nat
      BY <1>1, <2>1 DEF BpsScale
    <2>0. r \in Nat
      BY <1>1
    <2> HIDE DEF b, c, r
    <2>3. \A d, z \in Nat, x \in Int : x * 10000 >= d * 10000 - z <=> (d - x) * 10000 <= z
      OBVIOUS
    <2>4. \A x \in Int : x * 10000 >= c <=> (r - x) * 10000 <= r * b
      BY <2>0, <2>2, <2>3
    <2> QED
      BY <2>4 DEF BpsScale, b
  <1>4. \A i \in 1 .. Len(points) : points[i].before \in Int /\ points[i].after \in Int
    BY ValueFields
  <1>5. Len(points) \in Nat \ {0}
    OBVIOUS
  <1>6. points[1].before \in Int /\ LastPoint(points).after \in Int
    BY <1>4, <1>5 DEF LastPoint
  <1>7. (\A x \in Observed(points, last) : x * BpsScale >= c)
           <=> \A x \in Observed(points, last) : (r - x) * BpsScale <= r * inv.bps
    BY <1>3, ObservedMeaning
  <1> HIDE DEF c
  <1> QED
    BY <1>2, <1>7 DEF Observed

\* A loss cap, said of each pair of points of a window.
LEMMA LossCapMeaning ==
    ASSUME NEW points \in Seq(Values), points # <<>>, NEW last \in BOOLEAN,
           NEW inv \in [kind : {"lossCap"}, window : Nat, cap : Nat]
    PROVE  LossCapHolds(inv, points, last)
             <=> \A w \in Windows(points, inv.window, last) :
                    points[w[1]].before - points[w[2]].after <= inv.cap
  <1> DEFINE n == Len(points)
             W == Windows(points, inv.window, last)
             loss == [w \in W |-> Loss(points, w[1], w[2])]
             S == {Loss(points, w[1], w[2]) : w \in W}
  <1>1. n \in Nat \ {0} /\ inv.window \in Nat /\ inv.cap \in Nat
    OBVIOUS
  <1>2. W \in SUBSET ((1 .. n) \X (1 .. n)) /\ IsFiniteSet((1 .. n) \X (1 .. n))
    <2>1. IsFiniteSet(1 .. n)
      BY <1>1, FS_Interval
    <2> QED
      BY <2>1, FS_Product DEF Windows
  <1>3. <<n, n>> \in W
    <2>1. n \in 1 .. n /\ points[n].t - points[n].t = 0
      BY <1>1, ValueFields
    <2> QED
      BY <1>1, <2>1 DEF Windows, Within
  <1>4. \A w \in W : Loss(points, w[1], w[2]) = IF points[w[1]].before >= points[w[2]].after
                        THEN points[w[1]].before - points[w[2]].after ELSE 0
    <2>1. \A w \in W : w[1] \in 1 .. n /\ w[2] \in 1 .. n
      BY <1>2
    <2> HIDE DEF W
    <2> QED
      BY <2>1, LossValue
  <1>5. \A w \in W : points[w[1]].before \in Nat /\ points[w[2]].after \in Nat
    <2>1. \A w \in W : w[1] \in 1 .. n /\ w[2] \in 1 .. n
      BY <1>2
    <2> HIDE DEF W
    <2> QED
      BY <2>1, ValueFields
  <1> HIDE DEF W
  <1>6. S \in SUBSET Int /\ S # {}
    BY <1>3, <1>4, <1>5
  <1>7. IsFiniteSet(S)
    <2>1. loss \in Surjection(W, S)
      BY DEF Surjection
    <2>2. IsFiniteSet(W)
      BY <1>2, FS_Subset
    <2> HIDE DEF S, loss
    <2> QED
      BY <2>1, <2>2, FS_Surjection
  <1>8. Max(S) <= inv.cap <=> \A x \in S : x <= inv.cap
    <2> HIDE DEF S
    <2> QED
      BY <1>1, <1>6, <1>7, MaxMeaning
  <1>9. LossCapHolds(inv, points, last) <=> Max(S) <= inv.cap
    BY DEF LossCapHolds, W
  <1>10. (\A x \in S : x <= inv.cap)
            <=> \A w \in W : points[w[1]].before - points[w[2]].after <= inv.cap
    BY <1>1, <1>4, <1>5
  <1> QED
    BY <1>8, <1>9, <1>10 DEF W

\* A ratio of a window: where the portfolio was worth nothing, nothing was lost.
Ratio == {r \in [loss : Nat, denom : Nat] : r.denom = 0 => r.loss = 0}

\* The ratio keeps within bps/BpsScale.
Small(ratio, bps) == ratio.loss * BpsScale <= ratio.denom * bps

\* Products of natural numbers, for the comparisons by cross-multiplication.
LEMMA ProductOrder ==
    ASSUME NEW x \in Int, NEW y \in Int, NEW z \in Nat
    PROVE  /\ x <= y => x * z <= y * z
           /\ z > 0 /\ x * z <= y * z => x <= y
  <1>1. x <= y => x * z <= y * z
    <2> SUFFICES ASSUME x <= y PROVE x * z <= y * z
      OBVIOUS
    <2>1. y - x \in Nat /\ (y - x) * z \in Nat
      OBVIOUS
    <2>2. (y - x) * z = y * z - x * z
      OBVIOUS
    <2> QED
      BY <2>1, <2>2
  <1>2. z > 0 /\ x * z <= y * z => x <= y
    <2> SUFFICES ASSUME z > 0, y < x PROVE x * z > y * z
      OBVIOUS
    <2>1. x - y - 1 \in Nat /\ (x - y - 1) * z \in Nat
      OBVIOUS
    <2>2. (x - y - 1) * z = x * z - y * z - z
      OBVIOUS
    <2> QED
      BY <2>1, <2>2
  <1> QED
    BY <1>1, <1>2

\* Of two ratios, the larger one decides.
LEMMA CrossOrder ==
    ASSUME NEW a \in Nat, NEW b \in Nat, NEW c \in Nat, NEW d \in Nat, NEW s \in Nat, NEW k \in Nat,
           b > 0, c * b <= a * d, a * s <= b * k
    PROVE  c * s <= d * k
  <1>1. (c * b) * s <= (a * d) * s
    <2>1. c * b \in Int /\ a * d \in Int
      OBVIOUS
    <2> QED
      BY <2>1, ProductOrder
  <1>2. (a * s) * d <= (b * k) * d
    <2>1. a * s \in Int /\ b * k \in Int
      OBVIOUS
    <2> QED
      BY <2>1, ProductOrder
  <1>3. (c * b) * s = (c * s) * b /\ (a * d) * s = (a * s) * d /\ (b * k) * d = (d * k) * b
    OBVIOUS
  <1>4. (c * s) * b <= (d * k) * b
    <2>1. (c * s) * b \in Int /\ (d * k) * b \in Int /\ (a * s) * d \in Int
      OBVIOUS
    <2> QED
      BY <1>1, <1>2, <1>3, <2>1
  <1>5. c * s \in Int /\ d * k \in Int
    OBVIOUS
  <1> QED
    BY <1>4, <1>5, ProductOrder

\* The worse of two ratios is within a limit when both are.
LEMMA WorseMeaning ==
    ASSUME NEW best \in Ratio \cup {NoRatio}, NEW ratio \in Ratio, NEW bps \in Nat
    PROVE  /\ Worse(best, ratio) \in Ratio \cup {NoRatio}
           /\ Small(Worse(best, ratio), bps) <=> Small(best, bps) /\ Small(ratio, bps)
  <1>1. ratio.loss \in Nat /\ ratio.denom \in Nat /\ (ratio.denom = 0 => ratio.loss = 0)
    BY DEF Ratio
  <1>2. CASE best = NoRatio
    <2>1. NoRatio.loss = -1 /\ NoRatio.denom = 0
      BY DEF NoRatio
    <2>2. Small(NoRatio, bps)
      BY <2>1 DEF Small, BpsScale
    <2> QED
      BY <1>2, <2>2 DEF Worse
  <1>3. CASE best # NoRatio
    <2> DEFINE a == best.loss
               b == best.denom
               c == ratio.loss
               d == ratio.denom
               s == BpsScale
    <2>1. best \in Ratio /\ a \in Nat /\ b \in Nat /\ (b = 0 => a = 0)
      BY <1>3 DEF Ratio
    <2>2. c \in Nat /\ d \in Nat /\ (d = 0 => c = 0) /\ s \in Nat
      BY <1>1 DEF BpsScale
    <2>3. /\ Small(best, bps) <=> a * s <= b * bps
          /\ Small(ratio, bps) <=> c * s <= d * bps
      BY DEF Small
    <2>4. RatioGreater(ratio, best) <=> d # 0 /\ IF b = 0 THEN c > 0 ELSE c * b > a * d
      BY DEF RatioGreater
    <2> HIDE DEF a, b, c, d, s
    <2>5. ASSUME RatioGreater(ratio, best), Small(ratio, bps) PROVE Small(best, bps)
      <3>1. d > 0 /\ c * s <= d * bps
        BY <2>2, <2>3, <2>4, <2>5
      <3>2. CASE b = 0
        <4>1. a * s = 0 /\ b * bps = 0
          BY <2>1, <2>2, <3>2
        <4> QED
          BY <2>3, <4>1
      <3>3. CASE b # 0
        <4>1. a * d <= c * b
          <5>1. c * b > a * d /\ c * b \in Int /\ a * d \in Int
            BY <2>1, <2>2, <2>4, <2>5, <3>3
          <5> QED
            BY <5>1
        <4>2. a * s <= b * bps
          BY <2>1, <2>2, <3>1, <4>1, CrossOrder
        <4> QED
          BY <2>3, <4>2
      <3> QED
        BY <3>2, <3>3
    <2>6. ASSUME ~RatioGreater(ratio, best), Small(best, bps) PROVE Small(ratio, bps)
      <3>1. CASE c = 0
        <4>1. c * s = 0 /\ d * bps \in Nat
          BY <2>2, <3>1
        <4> QED
          BY <2>3, <4>1
      <3>2. CASE c # 0
        <4>1. d > 0 /\ b > 0 /\ ~(c * b > a * d)
          BY <2>1, <2>2, <2>4, <2>6, <3>2
        <4>2. c * b <= a * d
          <5>1. c * b \in Int /\ a * d \in Int
            BY <2>1, <2>2
          <5> QED
            BY <4>1, <5>1
        <4>3. c * s <= d * bps
          BY <2>1, <2>2, <2>3, <2>6, <4>1, <4>2, CrossOrder
        <4> QED
          BY <2>3, <4>3
      <3> QED
        BY <3>1, <3>2
    <2> QED
      BY <1>3, <2>1, <2>5, <2>6 DEF Worse
  <1> QED
    BY <1>2, <1>3

RatioOf(points, start, end) ==
    [loss |-> Loss(points, start, end), denom |-> points[start].before]

LEMMA RatioOfWindow ==
    ASSUME NEW points \in Seq(Values), NEW i \in 1 .. Len(points), NEW j \in 1 .. Len(points),
           NEW bps \in Nat
    PROVE  /\ RatioOf(points, i, j) \in Ratio
           /\ Small(RatioOf(points, i, j), bps)
                <=> (points[i].before - points[j].after) * BpsScale <= points[i].before * bps
  <1> DEFINE l == Loss(points, i, j)
             a == points[i].before
             z == points[j].after
  <1>1. a \in Nat /\ z \in Nat
    BY ValueFields
  <1>2. l = IF a >= z THEN a - z ELSE 0
    BY LossValue
  <1>3. RatioOf(points, i, j) = [loss |-> l, denom |-> a]
    BY DEF RatioOf
  <1> HIDE DEF l, a, z
  <1>4. l \in Nat /\ (a = 0 => l = 0)
    BY <1>1, <1>2
  <1>5. a * bps \in Nat
    BY <1>1
  <1>6. l * BpsScale <= a * bps <=> (a - z) * BpsScale <= a * bps
    <2> DEFINE c == a * bps
    <2> HIDE DEF c
    <2>1. c \in Nat
      BY <1>5 DEF c
    <2>2. l * BpsScale <= c <=> (a - z) * BpsScale <= c
      BY <1>1, <1>2, <2>1 DEF BpsScale
    <2> QED
      BY <2>2 DEF c
  <1>7. RatioOf(points, i, j) \in Ratio
    BY <1>1, <1>3, <1>4 DEF Ratio
  <1>8. Small(RatioOf(points, i, j), bps) <=> l * BpsScale <= a * bps
    BY <1>3 DEF Small
  <1> QED
    BY <1>6, <1>7, <1>8 DEF a, z

\* The inner loop: what it keeps is within a limit when what it started with and
\* every window it looked at are.
LEMMA WorstUpToMeaning ==
    ASSUME NEW points \in Seq(Values), NEW window, NEW last, NEW bps \in Nat,
           NEW end \in 1 .. Len(points), NEW best \in Ratio \cup {NoRatio}
    PROVE  /\ WorstUpTo(points, window, last, best, end) \in Ratio \cup {NoRatio}
           /\ Small(WorstUpTo(points, window, last, best, end), bps)
                <=> /\ Small(best, bps)
                    /\ \A start \in 1 .. end : Within(points, window, last, start, end)
                          => Small(RatioOf(points, start, end), bps)
  <1> DEFINE R == Ratio \cup {NoRatio}
             turn(b, start) == Look(points, window, last, b, start, end)
             step == [p \in (1 .. end) \X R |-> turn(p[2], p[1])]
             Loop(f) == f = [start \in 0 .. end |->
                               IF start = 0 THEN best ELSE turn(f[start - 1], start)]
             f == CHOOSE f : Loop(f)
             seen(m) == /\ Small(best, bps)
                        /\ \A start \in 1 .. m : Within(points, window, last, start, end)
                              => Small(RatioOf(points, start, end), bps)
             T == {m \in 0 .. end : f[m] \in R /\ (Small(f[m], bps) <=> seen(m))}
  <1>1. end \in Nat /\ 1 .. end \subseteq 1 .. Len(points)
    OBVIOUS
  <1>2. \A k \in 1 .. end, b \in R :
           /\ turn(b, k) \in R
           /\ Small(turn(b, k), bps)
                <=> Small(b, bps) /\ (Within(points, window, last, k, end)
                                         => Small(RatioOf(points, k, end), bps))
    <2> SUFFICES ASSUME NEW k \in 1 .. end, NEW b \in R
                 PROVE  /\ turn(b, k) \in R
                        /\ Small(turn(b, k), bps)
                             <=> Small(b, bps) /\ (Within(points, window, last, k, end)
                                                      => Small(RatioOf(points, k, end), bps))
      OBVIOUS
    <2>1. RatioOf(points, k, end) \in Ratio
      BY <1>1, RatioOfWindow
    <2>2. turn(b, k) = IF Within(points, window, last, k, end)
                       THEN Worse(b, RatioOf(points, k, end)) ELSE b
      BY DEF Look, RatioOf
    <2> QED
      BY <2>1, <2>2, WorseMeaning
  <1> HIDE DEF turn, R
  <1>3. \E g : Loop(g)
    <2>1. best \in R /\ \A k \in 1 .. end, b \in R : step[<<k, b>>] = turn(b, k)
      BY DEF R
    <2>0. step \in [(1 .. end) \X R -> R]
      BY <1>2
    <2> HIDE DEF step
    <2>2. end \in Nat /\ best \in R
      BY <1>1, <2>1
    <2>3. PICK g : g \in [0 .. end -> R] /\ Iterates(g, end, best, step)
      BY <2>0, <2>2, LoopRuns
    <2>4. g[0] = best /\ \A k \in 1 .. end : g[k] = turn(g[k - 1], k)
      <3>1. \A k \in 1 .. end : k - 1 \in 0 .. end /\ g[k - 1] \in R
        BY <2>2, <2>3
      <3> QED
        BY <2>1, <2>3, <3>1 DEF Iterates
    <2>5. \A k \in 0 .. end : g[k] = IF k = 0 THEN best ELSE turn(g[k - 1], k)
      <3>1. \A k \in 0 .. end : k # 0 => k \in 1 .. end
        BY <1>1
      <3> QED
        BY <2>4, <3>1
    <2>6. Loop(g)
      BY <2>3, <2>5
    <2> QED
      BY <2>6
  <1>4. Loop(f)
    BY <1>3
  <1>5. WorstUpTo(points, window, last, best, end) = f[end]
    BY DEF WorstUpTo, turn
  <1> HIDE DEF f
  <1>6. f[0] = best /\ \A k \in 1 .. end : f[k] = turn(f[k - 1], k)
    BY <1>1, <1>4
  <1> HIDE DEF Loop
  <1>7. 0 \in T
    BY <1>1, <1>6 DEF R
  <1>8. ASSUME NEW k \in 1 .. end, k - 1 \in T PROVE k \in T
    <2>1. f[k - 1] \in R /\ (Small(f[k - 1], bps) <=> seen(k - 1))
      BY <1>8
    <2>2. f[k] \in R /\ (Small(f[k], bps) <=>
              Small(f[k - 1], bps) /\ (Within(points, window, last, k, end)
                                          => Small(RatioOf(points, k, end), bps)))
      BY <1>2, <1>6, <2>1
    <2>3. 1 .. k = (1 .. k - 1) \cup {k}
      OBVIOUS
    <2>4. seen(k) <=> seen(k - 1) /\ (Within(points, window, last, k, end)
                                          => Small(RatioOf(points, k, end), bps))
      BY <2>3
    <2>5. k \in 0 .. end
      OBVIOUS
    <2> HIDE DEF seen
    <2> QED
      BY <2>1, <2>2, <2>4, <2>5
  <1>9. end \in T
    <2> HIDE DEF T
    <2> QED
      BY <1>1, <1>7, <1>8, Induction
  <1> QED
    BY <1>5, <1>9 DEF R

\* The two nested loops over a series keep a ratio that is within a limit exactly
\* when the ratio of every window is: the first window is always taken, and no
\* later one is missed (evaluate_invariants.py:236-279).
THEOREM WorstRatioMeaning ==
    ASSUME NEW points \in Seq(Values), NEW window, NEW last, NEW bps \in Nat
    PROVE  Small(WorstRatio(points, window, last), bps)
             <=> \A end \in 1 .. Len(points) : \A start \in 1 .. end :
                    Within(points, window, last, start, end)
                       => Small(RatioOf(points, start, end), bps)
  <1> DEFINE n == Len(points)
             R == Ratio \cup {NoRatio}
             turn(b, end) == WorstUpTo(points, window, last, b, end)
             step == [p \in (1 .. n) \X R |-> turn(p[2], p[1])]
             Loop(f) == f = [end \in 0 .. n |->
                               IF end = 0 THEN NoRatio ELSE turn(f[end - 1], end)]
             f == CHOOSE f : Loop(f)
             row(end) == \A start \in 1 .. end : Within(points, window, last, start, end)
                            => Small(RatioOf(points, start, end), bps)
             T == {m \in 0 .. n : f[m] \in R /\ (Small(f[m], bps) <=> \A end \in 1 .. m : row(end))}
  <1>1. n \in Nat
    OBVIOUS
  <1>2. \A k \in 1 .. n, b \in R :
           turn(b, k) \in R /\ (Small(turn(b, k), bps) <=> Small(b, bps) /\ row(k))
    <2> SUFFICES ASSUME NEW k \in 1 .. Len(points), NEW b \in Ratio \cup {NoRatio}
                 PROVE  turn(b, k) \in R /\ (Small(turn(b, k), bps) <=> Small(b, bps) /\ row(k))
      OBVIOUS
    <2> HIDE DEF f, T, step, n
    <2>1. /\ WorstUpTo(points, window, last, b, k) \in Ratio \cup {NoRatio}
          /\ Small(WorstUpTo(points, window, last, b, k), bps)
               <=> /\ Small(b, bps)
                   /\ \A start \in 1 .. k : Within(points, window, last, start, k)
                         => Small(RatioOf(points, start, k), bps)
      BY WorstUpToMeaning
    <2> QED
      BY <2>1
  <1>0. WorstRatio(points, window, last) = f[n]
    BY DEF WorstRatio
  <1> HIDE DEF turn, R, row, n
  <1>3. \E g : Loop(g)
    <2>1. NoRatio \in R /\ \A k \in 1 .. n, b \in R : step[<<k, b>>] = turn(b, k)
      BY DEF R
    <2>0. step \in [(1 .. n) \X R -> R]
      BY <1>2
    <2> HIDE DEF step
    <2>2. n \in Nat /\ NoRatio \in R
      BY <1>1, <2>1
    <2>3. PICK g : g \in [0 .. n -> R] /\ Iterates(g, n, NoRatio, step)
      BY <2>0, <2>2, LoopRuns
    <2>4. g[0] = NoRatio /\ \A k \in 1 .. n : g[k] = turn(g[k - 1], k)
      <3>1. \A k \in 1 .. n : k - 1 \in 0 .. n /\ g[k - 1] \in R
        BY <2>2, <2>3
      <3> QED
        BY <2>1, <2>3, <3>1 DEF Iterates
    <2>5. \A k \in 0 .. n : g[k] = IF k = 0 THEN NoRatio ELSE turn(g[k - 1], k)
      <3>1. \A k \in 0 .. n : k # 0 => k \in 1 .. n
        BY <1>1
      <3> QED
        BY <2>4, <3>1
    <2>6. Loop(g)
      BY <2>3, <2>5
    <2> QED
      BY <2>6
  <1>4. Loop(f)
    BY <1>3
  <1> HIDE DEF f
  <1>6. f[0] = NoRatio /\ \A k \in 1 .. n : f[k] = turn(f[k - 1], k)
    BY <1>1, <1>4
  <1> HIDE DEF Loop
  <1>7. 0 \in T
    <2>1. Small(NoRatio, bps)
      BY DEF Small, NoRatio, BpsScale
    <2>2. \A end \in 1 .. 0 : row(end)
      OBVIOUS
    <2> QED
      BY <1>1, <1>6, <2>1, <2>2 DEF R
  <1>8. ASSUME NEW k \in 1 .. n, k - 1 \in T PROVE k \in T
    <2>1. f[k - 1] \in R /\ (Small(f[k - 1], bps) <=> \A end \in 1 .. k - 1 : row(end))
      BY <1>8
    <2>2. f[k] \in R /\ (Small(f[k], bps) <=> Small(f[k - 1], bps) /\ row(k))
      BY <1>2, <1>6, <2>1
    <2>3. 1 .. k = (1 .. k - 1) \cup {k} /\ k \in 0 .. n
      BY <1>1
    <2> QED
      BY <2>1, <2>2, <2>3
  <1>9. n \in T
    <2> HIDE DEF T
    <2>1. 0 .. n \subseteq T
      BY <1>1, <1>7, <1>8, Induction
    <2> QED
      BY <1>1, <2>1
  <1>10. Small(f[n], bps) <=> \A end \in 1 .. n : row(end)
    BY <1>9
  <1> QED
    BY <1>0, <1>10 DEF row, n

LEMMA LossBpsMeaning ==
    ASSUME NEW points \in Seq(Values), NEW last \in BOOLEAN,
           NEW inv \in [kind : {"lossBps"}, window : Nat, bps : 0 .. BpsScale]
    PROVE  LossBpsHolds(inv, points, last)
             <=> \A w \in Windows(points, inv.window, last) :
                    (points[w[1]].before - points[w[2]].after) * BpsScale
                        <= points[w[1]].before * inv.bps
  <1> DEFINE n == Len(points)
             k == inv.bps
             low(i, j) == (points[i].before - points[j].after) * BpsScale
                             <= points[i].before * k
  <1>1. k \in Nat /\ n \in Nat
    <2>1. k \in 0 .. BpsScale /\ 0 .. BpsScale \subseteq Nat
      BY DEF BpsScale
    <2> QED
      BY <2>1
  <1>2. LossBpsHolds(inv, points, last) <=> Small(WorstRatio(points, inv.window, last), k)
    BY DEF LossBpsHolds, Small
  <1>3. \A i, j \in 1 .. n : Small(RatioOf(points, i, j), k) <=> low(i, j)
    BY <1>1, RatioOfWindow
  <1>4. Small(WorstRatio(points, inv.window, last), k)
          <=> \A end \in 1 .. n : \A start \in 1 .. end :
                    Within(points, inv.window, last, start, end)
                       => Small(RatioOf(points, start, end), k)
    BY <1>1, WorstRatioMeaning
  <1>5. \A end \in 1 .. n : \A start \in 1 .. end : start \in 1 .. n
    BY <1>1
  <1> HIDE DEF low, k, n
  <1>6. Windows(points, inv.window, last) =
           {w \in (1 .. n) \X (1 .. n) :
              w[1] <= w[2] /\ Within(points, inv.window, last, w[1], w[2])}
    BY DEF Windows, n
  <1>7. (\A end \in 1 .. n : \A start \in 1 .. end :
            Within(points, inv.window, last, start, end) => low(start, end))
          <=> \A w \in Windows(points, inv.window, last) : low(w[1], w[2])
    <2>1. ASSUME \A end \in 1 .. n : \A start \in 1 .. end :
                    Within(points, inv.window, last, start, end) => low(start, end),
                 NEW w \in Windows(points, inv.window, last)
          PROVE  low(w[1], w[2])
      <3>1. /\ w[1] \in 1 .. n /\ w[2] \in 1 .. n /\ w[1] <= w[2]
            /\ Within(points, inv.window, last, w[1], w[2])
        BY <1>6
      <3>2. w[1] \in 1 .. w[2]
        BY <1>1, <3>1
      <3> QED
        BY <2>1, <3>1, <3>2
    <2>2. ASSUME \A w \in Windows(points, inv.window, last) : low(w[1], w[2]),
                 NEW end \in 1 .. n, NEW start \in 1 .. end,
                 Within(points, inv.window, last, start, end)
          PROVE  low(start, end)
      <3>1. <<start, end>> \in Windows(points, inv.window, last)
        BY <1>1, <1>5, <1>6, <2>2
      <3> QED
        BY <2>2, <3>1
    <2> QED
      BY <2>1, <2>2
  <1> QED
    BY <1>2, <1>3, <1>4, <1>5, <1>7 DEF low, k

\* The fields of a limit, by its kind.
LEMMA LimitKinds ==
    ASSUME NEW inv \in Limit
    PROVE  \/ inv \in [kind : {"floor"}, floor : Nat] /\ inv.kind = "floor"
           \/ inv \in [kind : {"drawdown"}, reference : Nat, bps : 0 .. BpsScale]
              /\ inv.kind = "drawdown"
           \/ inv \in [kind : {"lossCap"}, window : Nat, cap : Nat] /\ inv.kind = "lossCap"
           \/ inv \in [kind : {"lossBps"}, window : Nat, bps : 0 .. BpsScale]
              /\ inv.kind = "lossBps"
  BY DEF Limit

\* With the last point judged, the windows are those that end there.
LEMMA LastWindows ==
    ASSUME NEW points \in Seq(Values), points # <<>>, NEW window \in Nat
    PROVE  /\ \A i \in 1 .. Len(points) :
                 LastPoint(points).t - points[i].t <= window
                    => <<i, Len(points)>> \in Windows(points, window, TRUE)
           /\ \A w \in Windows(points, window, TRUE) :
                 /\ w[1] \in 1 .. Len(points) /\ w[2] = Len(points)
                 /\ LastPoint(points).t - points[w[1]].t <= window
  <1>1. Len(points) \in 1 .. Len(points) /\ Len(points) \in Nat
    OBVIOUS
  <1> QED
    BY <1>1 DEF Windows, Within, LastPoint

\* The online verdict of each kind of limit is the limit said with quantifiers:
\* folds over windows, cross-multiplied ratios and the running worst ratio of the
\* loops decide it, for any series and any limit (evaluate_invariants.py:134-279).
THEOREM LastPointMeaning ==
    ASSUME NEW points \in Seq(Values), points # <<>>, NEW inv \in Limit
    PROVE  Holds(inv, points, TRUE) <=> Respected(inv, points)
  <1>1. CASE inv \in [kind : {"floor"}, floor : Nat] /\ inv.kind = "floor"
    BY <1>1, FloorMeaning DEF Holds, Respected
  <1>2. CASE inv \in [kind : {"drawdown"}, reference : Nat, bps : 0 .. BpsScale]
              /\ inv.kind = "drawdown"
    BY <1>2, DrawdownMeaning DEF Holds, Respected
  <1>3. CASE inv \in [kind : {"lossCap"}, window : Nat, cap : Nat] /\ inv.kind = "lossCap"
    <2> DEFINE P(i, j) == points[i].before - points[j].after <= inv.cap
    <2>1. inv.window \in Nat
      BY <1>3
    <2>2. Holds(inv, points, TRUE) <=> \A w \in Windows(points, inv.window, TRUE) : P(w[1], w[2])
      BY <1>3, LossCapMeaning DEF Holds
    <2>3. Respected(inv, points)
             <=> \A i \in 1 .. Len(points) :
                    LastPoint(points).t - points[i].t <= inv.window => P(i, Len(points))
      BY <1>3 DEF Respected, LastPoint
    <2> DEFINE n == Len(points)
               W == Windows(points, inv.window, TRUE)
    <2>4. /\ \A i \in 1 .. n : LastPoint(points).t - points[i].t <= inv.window => <<i, n>> \in W
          /\ \A w \in W : /\ w[1] \in 1 .. n /\ w[2] = n
                          /\ LastPoint(points).t - points[w[1]].t <= inv.window
      BY <2>1, LastWindows
    <2>5. \A i \in 1 .. n : <<i, n>>[1] = i /\ <<i, n>>[2] = n
      OBVIOUS
    <2> HIDE DEF P, W, n
    <2>6. (\A w \in W : P(w[1], w[2]))
            <=> \A i \in 1 .. n : LastPoint(points).t - points[i].t <= inv.window => P(i, n)
      BY <2>4, <2>5, Zenon
    <2> QED
      BY <2>2, <2>3, <2>6 DEF W, n
  <1>4. CASE inv \in [kind : {"lossBps"}, window : Nat, bps : 0 .. BpsScale]
              /\ inv.kind = "lossBps"
    <2> DEFINE P(i, j) == (points[i].before - points[j].after) * BpsScale
                             <= points[i].before * inv.bps
    <2>1. inv.window \in Nat
      BY <1>4
    <2>2. Holds(inv, points, TRUE) <=> \A w \in Windows(points, inv.window, TRUE) : P(w[1], w[2])
      BY <1>4, LossBpsMeaning DEF Holds
    <2>3. Respected(inv, points)
             <=> \A i \in 1 .. Len(points) :
                    LastPoint(points).t - points[i].t <= inv.window => P(i, Len(points))
      BY <1>4 DEF Respected, LastPoint
    <2> DEFINE n == Len(points)
               W == Windows(points, inv.window, TRUE)
    <2>4. /\ \A i \in 1 .. n : LastPoint(points).t - points[i].t <= inv.window => <<i, n>> \in W
          /\ \A w \in W : /\ w[1] \in 1 .. n /\ w[2] = n
                          /\ LastPoint(points).t - points[w[1]].t <= inv.window
      BY <2>1, LastWindows
    <2>5. \A i \in 1 .. n : <<i, n>>[1] = i /\ <<i, n>>[2] = n
      OBVIOUS
    <2> HIDE DEF P, W, n
    <2>6. (\A w \in W : P(w[1], w[2]))
            <=> \A i \in 1 .. n : LastPoint(points).t - points[i].t <= inv.window => P(i, n)
      BY <2>4, <2>5, Zenon
    <2> QED
      BY <2>2, <2>3, <2>6 DEF W, n
  <1> QED
    BY <1>1, <1>2, <1>3, <1>4, LimitKinds

-----------------------------------------------------------------------------
(* A candidate cut out of a series.                                        *)

\* The verdict on the last point of a series.
LEMMA JudgedPoints ==
    ASSUME NEW points \in Seq(Values), points # <<>>, NEW invariants \in Seq(Limit),
           EvaluatePoints(invariants, points, TRUE) # "invalid"
    PROVE  EvaluatePoints(invariants, points, TRUE) = "accepted"
             <=> Respects(invariants, points)
  <1>1. \A k \in DOMAIN invariants :
           Holds(invariants[k], points, TRUE) <=> Respected(invariants[k], points)
    <2>1. \A k \in DOMAIN invariants : invariants[k] \in Limit
      OBVIOUS
    <2> QED
      BY <2>1, LastPointMeaning
  <1> QED
    BY <1>1 DEF EvaluatePoints, Respects

\* What is cut off and what remains.
CutFrom(points, coverage, m, trace) ==
    /\ m \in 1 .. Len(points) /\ points[m].t >= coverage
    /\ \A i \in 1 .. Len(points) : points[i].t >= coverage => m <= i
    /\ trace.coverage = coverage /\ trace.initial = points[m].before
    /\ trace.transitions \in Seq(Values)
    /\ Len(trace.transitions) = Len(points) - m + 1
    /\ \A j \in 1 .. Len(points) - m + 1 : trace.transitions[j] = points[m + j - 1]

\* The first point at or after the coverage start is where the series is cut.
LEMMA CutShape ==
    ASSUME NEW points \in Seq(Values), points # <<>>, NEW fork, NEW coverage \in Nat,
           coverage <= LastPoint(points).t
    PROVE  \E m \in 1 .. Len(points) : CutFrom(points, coverage, m, CutAt(fork, points, coverage))
  <1> DEFINE n == Len(points)
             D == {i \in 1 .. n : points[i].t >= coverage}
             m == Min(D)
             rest == SubSeq(points, m, n)
             trace == CutAt(fork, points, coverage)
  <1>1. n \in Nat \ {0} /\ n \in 1 .. n /\ \A i \in 1 .. n : points[i] \in Values
    OBVIOUS
  <1>2. IsFiniteSet(D) /\ D \in SUBSET Int /\ D # {}
    <2>1. IsFiniteSet(1 .. n) /\ D \in SUBSET (1 .. n)
      BY <1>1, FS_Interval
    <2>2. n \in D
      BY <1>1 DEF LastPoint
    <2>3. D \in SUBSET Int
      OBVIOUS
    <2> HIDE DEF D
    <2> QED
      BY <2>1, <2>2, <2>3, FS_Subset
  <1>3. m \in D /\ \A i \in D : m <= i
    <2> HIDE DEF D
    <2> QED
      BY <1>2, FiniteHasBounds
  <1>4. /\ m \in 1 .. n /\ points[m].t >= coverage
        /\ \A i \in 1 .. n : points[i].t >= coverage => m <= i
    BY <1>3
  <1>5. trace = [fork |-> fork, coverage |-> coverage,
                 initial |-> rest[1].before, transitions |-> rest]
    BY DEF CutAt
  <1> HIDE DEF m, D, trace
  <1>6. /\ rest \in Seq(Values) /\ Len(rest) = n - m + 1
        /\ \A j \in 1 .. n - m + 1 : rest[j] = points[m + j - 1]
    BY <1>1, <1>4
  <1>7. rest[1] = points[m]
    <2>1. 1 \in 1 .. n - m + 1 /\ m + 1 - 1 = m
      BY <1>1, <1>4
    <2> QED
      BY <1>6, <2>1
  <1> HIDE DEF rest
  <1>8. CutFrom(points, coverage, m, trace)
    BY <1>4, <1>5, <1>6, <1>7 DEF CutFrom
  <1> QED
    BY <1>4, <1>8 DEF trace

\* The points a cut series is judged on: the rest, after a point for a
\* coverage that starts before it.
Shifted(points, coverage, m, o, cp) ==
    /\ cp \in Seq(Values) /\ Len(cp) = o + Len(points) - m + 1
    /\ \A j \in 1 .. Len(points) - m + 1 : cp[o + j] = points[m + j - 1]
    /\ o = 1 => /\ coverage < points[m].t
                /\ cp[1] = [t |-> coverage, before |-> points[m].before,
                            after |-> points[m].before]
    /\ o = 0 => coverage = points[m].t

LEMMA PrefixedSequence ==
    ASSUME NEW S, NEW one \in Seq(S), Len(one) = 1, NEW s \in Seq(S)
    PROVE  /\ one \o s \in Seq(S) /\ Len(one \o s) = 1 + Len(s)
           /\ (one \o s)[1] = one[1] /\ \A j \in 1 .. Len(s) : (one \o s)[1 + j] = s[j]
  <1>1. Len(s) \in Nat
    OBVIOUS
  <1>2. /\ one \o s \in Seq(S) /\ Len(one \o s) = Len(one) + Len(s)
        /\ \A i \in 1 .. Len(one) + Len(s) :
              (one \o s)[i] = IF i <= Len(one) THEN one[i] ELSE s[i - Len(one)]
    BY ConcatProperties
  <1>3. /\ 1 \in 1 .. 1 + Len(s)
        /\ \A j \in 1 .. Len(s) : 1 + j \in 1 .. 1 + Len(s) /\ ~(1 + j <= 1) /\ (1 + j) - 1 = j
    BY <1>1
  <1> DEFINE q == one \o s
  <1>4. /\ q \in Seq(S) /\ Len(q) = 1 + Len(s)
        /\ \A i \in 1 .. 1 + Len(s) : q[i] = IF i <= 1 THEN one[i] ELSE s[i - 1]
    BY <1>2
  <1> HIDE DEF q
  <1>5. q[1] = one[1] /\ \A j \in 1 .. Len(s) : q[1 + j] = s[j]
    BY <1>3, <1>4
  <1> QED
    BY <1>4, <1>5 DEF q

\* The points of a cut candidate are shifted by the one point of its coverage, if
\* it has one.
LEMMA CandidateShape ==
    ASSUME NEW points \in Seq(Values), NEW coverage \in Nat, NEW m, NEW trace,
           CutFrom(points, coverage, m, trace)
    PROVE  \E o \in {0, 1} : Shifted(points, coverage, m, o, CandidatePoints(trace))
  <1> DEFINE n == Len(points)
             rest == trace.transitions
             start == [t |-> coverage, before |-> points[m].before, after |-> points[m].before]
             cp == CandidatePoints(trace)
  <1>1. n \in Nat /\ m \in 1 .. n /\ points[m] \in Values /\ points[m].t >= coverage
    BY DEF CutFrom
  <1>2. start \in Values /\ points[m].t \in Nat
    BY <1>1 DEF Values
  <1>3. /\ rest \in Seq(Values) /\ Len(rest) = n - m + 1
        /\ \A j \in 1 .. n - m + 1 : rest[j] = points[m + j - 1]
        /\ trace.coverage = coverage /\ trace.initial = points[m].before
    BY DEF CutFrom
  <1>4. trace.transitions[1] = points[m]
    <2>1. 1 \in 1 .. n - m + 1 /\ m + 1 - 1 = m
      BY <1>1
    <2> QED
      BY <1>3, <2>1
  <1>5. cp = (IF coverage < points[m].t THEN <<start>> ELSE <<>>) \o rest
    BY <1>3, <1>4 DEF CandidatePoints
  <1> HIDE DEF start, rest, cp
  <1>6. CASE coverage < points[m].t
    <2> DEFINE one == <<start>>
    <2>2. one \in Seq(Values) /\ Len(one) = 1 /\ one[1] = start
      <3>1. \A v \in Values : <<v>> \in Seq(Values) /\ Len(<<v>>) = 1 /\ <<v>>[1] = v
        OBVIOUS
      <3> QED
        BY <1>2, <3>1
    <2>1. cp = one \o rest
      BY <1>5, <1>6
    <2> HIDE DEF one
    <2>3. /\ cp \in Seq(Values) /\ Len(cp) = 1 + n - m + 1
          /\ cp[1] = start /\ \A j \in 1 .. n - m + 1 : cp[1 + j] = rest[j]
      <3>1. /\ cp \in Seq(Values) /\ Len(cp) = 1 + Len(rest) /\ cp[1] = one[1]
            /\ \A j \in 1 .. Len(rest) : cp[1 + j] = rest[j]
        BY <1>3, <2>1, <2>2, PrefixedSequence, SMTT(60)
      <3> QED
        BY <1>1, <1>3, <2>2, <3>1
    <2>5. Shifted(points, coverage, m, 1, cp)
      BY <1>3, <1>6, <2>3 DEF Shifted, start
    <2> QED
      BY <2>5 DEF cp
  <1>7. CASE ~(coverage < points[m].t)
    <2>1. cp = rest /\ coverage = points[m].t
      BY <1>1, <1>2, <1>3, <1>5, <1>7
    <2>2. Len(rest) = 0 + n - m + 1
      BY <1>1, <1>3
    <2>3. \A j \in 1 .. n - m + 1 : rest[0 + j] = rest[j]
      BY <1>1
    <2>4. Shifted(points, coverage, m, 0, cp)
      BY <1>3, <2>1, <2>2, <2>3 DEF Shifted
    <2> QED
      BY <2>4 DEF cp
  <1> QED
    BY <1>6, <1>7

\* The point under judgement is not cut off.
LEMMA LastSurvives ==
    ASSUME NEW points \in Seq(Values), points # <<>>, NEW coverage, NEW m, NEW o \in {0, 1},
           NEW trace, NEW cp,
           CutFrom(points, coverage, m, trace), Shifted(points, coverage, m, o, cp)
    PROVE  LastPoint(cp) = LastPoint(points) /\ cp # <<>>
  <1> DEFINE n == Len(points)
  <1>1. n \in Nat \ {0} /\ m \in 1 .. n
    BY DEF CutFrom
  <1>2. /\ cp \in Seq(Values) /\ Len(cp) = o + n - m + 1
        /\ \A j \in 1 .. n - m + 1 : cp[o + j] = points[m + j - 1]
    BY DEF Shifted
  <1>3. n - m + 1 \in 1 .. n - m + 1 /\ o + (n - m + 1) = Len(cp) /\ m + (n - m + 1) - 1 = n
    BY <1>1, <1>2
  <1>4. cp[o + (n - m + 1)] = points[m + (n - m + 1) - 1]
    BY <1>2, <1>3
  <1>5. cp[Len(cp)] = points[n]
    BY <1>3, <1>4
  <1>6. Len(cp) # 0
    BY <1>1, <1>2
  <1> QED
    BY <1>2, <1>5, <1>6 DEF LastPoint

\* Two series look the same over the window that ends with a point.
SameRecent(p, q, end, window) ==
    \A i \in 1 .. Len(p) : end.t - p[i].t <= window
        => \E j \in 1 .. Len(q) : end.t - q[j].t <= window /\ q[j].before = p[i].before

\* Where the coverage reaches over the window, what is cut off is not recent
\* and what is added says nothing new.
LEMMA RecentSurvives ==
    ASSUME NEW points \in Seq(Values), points # <<>>, NEW coverage \in Nat, NEW m, NEW o \in {0, 1},
           NEW trace, NEW cp, NEW window \in Nat,
           CutFrom(points, coverage, m, trace), Shifted(points, coverage, m, o, cp),
           coverage <= LastPoint(points).t - window
    PROVE  /\ SameRecent(points, cp, LastPoint(points), window)
           /\ SameRecent(cp, points, LastPoint(points), window)
  <1> DEFINE n == Len(points)
             e == LastPoint(points)
  <1>1. /\ n \in Nat \ {0} /\ m \in 1 .. n /\ \A i \in 1 .. n : points[i].t \in Nat
        /\ e = points[n] /\ e.t \in Nat
    <2>1. n \in Nat \ {0} /\ n \in 1 .. n
      OBVIOUS
    <2> QED
      BY <2>1, ValueFields DEF CutFrom, LastPoint
  <1>2. /\ \A i \in 1 .. n : points[i].t >= coverage => m <= i
        /\ points[m].t >= coverage
    BY DEF CutFrom
  <1>3. /\ cp \in Seq(Values) /\ Len(cp) = o + n - m + 1
        /\ \A j \in 1 .. n - m + 1 : cp[o + j] = points[m + j - 1]
        /\ o = 1 => cp[1].t = coverage /\ cp[1].before = points[m].before
    BY DEF Shifted
  <1>5. ASSUME NEW i \in 1 .. n, e.t - points[i].t <= window
        PROVE  \E j \in 1 .. Len(cp) : e.t - cp[j].t <= window /\ cp[j].before = points[i].before
    <2>1. points[i].t >= coverage
      BY <1>1, <1>5
    <2>2. m <= i
      BY <1>2, <2>1
    <2>3. /\ i - m + 1 \in 1 .. n - m + 1 /\ m + (i - m + 1) - 1 = i
          /\ o + (i - m + 1) \in 1 .. Len(cp)
      BY <1>1, <1>3, <2>2
    <2>4. cp[o + (i - m + 1)] = points[m + (i - m + 1) - 1]
      BY <1>3, <2>3
    <2>5. cp[o + (i - m + 1)] = points[i]
      BY <2>3, <2>4
    <2> QED
      BY <1>5, <2>3, <2>5
  <1>6. ASSUME NEW j \in 1 .. Len(cp), e.t - cp[j].t <= window
        PROVE  \E i \in 1 .. n : e.t - points[i].t <= window /\ cp[j].before = points[i].before
    <2>1. CASE j - o \in 1 .. n - m + 1
      <3>1. cp[o + (j - o)] = points[m + (j - o) - 1] /\ o + (j - o) = j
        BY <1>3, <2>1
      <3>2. m + (j - o) - 1 \in 1 .. n
        BY <1>1, <2>1
      <3>3. cp[j] = points[m + (j - o) - 1]
        BY <3>1
      <3> QED
        BY <1>6, <3>2, <3>3
    <2>2. CASE j - o \notin 1 .. n - m + 1
      <3>1. o = 1 /\ j = 1
        BY <1>1, <1>3, <2>2
      <3>2. e.t - coverage <= window
        BY <1>3, <1>6, <3>1
      <3>3. e.t - points[m].t <= window
        BY <1>1, <1>2, <3>2
      <3> QED
        BY <1>1, <1>3, <3>1, <3>3
    <2> QED
      BY <2>1, <2>2
  <1> QED
    BY <1>5, <1>6 DEF SameRecent

\* A candidate that gets a verdict gets the one of the whole series, wherever
\* its history is cut off (evaluate_candidate.py:34-80).
THEOREM CutMeaning ==
    ASSUME NEW points \in Seq(Values), points # <<>>, NEW coverage \in Nat,
           coverage <= LastPoint(points).t, NEW fork, NEW policy, policy.invariants \in Seq(Limit),
           EvaluateCandidate(policy, CutAt(fork, points, coverage)) # "invalid"
    PROVE  EvaluateCandidate(policy, CutAt(fork, points, coverage)) = "accepted"
             <=> Respects(policy.invariants, points)
  <1> DEFINE trace == CutAt(fork, points, coverage)
             invs == policy.invariants
             cp == CandidatePoints(trace)
             n == Len(points)
  <1>1. PICK m \in 1 .. n : CutFrom(points, coverage, m, trace)
    BY CutShape
  <1>2. PICK o \in {0, 1} : Shifted(points, coverage, m, o, cp)
    <2> HIDE DEF trace
    <2> QED
      BY <1>1, CandidateShape
  <1>3. /\ EvaluateCandidate(policy, trace) = EvaluatePoints(invs, cp, TRUE)
        /\ Covers(invs, trace)
    BY DEF EvaluateCandidate
  <1>4. /\ LastPoint(trace.transitions) = LastPoint(points)
        /\ LastPoint(points).t \in Nat
    <2>1. n \in Nat \ {0} /\ n \in 1 .. n
      OBVIOUS
    <2>2. LastPoint(points) = points[n] /\ points[n].t \in Nat
      BY <2>1, ValueFields DEF LastPoint
    <2> HIDE DEF trace
    <2>3. /\ Len(trace.transitions) = n - m + 1
          /\ trace.transitions[n - m + 1] = points[m + (n - m + 1) - 1]
      <3>1. n - m + 1 \in 1 .. n - m + 1
        BY <1>1, <2>1
      <3> QED
        BY <1>1, <3>1 DEF CutFrom
    <2>4. m + (n - m + 1) - 1 = n
      BY <1>1, <2>1
    <2> QED
      BY <2>2, <2>3, <2>4 DEF LastPoint
  <1>5. invs \in Seq(Limit) /\ \A k \in DOMAIN invs : invs[k] \in Limit
    OBVIOUS
  <1>6. cp \in Seq(Values) /\ cp # <<>> /\ LastPoint(cp) = LastPoint(points)
    <2> HIDE DEF trace, cp
    <2>2. LastPoint(cp) = LastPoint(points) /\ cp # <<>>
      BY <1>1, <1>2, LastSurvives
    <2> QED
      BY <1>2, <2>2 DEF Shifted
  <1>7. \A k \in DOMAIN invs : Windowed(invs[k]) => coverage <= LastPoint(points).t - invs[k].window
    <2> HIDE DEF trace, cp
    <2> QED
      BY <1>1, <1>3, <1>4 DEF Covers, CutFrom
  <1> HIDE DEF trace, cp, n
  <1>8. ASSUME NEW inv \in Limit,
               Windowed(inv) => coverage <= LastPoint(points).t - inv.window
        PROVE  Respected(inv, cp) <=> Respected(inv, points)
    <2>1. inv \in Limit /\ (Windowed(inv) => coverage <= LastPoint(points).t - inv.window)
      BY <1>8
    <2>3. CASE inv.kind = "floor" \/ inv.kind = "drawdown"
      BY <1>6, <2>3 DEF Respected
    <2>4. CASE inv.kind \in {"lossCap", "lossBps"} /\ inv.window \in Nat
      <3> DEFINE e == LastPoint(points)
                 kept(b) == IF inv.kind = "lossCap" THEN b - e.after <= inv.cap
                            ELSE (b - e.after) * BpsScale <= b * inv.bps
      <3>1. coverage <= e.t - inv.window
        BY <2>1, <2>4 DEF Windowed
      <3>2. SameRecent(points, cp, e, inv.window) /\ SameRecent(cp, points, e, inv.window)
        BY <1>1, <1>2, <2>4, <3>1, RecentSurvives
      <3>3. /\ Respected(inv, points) <=> \A i \in 1 .. Len(points) :
                  e.t - points[i].t <= inv.window => kept(points[i].before)
            /\ Respected(inv, cp) <=> \A i \in 1 .. Len(cp) :
                  e.t - cp[i].t <= inv.window => kept(cp[i].before)
        BY <1>6, <2>4 DEF Respected
      <3> HIDE DEF kept, e
      <3> QED
        BY <3>2, <3>3, Zenon DEF SameRecent
    <2>5. \/ inv.kind = "floor" \/ inv.kind = "drawdown"
          \/ inv.kind \in {"lossCap", "lossBps"} /\ inv.window \in Nat
      BY <2>1, LimitKinds
    <2> QED
      BY <2>3, <2>4, <2>5
  <1>9. Respects(invs, cp) <=> Respects(invs, points)
    BY <1>5, <1>7, <1>8 DEF Respects
  <1>10. EvaluatePoints(invs, cp, TRUE) = "accepted" <=> Respects(invs, cp)
    BY <1>3, <1>5, <1>6, JudgedPoints DEF trace
  <1> QED
    BY <1>3, <1>9, <1>10 DEF trace

-----------------------------------------------------------------------------
(* A series judged as a whole.                                             *)

\* The series up to each of its points.
Prefixes(points, prefix) ==
    \A k \in 1 .. Len(points) : /\ prefix[k] \in Seq(Values) /\ Len(prefix[k]) = k
                                /\ \A i \in 1 .. k : prefix[k][i] = points[i]

\* The moment before the series, when nothing has moved.
Still(points, start) ==
    /\ start \in Seq(Values) /\ Len(start) = 1
    /\ start[1].before = points[1].before /\ start[1].after = points[1].before

\* One limit on a series, said of each of its points.
LEMMA SeriesMeaning ==
    ASSUME NEW points \in Seq(Values), points # <<>>, NEW inv \in Limit, NEW prefix, NEW start,
           Prefixes(points, prefix), Still(points, start)
    PROVE  Holds(inv, points, FALSE)
             <=> /\ \A k \in 1 .. Len(points) : Respected(inv, prefix[k])
                 /\ Respected(inv, start)
  <1> DEFINE n == Len(points)
             first == points[1].before
  <1>1. /\ n \in Nat \ {0}
        /\ \A i \in 1 .. n : points[i].t \in Nat /\ points[i].before \in Nat /\ points[i].after \in Nat
    <2>1. n \in Nat \ {0}
      OBVIOUS
    <2> QED
      BY <2>1, ValueFields
  <1>2. first \in Nat
    BY <1>1
  <1>3. /\ \A k \in 1 .. n : LastPoint(prefix[k]) = points[k]
        /\ LastPoint(start).after = first /\ LastPoint(start) = start[1]
    <2>1. \A k \in 1 .. n : k \in 1 .. k
      BY <1>1
    <2> QED
      BY <1>1, <2>1 DEF Prefixes, Still, LastPoint
  <1>4. CASE inv \in [kind : {"floor"}, floor : Nat] /\ inv.kind = "floor"
    <2>1. Holds(inv, points, FALSE)
            <=> first >= inv.floor /\ \A i \in 1 .. n : points[i].after >= inv.floor
      BY <1>4, FloorMeaning DEF Holds
    <2>2. /\ \A k \in 1 .. n : Respected(inv, prefix[k]) <=> points[k].after >= inv.floor
          /\ Respected(inv, start) <=> first >= inv.floor
      BY <1>3, <1>4 DEF Respected
    <2> QED
      BY <2>1, <2>2
  <1>5. CASE inv \in [kind : {"drawdown"}, reference : Nat, bps : 0 .. BpsScale]
              /\ inv.kind = "drawdown"
    <2> DEFINE low(x) == (inv.reference - x) * BpsScale <= inv.reference * inv.bps
    <2>1. Holds(inv, points, FALSE) <=> low(first) /\ \A i \in 1 .. n : low(points[i].after)
      BY <1>5, DrawdownMeaning DEF Holds
    <2>2. /\ \A k \in 1 .. n : Respected(inv, prefix[k]) <=> low(points[k].after)
          /\ Respected(inv, start) <=> low(first)
      BY <1>3, <1>5 DEF Respected
    <2> HIDE DEF low
    <2> QED
      BY <2>1, <2>2
  <1>6. CASE inv.kind \in {"lossCap", "lossBps"} /\ inv.window \in Nat
    <2> DEFINE kept(b, a) == IF inv.kind = "lossCap" THEN b - a <= inv.cap
                             ELSE (b - a) * BpsScale <= b * inv.bps
               W == Windows(points, inv.window, FALSE)
               in(i, k) == points[k].t - points[i].t <= inv.window
    <2>1. Holds(inv, points, FALSE) <=> \A w \in W : kept(points[w[1]].before, points[w[2]].after)
      <3>1. CASE inv.kind = "lossCap"
        <4>1. inv \in [kind : {"lossCap"}, window : Nat, cap : Nat]
          BY <3>1, LimitKinds
        <4> QED
          BY <3>1, <4>1, LossCapMeaning DEF Holds
      <3>2. CASE inv.kind = "lossBps"
        <4>1. inv \in [kind : {"lossBps"}, window : Nat, bps : 0 .. BpsScale]
          BY <3>2, LimitKinds
        <4> QED
          BY <3>2, <4>1, LossBpsMeaning DEF Holds
      <3> QED
        BY <1>6, <3>1, <3>2
    <2>2. \A k \in 1 .. n : Respected(inv, prefix[k])
             <=> \A i \in 1 .. k : in(i, k) => kept(points[i].before, points[k].after)
      <3> SUFFICES ASSUME NEW k \in 1 .. n
                   PROVE  Respected(inv, prefix[k])
                            <=> \A i \in 1 .. k : in(i, k) => kept(points[i].before, points[k].after)
        OBVIOUS
      <3>1. Len(prefix[k]) = k /\ LastPoint(prefix[k]) = points[k]
            /\ \A i \in 1 .. k : prefix[k][i] = points[i]
        BY <1>3 DEF Prefixes
      <3>2. Respected(inv, prefix[k])
              <=> \A i \in 1 .. Len(prefix[k]) :
                     LastPoint(prefix[k]).t - prefix[k][i].t <= inv.window
                        => kept(prefix[k][i].before, LastPoint(prefix[k]).after)
        BY <1>6 DEF Respected
      <3> HIDE DEF kept
      <3> QED
        BY <3>1, <3>2
    <2>3. Respected(inv, start)
      <3>1. kept(first, first)
        <4>1. inv.kind = "lossCap" => inv.cap \in Nat
          BY LimitKinds
        <4>2. inv.kind = "lossBps" => inv.bps \in Nat
          <5>1. inv.kind = "lossBps" => inv.bps \in 0 .. BpsScale
            BY LimitKinds
          <5>2. 0 .. BpsScale \subseteq Nat
            BY DEF BpsScale
          <5> QED
            BY <5>1, <5>2
        <4>3. first - first = 0 /\ 0 * BpsScale = 0
          BY <1>2 DEF BpsScale
        <4>4. CASE inv.kind = "lossCap"
          BY <4>1, <4>3, <4>4
        <4>5. CASE inv.kind = "lossBps"
          <5>1. first * inv.bps \in Nat
            BY <1>2, <4>2, <4>5
          <5> QED
            BY <4>3, <4>5, <5>1
        <4> QED
          BY <1>6, <4>4, <4>5
      <3>2. Respected(inv, start)
              <=> \A i \in 1 .. Len(start) :
                     LastPoint(start).t - start[i].t <= inv.window
                        => kept(start[i].before, LastPoint(start).after)
        BY <1>6 DEF Respected
      <3>3. \A i \in 1 .. Len(start) : start[i].before = first /\ LastPoint(start).after = first
        BY <1>3 DEF Still
      <3> HIDE DEF kept, first
      <3> QED
        BY <3>1, <3>2, <3>3
    <2>4. \A i, k \in 1 .. n : <<i, k>> \in W <=> i <= k /\ in(i, k)
      BY <1>1 DEF Windows, Within
    <2>5. \A w \in W : w[1] \in 1 .. n /\ w[2] \in 1 .. n /\ w[1] \in 1 .. w[2] /\ in(w[1], w[2])
      BY <1>1 DEF Windows, Within
    <2> HIDE DEF kept, W, in
    <2>6. (\A w \in W : kept(points[w[1]].before, points[w[2]].after))
            <=> \A k \in 1 .. n : \A i \in 1 .. k :
                   in(i, k) => kept(points[i].before, points[k].after)
      <3>1. ASSUME \A w \in W : kept(points[w[1]].before, points[w[2]].after),
                   NEW k \in 1 .. n, NEW i \in 1 .. k, in(i, k)
            PROVE  kept(points[i].before, points[k].after)
        <4>1. i \in 1 .. n /\ i <= k
          BY <1>1
        <4>2. <<i, k>> \in W /\ <<i, k>>[1] = i /\ <<i, k>>[2] = k
          BY <2>4, <3>1, <4>1
        <4>3. kept(points[<<i, k>>[1]].before, points[<<i, k>>[2]].after)
          BY <3>1, <4>2
        <4> QED
          BY <4>2, <4>3
      <3>2. ASSUME \A k \in 1 .. n : \A i \in 1 .. k :
                      in(i, k) => kept(points[i].before, points[k].after),
                   NEW w \in W
            PROVE  kept(points[w[1]].before, points[w[2]].after)
        BY <2>5, <3>2
      <3> QED
        BY <3>1, <3>2
    <2> QED
      BY <2>1, <2>2, <2>3, <2>6
  <1> QED
    BY <1>4, <1>5, <1>6, LimitKinds

\* The offline verdict on a series is the online verdict on each of its prefixes,
\* and on the moment before it (evaluate_invariants.py:209-279).
THEOREM JudgedSeries ==
    ASSUME NEW points \in Seq(Values), points # <<>>, NEW invariants \in Seq(Limit),
           NEW prefix, NEW start, Prefixes(points, prefix), Still(points, start),
           EvaluatePoints(invariants, points, FALSE) # "invalid"
    PROVE  EvaluatePoints(invariants, points, FALSE) = "accepted"
             <=> /\ \A k \in 1 .. Len(points) : Respects(invariants, prefix[k])
                 /\ Respects(invariants, start)
  <1>1. \A j \in DOMAIN invariants :
           Holds(invariants[j], points, FALSE)
             <=> /\ \A k \in 1 .. Len(points) : Respected(invariants[j], prefix[k])
                 /\ Respected(invariants[j], start)
    <2>1. \A j \in DOMAIN invariants : invariants[j] \in Limit
      OBVIOUS
    <2> QED
      BY <2>1, SeriesMeaning
  <1>2. EvaluatePoints(invariants, points, FALSE) = "accepted"
          <=> \A j \in DOMAIN invariants : Holds(invariants[j], points, FALSE)
    BY DEF EvaluatePoints
  <1> QED
    BY <1>1, <1>2 DEF Respects

-----------------------------------------------------------------------------
(* The fixture that is built for a policy.                                 *)

LEMMA FiniteImage ==
    ASSUME NEW f, IsFiniteSet(DOMAIN f)
    PROVE  IsFiniteSet({f[x] : x \in DOMAIN f})
  <1> DEFINE R == {f[x] : x \in DOMAIN f}
             g == [x \in DOMAIN f |-> f[x]]
  <1>1. g \in Surjection(DOMAIN f, R)
    BY DEF Surjection
  <1> HIDE DEF R, g
  <1>2. IsFiniteSet(R)
    BY <1>1, FS_Surjection
  <1> QED
    BY <1>2 DEF R

\* A fixture starts where the longest absolute window does.
LEMMA FixtureReach ==
    ASSUME NEW points \in Seq(Values), points # <<>>, NEW policy, policy.invariants \in Seq(Limit),
           \E k \in DOMAIN policy.invariants : policy.invariants[k].kind = "lossCap"
    PROVE  /\ FixtureStart(policy, points) \in Int
           /\ FixtureStart(policy, points) <= LastPoint(points).t
           /\ \A k \in DOMAIN policy.invariants : policy.invariants[k].kind = "lossCap" =>
                 LastPoint(points).t - policy.invariants[k].window >= FixtureStart(policy, points)
  <1> DEFINE invs == policy.invariants
             I == {i \in {invs[k] : k \in DOMAIN invs} : i.kind = "lossCap"}
             f == [inv \in I |-> inv.window]
             S == {inv.window : inv \in I}
  <1>1. \A k \in DOMAIN invs : invs[k] \in Limit
    OBVIOUS
  <1>2. \A k \in DOMAIN invs : invs[k].kind = "lossCap" => invs[k] \in I /\ invs[k].window \in Nat
    BY <1>1, LimitKinds
  <1>3. \A inv \in I : inv.window \in Nat
    BY <1>1, LimitKinds
  <1>4. IsFiniteSet(I)
    <2>1. IsFiniteSet(DOMAIN invs)
      <3>1. DOMAIN invs = 1 .. Len(invs) /\ Len(invs) \in Nat
        OBVIOUS
      <3> QED
        BY <3>1, FS_Interval
    <2>2. IsFiniteSet({invs[k] : k \in DOMAIN invs})
      BY <2>1, FiniteImage
    <2>3. I \in SUBSET {invs[k] : k \in DOMAIN invs}
      OBVIOUS
    <2> HIDE DEF I, invs
    <2> QED
      BY <2>2, <2>3, FS_Subset
  <1> HIDE DEF I
  <1>5. IsFiniteSet(S)
    <2>1. DOMAIN f = I /\ S = {f[inv] : inv \in DOMAIN f}
      OBVIOUS
    <2> HIDE DEF f, S
    <2>2. IsFiniteSet({f[inv] : inv \in DOMAIN f})
      BY <1>4, <2>1, FiniteImage
    <2> QED
      BY <2>1, <2>2
  <1>6. S \in SUBSET Int /\ S # {}
    BY <1>2, <1>3
  <1>7. \A k \in DOMAIN invs : invs[k].kind = "lossCap" => invs[k].window \in S
    BY <1>2
  <1>8. \A x \in S : x \in Nat
    BY <1>3
  <1> HIDE DEF S, f
  <1>9. Max(S) \in S /\ \A x \in S : Max(S) >= x
    BY <1>5, <1>6, FiniteHasBounds
  <1>10. FixtureStart(policy, points) = LastPoint(points).t - Max(S)
    BY DEF FixtureStart, S, I
  <1>11. LastPoint(points).t \in Nat
    <2>1. Len(points) \in 1 .. Len(points)
      OBVIOUS
    <2> QED
      BY <2>1, ValueFields DEF LastPoint
  <1> HIDE DEF invs
  <1>12. \A k \in DOMAIN invs : invs[k].kind = "lossCap" => Max(S) >= invs[k].window /\ invs[k].window \in Nat
    BY <1>7, <1>8, <1>9
  <1> QED
    BY <1>8, <1>9, <1>10, <1>11, <1>12 DEF invs

\* Time goes forward from a point on.
LEMMA LaterPoints ==
    ASSUME NEW points \in Seq(Values), WellFormed(points), NEW m \in 1 .. Len(points), NEW coverage \in Nat,
           points[m].t >= coverage
    PROVE  \A i \in 1 .. Len(points) : m <= i => points[i].t >= coverage
  <1> DEFINE n == Len(points)
             T == {k \in 0 .. n : m <= k => points[k].t >= coverage}
  <1>1. n \in Nat /\ \A i \in 1 .. n : points[i].t \in Nat
    BY ValueFields
  <1>2. \A i \in 1 .. n : i > 1 => points[i - 1].t < points[i].t
    BY DEF WellFormed
  <1>3. 0 \in T
    BY <1>1
  <1>4. ASSUME NEW k \in 1 .. n, k - 1 \in T PROVE k \in T
    <2>1. CASE m <= k - 1
      <3>1. k > 1 /\ k - 1 \in 1 .. n /\ points[k - 1].t >= coverage
        BY <1>4, <2>1
      <3>2. points[k - 1].t < points[k].t
        BY <1>2, <3>1
      <3> QED
        BY <1>1, <3>1, <3>2
    <2>2. CASE ~(m <= k - 1)
      <3>1. m <= k => m = k
        BY <2>2
      <3> QED
        BY <3>1
    <2> QED
      BY <2>1, <2>2
  <1>5. 0 .. n \subseteq T
    <2> HIDE DEF T
    <2> QED
      BY <1>1, <1>3, <1>4, Induction
  <1>6. \A i \in 1 .. n : i \in T
    BY <1>1, <1>5
  <1> QED
    BY <1>6

LEMMA WindowIsNat ==
    ASSUME NEW inv \in Limit, Windowed(inv)
    PROVE  inv.window \in Nat
  BY LimitKinds DEF Windowed

\* A fixture gets a verdict when it reaches back over every window and no
\* reference has to be met (build_candidate_fixture.py:32-42,
\* evaluate_candidate.py:34-71).
THEOREM FixtureGetsVerdict ==
    ASSUME NEW points \in Seq(Values), points # <<>>, WellFormed(points), NEW coverage \in Nat,
           coverage <= LastPoint(points).t, NEW policy, policy.invariants \in Seq(Limit),
           \A k \in DOMAIN policy.invariants :
              /\ policy.invariants[k].kind # "drawdown"
              /\ Windowed(policy.invariants[k]) =>
                    LastPoint(points).t - policy.invariants[k].window >= coverage
    PROVE  EvaluateCandidate(policy, CutAt(policy.fork, points, coverage)) # "invalid"
  <1> DEFINE trace == CutAt(policy.fork, points, coverage)
             invs == policy.invariants
             cp == CandidatePoints(trace)
             n == Len(points)
  <1>1. PICK m \in 1 .. n : CutFrom(points, coverage, m, trace)
    BY CutShape
  <1>2. PICK o \in {0, 1} : Shifted(points, coverage, m, o, cp)
    <2> HIDE DEF trace
    <2> QED
      BY <1>1, CandidateShape
  <1>3. trace.fork = policy.fork
    BY DEF CutAt
  <1> HIDE DEF trace, cp
  <1>4. /\ n \in Nat \ {0} /\ n \in 1 .. n
        /\ \A i \in 1 .. n : points[i].t \in Nat /\ points[i].before \in Nat /\ points[i].after \in Nat
    <2>1. n \in Nat \ {0} /\ n \in 1 .. n
      OBVIOUS
    <2> QED
      BY <2>1, ValueFields
  <1>5. /\ \A i \in 1 .. n : m <= i => points[i].t >= coverage
        /\ points[m].t >= coverage
    BY <1>1, LaterPoints DEF CutFrom
  <1>6. \A i \in 1 .. n : i > 1 => points[i - 1].t < points[i].t /\ points[i - 1].after = points[i].before
    BY DEF WellFormed
  <1>7. /\ trace.coverage = coverage /\ trace.initial = points[m].before
        /\ trace.transitions \in Seq(Values) /\ Len(trace.transitions) = n - m + 1
        /\ \A j \in 1 .. n - m + 1 : trace.transitions[j] = points[m + j - 1]
    BY <1>1 DEF CutFrom
  <1>8. CheckSeries(trace)
    <2> DEFINE ts == trace.transitions
    <2>1. ts # <<>> /\ n - m + 1 \in Nat \ {0}
      BY <1>4, <1>7
    <2>2. ASSUME NEW i \in 1 .. n - m + 1
          PROVE  /\ ts[i].t >= coverage
                 /\ ts[i].before = IF i = 1 THEN points[m].before ELSE ts[i - 1].after
                 /\ i > 1 => ts[i].t > ts[i - 1].t
      <3>0. m + i - 1 \in 1 .. n /\ m <= m + i - 1
        BY <1>4
      <3>1. m + i - 1 \in 1 .. n /\ m <= m + i - 1 /\ ts[i] = points[m + i - 1]
        BY <1>7, <3>0
      <3>2. ts[i].t >= coverage
        BY <1>5, <3>1
      <3>3. CASE i = 1
        <4>1. m + i - 1 = m
          BY <3>3
        <4> QED
          BY <3>1, <3>2, <3>3, <4>1
      <3>4. CASE i # 1
        <4>1. /\ i - 1 \in 1 .. n - m + 1 /\ m + (i - 1) - 1 = (m + i - 1) - 1
              /\ m + i - 1 > 1
          BY <1>4, <3>4
        <4>2. ts[i - 1] = points[(m + i - 1) - 1]
          BY <1>7, <4>1
        <4>3. /\ points[(m + i - 1) - 1].t < points[m + i - 1].t
              /\ points[(m + i - 1) - 1].after = points[m + i - 1].before
          BY <1>6, <3>1, <4>1
        <4>4. points[(m + i - 1) - 1].t \in Nat /\ points[m + i - 1].t \in Nat
          BY <1>4, <3>1, <4>1
        <4> QED
          BY <3>1, <3>2, <3>4, <4>2, <4>3, <4>4
      <3> QED
        BY <3>3, <3>4
    <2> QED
      BY <1>7, <2>1, <2>2 DEF CheckSeries
  <1>9. /\ LastPoint(trace.transitions) = LastPoint(points)
        /\ LastPoint(points).t \in Nat
    <2>1. LastPoint(points) = points[n] /\ points[n].t \in Nat
      BY <1>4 DEF LastPoint
    <2>2. n - m + 1 \in 1 .. n - m + 1 /\ m + (n - m + 1) - 1 = n
      BY <1>4
    <2>3. trace.transitions[n - m + 1] = points[m + (n - m + 1) - 1]
      BY <1>7, <2>2
    <2>4. trace.transitions[Len(trace.transitions)] = points[n]
      BY <1>7, <2>2, <2>3
    <2> QED
      BY <2>1, <2>4 DEF LastPoint
  <1>10. Covers(invs, trace)
    <2>1. \A k \in DOMAIN invs : invs[k] \in Limit
      OBVIOUS
    <2>2. ASSUME NEW k \in DOMAIN invs, Windowed(invs[k])
          PROVE  /\ LastPoint(points).t - invs[k].window >= 0
                 /\ coverage <= LastPoint(points).t - invs[k].window
      <3>1. invs[k].window \in Nat
        BY <2>1, <2>2, WindowIsNat
      <3>2. LastPoint(points).t - invs[k].window >= coverage
        BY <2>2
      <3> QED
        BY <1>9, <3>1, <3>2
    <2> QED
      BY <1>7, <1>9, <2>2 DEF Covers
  <1>11. WellFormed(cp)
    <2>1. /\ cp \in Seq(Values) /\ Len(cp) = o + n - m + 1
          /\ \A j \in 1 .. n - m + 1 : cp[o + j] = points[m + j - 1]
          /\ o = 1 => coverage < points[m].t /\ cp[1].t = coverage /\ cp[1].after = points[m].before
      BY <1>2 DEF Shifted
    <2>2. cp # <<>>
      BY <1>4, <2>1
    <2>3. ASSUME NEW i \in 1 .. Len(cp)
          PROVE  i > 1 => cp[i - 1].t < cp[i].t /\ cp[i - 1].after = cp[i].before
      <3>1. CASE i - o = 1
        <4>1. cp[i] = points[m]
          <5>1. 1 \in 1 .. n - m + 1 /\ o + 1 = i /\ m + 1 - 1 = m
            BY <1>4, <3>1
          <5>2. cp[o + 1] = points[m + 1 - 1]
            BY <2>1, <5>1
          <5> QED
            BY <5>1, <5>2
        <4>2. i > 1 => o = 1 /\ i - 1 = 1
          BY <3>1
        <4> QED
          BY <2>1, <4>1, <4>2
      <3>2. CASE i - o > 1
        <4>1. /\ i - o \in 1 .. n - m + 1 /\ i - o - 1 \in 1 .. n - m + 1
              /\ o + (i - o) = i /\ o + (i - o - 1) = i - 1
              /\ m + (i - o) - 1 \in 1 .. n /\ m + (i - o) - 1 > 1
              /\ m + (i - o - 1) - 1 = (m + (i - o) - 1) - 1
          BY <1>4, <2>1, <3>2
        <4>2. cp[o + (i - o)] = points[m + (i - o) - 1]
          BY <2>1, <4>1
        <4>3. cp[o + (i - o - 1)] = points[m + (i - o - 1) - 1]
          BY <2>1, <4>1
        <4>4. cp[i] = points[m + (i - o) - 1] /\ cp[i - 1] = points[(m + (i - o) - 1) - 1]
          BY <4>1, <4>2, <4>3
        <4> QED
          BY <1>6, <4>1, <4>4
      <3>3. CASE i - o < 1
        BY <3>3
      <3> QED
        BY <3>1, <3>2, <3>3
    <2>4. \A i \in 1 .. Len(cp) : cp[i].t \in Nat /\ cp[i].before \in Nat /\ cp[i].after \in Nat
      BY <2>1, ValueFields
    <2>5. \A i \in 1 .. Len(cp) : cp[i].t >= 0 /\ cp[i].before >= 0 /\ cp[i].after >= 0
      BY <2>4
    <2> QED
      BY <2>2, <2>3, <2>5 DEF WellFormed
  <1>12. EvaluatePoints(invs, cp, TRUE) # "invalid"
    <2>0. \A k \in DOMAIN invs : invs[k].kind # "drawdown"
      OBVIOUS
    <2>1. \A k \in DOMAIN invs : HasReference(invs[k], cp)
      BY <2>0 DEF HasReference
    <2> QED
      BY <1>11, <2>1 DEF EvaluatePoints
  <1> QED
    BY <1>3, <1>8, <1>10, <1>12 DEF EvaluateCandidate, trace, cp

-----------------------------------------------------------------------------
(* What the gate promises about the chain: the inductive invariant.        *)

Entry == [t : 0 .. MaxClock, before : 0 .. MaxValue, after : 0 .. MaxValue,
          by : {Outside} \cup [proposal : Proposals, seen : Nat]]

ValueAt(L, block) == IF block = 0 THEN StartValue ELSE L[block].after

\* The points of a ledger up to a block.
PointsOf(L, block) ==
    [i \in 1 .. block |-> [t |-> L[i].t, before |-> L[i].before, after |-> L[i].after]]

\* The ledger as the chain writes it: continuous, in strictly increasing time,
\* none of it in the future.
LedgerForm ==
    /\ ledger \in Seq(Entry) /\ Len(ledger) <= MaxEntries
    /\ \A i \in 1 .. Len(ledger) :
          /\ ledger[i].t <= clock
          /\ ledger[i].before = ValueAt(ledger, i - 1)
          /\ i > 1 => ledger[i - 1].t < ledger[i].t

DeskTypes ==
    /\ desk \in [request : Requests \cup {None}, proposal : Proposals \cup {None},
                 approval : Approvals \cup {None}]
    /\ shown \in Proposals \cup {None} /\ confirmed \cup byHand \subseteq Proposals
    /\ clock \in 0 .. MaxClock /\ work \in 0 .. MaxWork

\* A snapshot is a state of the chain that really was: its block is in the
\* ledger, and what the candidate claims is possible there.
Captured(L, now, snapshot) ==
    /\ snapshot \in Candidates
    /\ snapshot.context.block <= Len(L)
    /\ snapshot.t <= now /\ snapshot.coverage <= snapshot.t
    /\ ValueAt(L, snapshot.context.block) + snapshot.claim \in 0 .. MaxValue

\* The move, made at t on a block, stays within the limits of the proposal.
Judged(L, proposal, block, t, move) ==
    Respects(proposal.policy.invariants,
             Append(PointsOf(L, block), Point(t, ValueAt(L, block), move)))

CallsForm ==
    /\ DOMAIN calls = Caller
    /\ \A c \in Caller :
          /\ calls[c].pc \in {"evaluating", "accepted", "current"} => Captured(ledger, clock, calls[c].snapshot)
          /\ calls[c].pc \in {"accepted", "current"} =>
                /\ calls[c].proposal \in Proposals
                /\ Judged(ledger, calls[c].proposal, calls[c].snapshot.context.block,
                          calls[c].snapshot.t, calls[c].snapshot.claim)
          /\ calls[c].pc = "current" => calls[c].seen = calls[c].snapshot.context.block

PoolForm ==
    \A tx \in pool :
        /\ tx.move \in Move /\ tx.proposal \in Proposals /\ tx.seen \in 0 .. Len(ledger)
        /\ ValueAt(ledger, tx.seen) + tx.move \in 0 .. MaxValue
        /\ \E t \in 0 .. clock : Judged(ledger, tx.proposal, tx.seen, t, tx.move)

ChainInv == DeskTypes /\ LedgerForm /\ CallsForm /\ PoolForm /\ LimitsHoldOnChain

\* The editor changes the fork of a policy and none of its limits.
LEMMA PolicyTypes ==
    /\ \A p \in Offered : p \in Policies
    /\ \A p, q \in Offered : OnFork(p, q.fork) \in Policies
    /\ \A p \in Policies : p.invariants \in Seq(Limit)
    /\ \A p \in Policy : p.invariants \in Seq(Limit)
  <1>1. \A p \in Policy : p \in [fork : {p.fork}, invariants : Seq(Limit)]
    BY GuardAssumption
  <1>2. \A p \in Offered : p \in [fork : {p.fork}, invariants : Seq(Limit)]
    BY <1>1, GuardAssumption
  <1>3. \A p \in Offered : p = OnFork(p, p.fork)
    BY <1>2 DEF OnFork
  <1>4. \A p, q \in Offered : OnFork(p, q.fork).invariants = p.invariants
    BY <1>2 DEF OnFork
  <1>5. \A p \in Offered : p.invariants \in Seq(Limit)
    BY <1>2
  <1>6. \A p \in Policy : p.invariants \in Seq(Limit)
    BY <1>1
  <1>7. \A p, q \in Offered : OnFork(p, q.fork) \in Policies
    BY DEF Policies
  <1>8. \A p \in Offered : p \in Policies
    BY <1>3, <1>7
  <1>9. ASSUME NEW r \in Policies PROVE r.invariants \in Seq(Limit)
    <2>1. PICK p \in Offered, q \in Offered : r = OnFork(p, q.fork)
      BY DEF Policies
    <2> QED
      BY <1>4, <1>5, <2>1
  <1> QED
    BY <1>6, <1>7, <1>8, <1>9

LEMMA FileForms ==
    /\ \A r \in Requests : r # None /\ r.fork \in {p.fork : p \in Offered}
    /\ \A p \in Proposals : p # None /\ p.policy \in Policies /\ p.request \in Requests
    /\ \A f \in Approvals : f # None
  <1>1. \A r \in Requests : r # None /\ r.fork \in {p.fork : p \in Offered}
    BY DEF Requests, RequestOf, None
  <1>2. \A p \in Proposals : p # None /\ p.policy \in Policies /\ p.request \in Requests
    BY DEF Proposals, None
  <1>3. \A f \in Approvals : f # None
    BY DEF Approvals, None
  <1> QED
    BY <1>1, <1>2, <1>3

\* The workflow keeps the files' shapes.
LEMMA WorkflowTypes ==
    ASSUME DeskTypes, Workflow
    PROVE  DeskTypes'
  <1> DEFINE Desk == [request : Requests \cup {None}, proposal : Proposals \cup {None},
                      approval : Approvals \cup {None}]
  <1>1. desk \in Desk /\ shown \in Proposals \cup {None} /\ confirmed \cup byHand \subseteq Proposals
    BY DEF DeskTypes
  <1>2. /\ desk.request \in Requests \cup {None} /\ desk.proposal \in Proposals \cup {None}
        /\ desk.approval \in Approvals \cup {None}
    BY <1>1
  <1>3. clock' \in 0 .. MaxClock /\ work' \in 0 .. MaxWork
    <2>1. clock' = clock
      BY DEF Workflow, CreateRequest, CompileLocal, EditProposal, EditApproval,
             CompileResponse, Show, Approve, ApproveFixture
    <2> QED
      BY <2>1, GuardAssumption DEF DeskTypes, Workflow
  <1>4. desk' \in Desk /\ shown' \in Proposals \cup {None} /\ (confirmed \cup byHand)' \subseteq Proposals
    <2>1. ASSUME NEW p \in Offered, CreateRequest(p)
          PROVE  desk' \in Desk /\ shown' \in Proposals \cup {None} /\ (confirmed \cup byHand)' \subseteq Proposals
      <3>1. RequestOf(p) \in Requests
        BY DEF Requests
      <3> QED
        BY <1>1, <2>1, <3>1 DEF CreateRequest
    <2>2. ASSUME NEW p \in Offered, CompileLocal(p)
          PROVE  desk' \in Desk /\ shown' \in Proposals \cup {None} /\ (confirmed \cup byHand)' \subseteq Proposals
      <3> DEFINE proposal == [request |-> desk.request, policy |-> OnFork(p, desk.request.fork)]
      <3>1. desk.request # None /\ desk' = [desk EXCEPT !.proposal = proposal]
        BY <2>2 DEF CompileLocal
      <3>2. desk.request \in Requests
        BY <1>2, <3>1
      <3>3. PICK q \in Offered : desk.request.fork = q.fork
        BY <3>2, FileForms
      <3>4. OnFork(p, desk.request.fork) \in Policies
        BY <3>3, PolicyTypes
      <3>5. proposal \in Proposals
        BY <3>2, <3>4 DEF Proposals
      <3> HIDE DEF proposal
      <3> QED
        BY <1>1, <2>2, <3>1, <3>5 DEF CompileLocal
    <2>3. ASSUME NEW p \in Proposals, EditProposal(p)
          PROVE  desk' \in Desk /\ shown' \in Proposals \cup {None} /\ (confirmed \cup byHand)' \subseteq Proposals
      BY <1>1, <2>3 DEF EditProposal
    <2>4. ASSUME NEW file \in Approvals, EditApproval(file)
          PROVE  desk' \in Desk /\ shown' \in Proposals \cup {None} /\ (confirmed \cup byHand)' \subseteq Proposals
      <3>1. file.confirmation \in Proposals
        BY DEF Approvals
      <3> QED
        BY <1>1, <2>4, <3>1 DEF EditApproval
    <2>5. ASSUME NEW r \in Proposals, CompileResponse(r)
          PROVE  desk' \in Desk /\ shown' \in Proposals \cup {None} /\ (confirmed \cup byHand)' \subseteq Proposals
      BY <1>1, <2>5 DEF CompileResponse
    <2>6. CASE Show
      BY <1>1, <1>2, <2>6 DEF Show
    <2>7. ASSUME NEW scope \in {"user", "test-fixture"}, desk.proposal # None
          PROVE  ApprovalOf(desk.proposal, scope) \in Approvals
      <3>1. desk.proposal \in Proposals /\ desk.proposal.policy \in Policies
        BY <1>2, <2>7, FileForms
      <3> QED
        BY <3>1 DEF ApprovalOf, Approvals, Scopes
    <2>8. CASE Approve
      <3>1. ApprovalOf(desk.proposal, "user") \in Approvals /\ shown \in Proposals
        BY <1>1, <2>7, <2>8 DEF Approve
      <3> QED
        BY <1>1, <2>8, <3>1 DEF Approve
    <2>9. CASE ApproveFixture
      <3>1. ApprovalOf(desk.proposal, "test-fixture") \in Approvals
        BY <2>7, <2>9 DEF ApproveFixture
      <3> QED
        BY <1>1, <2>9, <3>1 DEF ApproveFixture
    <2> QED
      BY <2>1, <2>2, <2>3, <2>4, <2>5, <2>6, <2>8, <2>9, WrittenAssumption DEF Workflow
  <1> QED
    BY <1>3, <1>4 DEF DeskTypes

\* The recorded points are a series of values.
LEMMA LedgerPoints ==
    ASSUME LedgerForm, NEW b \in 0 .. Len(ledger)
    PROVE  /\ PointsOf(ledger, b) \in Seq(Values) /\ Len(PointsOf(ledger, b)) = b /\ ValueAt(ledger, b) \in Nat
           /\ \A i \in 1 .. b : PointsOf(ledger, b)[i] =
                 [t |-> ledger[i].t, before |-> ledger[i].before, after |-> ledger[i].after]
  <1>1. ledger \in Seq(Entry) /\ Len(ledger) \in Nat
    BY DEF LedgerForm
  <1>2. /\ 0 .. MaxClock \subseteq Nat /\ 0 .. MaxValue \subseteq Nat /\ StartValue \in Nat
    BY GuardAssumption
  <1>3. \A i \in 1 .. Len(ledger) :
           /\ ledger[i].t \in 0 .. MaxClock
           /\ ledger[i].before \in 0 .. MaxValue /\ ledger[i].after \in 0 .. MaxValue
    <2>1. \A i \in 1 .. Len(ledger) : ledger[i] \in Entry
      BY <1>1
    <2> QED
      BY <2>1 DEF Entry
  <1>4. \A i \in 1 .. Len(ledger) :
           ledger[i].t \in Nat /\ ledger[i].before \in Nat /\ ledger[i].after \in Nat
    BY <1>2, <1>3
  <1>5. b \in Nat /\ \A i \in 1 .. b : i \in 1 .. Len(ledger)
    BY <1>1
  <1>6. PointsOf(ledger, b) \in [1 .. b -> Values]
    BY <1>4, <1>5 DEF PointsOf, Values
  <1>7. PointsOf(ledger, b) \in Seq(Values) /\ Len(PointsOf(ledger, b)) = b
    BY <1>5, <1>6
  <1>8. ValueAt(ledger, b) \in Nat
    <2>1. b # 0 => b \in 1 .. Len(ledger)
      BY <1>5
    <2> QED
      BY <1>2, <1>4, <2>1 DEF ValueAt
  <1> QED
    BY <1>7, <1>8 DEF PointsOf

\* So they are with one more move.
LEMMA MovedPoints ==
    ASSUME LedgerForm, NEW b \in 0 .. Len(ledger), NEW t \in Nat, NEW move \in Int,
           ValueAt(ledger, b) + move \in Nat
    PROVE  /\ Point(t, ValueAt(ledger, b), move) \in Values
           /\ Append(PointsOf(ledger, b), Point(t, ValueAt(ledger, b), move)) \in Seq(Values)
           /\ Append(PointsOf(ledger, b), Point(t, ValueAt(ledger, b), move)) # <<>>
           /\ LastPoint(Append(PointsOf(ledger, b), Point(t, ValueAt(ledger, b), move))) = Point(t, ValueAt(ledger, b), move)
  <1> DEFINE x == Point(t, ValueAt(ledger, b), move)
             p == PointsOf(ledger, b)
  <1>1. x \in Values /\ p \in Seq(Values)
    BY LedgerPoints DEF Point, Values
  <1> HIDE DEF x, p
  <1>2. /\ Append(p, x) \in Seq(Values) /\ Len(Append(p, x)) = Len(p) + 1
        /\ Append(p, x)[Len(p) + 1] = x /\ Append(p, x) # <<>>
    BY <1>1
  <1> QED
    BY <1>1, <1>2 DEF LastPoint, x, p

\* The later a move is mined, the less is recent: what was within the limits
\* stays within them.
LEMMA LaterIsEasier ==
    ASSUME NEW invariants \in Seq(Limit), NEW points \in Seq(Values),
           NEW x \in Values, NEW y \in Values,
           x.before = y.before, x.after = y.after, x.t <= y.t,
           Respects(invariants, Append(points, x))
    PROVE  Respects(invariants, Append(points, y))
  <1> DEFINE p == Append(points, x)
             q == Append(points, y)
             n == Len(points) + 1
  <1>1. /\ p \in Seq(Values) /\ q \in Seq(Values) /\ Len(p) = n /\ Len(q) = n /\ n \in Nat
        /\ p[n] = x /\ q[n] = y /\ \A i \in 1 .. n : i # n => p[i] = points[i] /\ q[i] = points[i]
    OBVIOUS
  <1>2. \A i \in 1 .. n : p[i].before = q[i].before /\ (i # n => p[i].t = q[i].t)
    BY <1>1
  <1>3. x.t \in Nat /\ y.t \in Nat /\ \A i \in 1 .. n : p[i].t \in Nat /\ q[i].t \in Nat
    BY <1>1, ValueFields DEF Values
  <1>4. LastPoint(p) = x /\ LastPoint(q) = y
    BY <1>1 DEF LastPoint
  <1>5. \A k \in DOMAIN invariants : Respected(invariants[k], p)
    BY DEF Respects
  <1> HIDE DEF p, q, n
  <1>6. ASSUME NEW inv \in Limit, Respected(inv, p)
        PROVE  Respected(inv, q)
    <2>1. inv.kind = "floor" => y.after >= inv.floor
      BY <1>4, <1>6 DEF Respected
    <2>2. inv.kind = "drawdown" =>
              (inv.reference - y.after) * BpsScale <= inv.reference * inv.bps
      BY <1>4, <1>6 DEF Respected
    <2>3. ASSUME NEW i \in 1 .. n, inv.window \in Nat, y.t - q[i].t <= inv.window
          PROVE  x.t - p[i].t <= inv.window
      <3>1. CASE i = n
        BY <1>1, <1>3, <2>3, <3>1
      <3>2. CASE i # n
        BY <1>2, <1>3, <2>3, <3>2
      <3> QED
        BY <3>1, <3>2
    <2>4. ASSUME inv.kind = "lossCap", NEW i \in 1 .. n, y.t - q[i].t <= inv.window
          PROVE  q[i].before - y.after <= inv.cap
      <3>1. x.t - p[i].t <= inv.window
        BY <2>3, <2>4, WindowIsNat DEF Windowed
      <3>2. p[i].before - x.after <= inv.cap
        BY <1>1, <1>4, <1>6, <2>4, <3>1 DEF Respected
      <3> QED
        BY <1>2, <3>2
    <2>5. ASSUME inv.kind = "lossBps", NEW i \in 1 .. n, y.t - q[i].t <= inv.window
          PROVE  (q[i].before - y.after) * BpsScale <= q[i].before * inv.bps
      <3>1. x.t - p[i].t <= inv.window
        BY <2>3, <2>5, WindowIsNat DEF Windowed
      <3>2. (p[i].before - x.after) * BpsScale <= p[i].before * inv.bps
        BY <1>1, <1>4, <1>6, <2>5, <3>1 DEF Respected
      <3> QED
        BY <1>2, <3>2
    <2> QED
      BY <1>1, <1>4, <2>1, <2>2, <2>4, <2>5 DEF Respected
  <1>7. \A k \in DOMAIN invariants : invariants[k] \in Limit
    OBVIOUS
  <1> QED
    BY <1>5, <1>6, <1>7 DEF Respects, q

LEMMA NonceTypes ==
    ASSUME LedgerForm
    PROVE  Nonce \in 0 .. MaxEntries
  <1> DEFINE D == DOMAIN ledger
             N == {i \in D : ledger[i].by # Outside}
  <1>1. D = 1 .. Len(ledger) /\ Len(ledger) \in Nat /\ Len(ledger) <= MaxEntries
    <2>1. ledger \in Seq(Entry) /\ Len(ledger) <= MaxEntries
      BY DEF LedgerForm
    <2>2. DOMAIN ledger = 1 .. Len(ledger) /\ Len(ledger) \in Nat
      BY <2>1
    <2> QED
      BY <2>1, <2>2
  <1>2. IsFiniteSet(D) /\ Cardinality(D) = Len(ledger)
    <2> DEFINE n == Len(ledger)
    <2>1. n \in Int /\ n >= 0 /\ D = 1 .. n
      BY <1>1
    <2> HIDE DEF n, D
    <2>2. IsFiniteSet(1 .. n) /\ Cardinality(1 .. n) = IF 1 > n THEN 0 ELSE n - 1 + 1
      BY <2>1, FS_Interval
    <2>3. Cardinality(1 .. n) = n
      BY <2>1, <2>2
    <2> QED
      BY <2>1, <2>2, <2>3 DEF n
  <1>3. N \in SUBSET D
    OBVIOUS
  <1> HIDE DEF D, N
  <1>4. IsFiniteSet(N) /\ Cardinality(N) <= Cardinality(D)
    BY <1>2, <1>3, FS_Subset
  <1>5. Cardinality(N) \in Nat
    BY <1>4, FS_CardinalityType
  <1>6. Nonce = Cardinality(N)
    BY DEF Nonce, N, D
  <1> QED
    BY <1>1, <1>2, <1>4, <1>5, <1>6, GuardAssumption

\* What the evaluator accepts is within the limits, measured over the whole history
\* up to the candidate's block.
LEMMA AcceptedIsJudged ==
    ASSUME LedgerForm, DeskTypes, NEW s, Captured(ledger, clock, s), NEW proposal \in Proposals,
           EvaluateCandidate(proposal.policy, TraceOf(s)) = "accepted"
    PROVE  Judged(ledger, proposal, s.context.block, s.t, s.claim)
  <1> DEFINE b == s.context.block
             points == Append(PointsOf(ledger, b), Point(s.t, ValueAt(ledger, b), s.claim))
  <1>1. /\ b \in 0 .. Len(ledger) /\ s.t \in Nat /\ s.claim \in Int /\ s.coverage \in Nat
        /\ s.coverage <= s.t /\ ValueAt(ledger, b) + s.claim \in Nat
    <2>1. /\ s \in Candidates /\ b <= Len(ledger) /\ s.coverage <= s.t
          /\ ValueAt(ledger, b) + s.claim \in 0 .. MaxValue
      BY DEF Captured
    <2>2. /\ b \in 0 .. MaxEntries /\ s.t \in 0 .. MaxClock /\ s.claim \in Claim
          /\ s.coverage \in 0 .. MaxClock
      BY <2>1 DEF Candidates
    <2>3. Len(ledger) \in Nat
      BY DEF LedgerForm
    <2> QED
      BY <2>1, <2>2, <2>3, GuardAssumption
  <1>2. /\ points \in Seq(Values) /\ points # <<>>
        /\ LastPoint(points) = Point(s.t, ValueAt(ledger, b), s.claim)
    BY <1>1, MovedPoints
  <1>3. LastPoint(points).t = s.t
    BY <1>2 DEF Point
  <1>4. TraceOf(s) = CutAt(Fork, points, s.coverage)
    BY DEF TraceOf, ValueAt, Points, PointsOf
  <1>5. proposal.policy.invariants \in Seq(Limit)
    BY PolicyTypes, FileForms
  <1> HIDE DEF points
  <1>6. EvaluateCandidate(proposal.policy, CutAt(Fork, points, s.coverage)) = "accepted"
          => Respects(proposal.policy.invariants, points)
    BY <1>1, <1>2, <1>3, <1>5, CutMeaning
  <1> QED
    BY <1>4, <1>6 DEF Judged, points

-----------------------------------------------------------------------------
(* The steps of the gate.                                                  *)

\* What a step that mines nothing leaves true.
LEMMA SameLedger ==
    ASSUME ledger' = ledger, clock \in Int, clock' \in Int, clock <= clock'
    PROVE  /\ \A s : Captured(ledger, clock, s) => Captured(ledger, clock', s)
           /\ LedgerForm => LedgerForm'
           /\ LimitsHoldOnChain => LimitsHoldOnChain'
  <1>3. \A s : Captured(ledger, clock, s) => Captured(ledger, clock', s)
    <2> SUFFICES ASSUME NEW s, Captured(ledger, clock, s) PROVE Captured(ledger, clock', s)
      OBVIOUS
    <2>1. s.t \in Int
      BY GuardAssumption DEF Captured, Candidates
    <2> QED
      BY <2>1 DEF Captured
  <1>4. LedgerForm => LedgerForm'
    <2> SUFFICES ASSUME LedgerForm PROVE LedgerForm'
      OBVIOUS
    <2>1. \A i \in 1 .. Len(ledger) : ledger[i].t \in Int
      <3>1. \A i \in 1 .. Len(ledger) : ledger[i] \in Entry
        BY DEF LedgerForm
      <3> QED
        BY <3>1, GuardAssumption DEF Entry
    <2>2. \A i \in 1 .. Len(ledger) : ledger[i].t <= clock'
      BY <2>1 DEF LedgerForm
    <2> QED
      BY <2>2 DEF LedgerForm
  <1>5. LimitsHoldOnChain => LimitsHoldOnChain'
    <2>1. \A b : Points(b)' = Points(b)
      BY DEF Points
    <2> QED
      BY <2>1 DEF LimitsHoldOnChain
  <1> QED
    BY <1>3, <1>4, <1>5

\* What CallsForm asks of one call.
CallForm(L, now, call) ==
    /\ call.pc \in {"evaluating", "accepted", "current"} => Captured(L, now, call.snapshot)
    /\ call.pc \in {"accepted", "current"} =>
          /\ call.proposal \in Proposals
          /\ Judged(L, call.proposal, call.snapshot.context.block,
                    call.snapshot.t, call.snapshot.claim)
    /\ call.pc = "current" => call.seen = call.snapshot.context.block

\* A step of one call that writes a call of the right form.
LEMMA CallKept ==
    ASSUME CallsForm, ledger' = ledger, clock' = clock,
           NEW c \in Caller, NEW call, calls' = [calls EXCEPT ![c] = call],
           CallForm(ledger, clock, call)
    PROVE  CallsForm'
  <1>1. /\ DOMAIN calls' = Caller /\ calls'[c] = call
        /\ \A d \in Caller : d # c => calls'[d] = calls[d]
    BY DEF CallsForm
  <1>2. \A d \in Caller : CallForm(ledger, clock, calls'[d])
    BY <1>1 DEF CallsForm, CallForm
  <1> QED
    BY <1>1, <1>2 DEF CallsForm, CallForm

LEMMA ChainInit == Init => ChainInv
  <1> SUFFICES ASSUME Init PROVE ChainInv
    OBVIOUS
  <1>1. DeskTypes
    BY GuardAssumption DEF Init, DeskTypes
  <1>2. LedgerForm
    <2>1. ledger = <<>>
      BY DEF Init
    <2>2. ledger \in Seq(Entry) /\ Len(ledger) = 0
      BY <2>1
    <2> QED
      BY <2>2, GuardAssumption DEF LedgerForm
  <1>3. CallsForm
    BY DEF Init, CallsForm, Idle
  <1>4. PoolForm
    BY DEF Init, PoolForm
  <1>5. LimitsHoldOnChain
    BY DEF Init, LimitsHoldOnChain
  <1> QED
    BY <1>1, <1>2, <1>3, <1>4, <1>5 DEF ChainInv

LEMMA ChainWorkflow ==
    ASSUME ChainInv, Workflow
    PROVE  ChainInv'
  <1>1. UNCHANGED <<clock, ledger, calls, pool>>
    BY DEF Workflow, CreateRequest, CompileLocal, EditProposal, EditApproval,
           CompileResponse, Show, Approve, ApproveFixture
  <1>2. DeskTypes'
    BY WorkflowTypes DEF ChainInv
  <1>3. LedgerForm' /\ CallsForm' /\ PoolForm'
    BY <1>1 DEF ChainInv, LedgerForm, CallsForm, PoolForm
  <1>4. LimitsHoldOnChain'
    BY <1>1 DEF ChainInv, LimitsHoldOnChain, Points
  <1> QED
    BY <1>2, <1>3, <1>4 DEF ChainInv

\* What PoolForm asks of one transaction.
TxForm(L, now, tx) ==
    /\ tx.move \in Move /\ tx.proposal \in Proposals /\ tx.seen \in 0 .. Len(L)
    /\ ValueAt(L, tx.seen) + tx.move \in 0 .. MaxValue
    /\ \E t \in 0 .. now : Judged(L, tx.proposal, tx.seen, t, tx.move)

LEMMA PoolKept ==
    ASSUME PoolForm, ledger' = ledger, clock' = clock, NEW tx,
           TxForm(ledger, clock, tx), pool' = pool \/ pool' = pool \cup {tx}
    PROVE  PoolForm'
  <1>1. \A other \in pool' : TxForm(ledger, clock, other)
    BY DEF PoolForm, TxForm
  <1> QED
    BY <1>1 DEF PoolForm, TxForm

\* A call that is over asks for nothing.
LEMMA OverForm ==
    ASSUME NEW L, NEW now
    PROVE  CallForm(L, now, Refused) /\ CallForm(L, now, Sent)
  BY DEF CallForm, Refused, Sent

LEMMA CallOver ==
    ASSUME CallsForm, ledger' = ledger, clock' = clock, NEW c \in Caller,
           calls' = [calls EXCEPT ![c] = Refused] \/ calls' = [calls EXCEPT ![c] = Sent]
    PROVE  CallsForm'
  <1>1. CallForm(ledger, clock, Refused) /\ CallForm(ledger, clock, Sent)
    BY OverForm
  <1>2. CASE calls' = [calls EXCEPT ![c] = Refused]
    BY <1>1, <1>2, CallKept
  <1>3. CASE calls' = [calls EXCEPT ![c] = Sent]
    BY <1>1, <1>3, CallKept
  <1> QED
    BY <1>2, <1>3

\* A captured candidate is a state of the chain that really was.
LEMMA CaptureForm ==
    ASSUME ChainInv, NEW c \in Caller, NEW claim \in Claim, NEW move \in Move,
           NEW coverage \in 0 .. clock, Capture(c, claim, move, coverage)
    PROVE  CallsForm'
  <1> DEFINE snapshot == [context |-> Context, t |-> clock, claim |-> claim,
                          move |-> move, coverage |-> coverage]
             call == [pc |-> "evaluating", snapshot |-> snapshot]
  <1>1. LedgerForm /\ CallsForm /\ clock \in 0 .. MaxClock
    BY DEF ChainInv, DeskTypes
  <1>2. ledger \in Seq(Entry) /\ Len(ledger) \in 0 .. MaxEntries
    BY <1>1, GuardAssumption DEF LedgerForm
  <1>3. snapshot \in Candidates
    <2>1. Context \in [block : 0 .. MaxEntries, nonce : 0 .. MaxEntries]
      BY <1>1, <1>2, NonceTypes DEF Context
    <2>2. coverage \in 0 .. MaxClock
      BY <1>1, GuardAssumption
    <2> QED
      BY <1>1, <2>1, <2>2 DEF Candidates
  <1>4. snapshot.context.block = Len(ledger) /\ snapshot.t = clock
        /\ snapshot.coverage = coverage /\ snapshot.claim = claim
    BY DEF Context
  <1>5. ValueAt(ledger, Len(ledger)) + claim \in 0 .. MaxValue
    <2>1. Value = ValueAt(ledger, Len(ledger))
      BY <1>2 DEF Value, ValueAt
    <2> QED
      BY <2>1 DEF Capture
  <1>6. coverage <= clock /\ clock <= clock /\ Len(ledger) <= Len(ledger)
    BY <1>1, <1>2, GuardAssumption
  <1>7. calls' = [calls EXCEPT ![c] = call] /\ ledger' = ledger /\ clock' = clock
    BY DEF Capture
  <1> HIDE DEF snapshot
  <1>8. Captured(ledger, clock, snapshot)
    BY <1>3, <1>4, <1>5, <1>6 DEF Captured
  <1>9. CallForm(ledger, clock, call)
    BY <1>8 DEF CallForm
  <1> HIDE DEF call
  <1> QED
    BY <1>1, <1>7, <1>9, CallKept

\* An accepted call holds a decision about its own candidate.
LEMMA EvaluateForm ==
    ASSUME ChainInv, NEW c \in Caller, NEW about \in Caller, Evaluate(c, about)
    PROVE  CallsForm'
  <1> DEFINE s == calls[c].snapshot
             p == desk.approval.proposal
             call == [pc |-> "accepted", snapshot |-> s, proposal |-> p]
  <1>1. LedgerForm /\ CallsForm /\ DeskTypes /\ DOMAIN calls = Caller
    BY DEF ChainInv, CallsForm
  <1>2. Captured(ledger, clock, s)
    BY <1>1 DEF CallsForm, Evaluate
  <1>3. p \in Proposals
    <2>1. desk.approval # None
      BY DEF Evaluate, CanDecide, Judges
    <2>2. desk.approval \in Approvals
      BY <1>1, <2>1 DEF DeskTypes
    <2> QED
      BY <2>2 DEF Approvals
  <1>4. \/ calls' = [calls EXCEPT ![c] = Refused]
        \/ /\ calls' = [calls EXCEPT ![c] = call]
           /\ EvaluateCandidate(p.policy, TraceOf(s)) = "accepted"
    BY <1>1 DEF Evaluate, Decision, Belongs
  <1>5. ledger' = ledger /\ clock' = clock
    BY DEF Evaluate
  <1>6. CASE calls' = [calls EXCEPT ![c] = Refused]
    BY <1>1, <1>5, <1>6, CallOver
  <1>7. CASE /\ calls' = [calls EXCEPT ![c] = call]
             /\ EvaluateCandidate(p.policy, TraceOf(s)) = "accepted"
    <2> HIDE DEF s, p
    <2>1. Judged(ledger, p, s.context.block, s.t, s.claim)
      BY <1>1, <1>2, <1>3, <1>7, AcceptedIsJudged
    <2>2. CallForm(ledger, clock, call)
      BY <1>2, <1>3, <2>1 DEF CallForm
    <2> HIDE DEF call
    <2> QED
      BY <1>1, <1>5, <1>7, <2>2, CallKept
  <1> QED
    BY <1>4, <1>6, <1>7

\* A current call has seen the block its candidate was captured at: the contexts
\* are equal.
LEMMA CheckForm ==
    ASSUME ChainInv, NEW c \in Caller, CheckContext(c)
    PROVE  CallsForm'
  <1> DEFINE s == calls[c].snapshot
             call == [pc |-> "current", snapshot |-> s, proposal |-> calls[c].proposal,
                      seen |-> Len(ledger)]
  <1>1. CallsForm /\ DOMAIN calls = Caller
    BY DEF ChainInv, CallsForm
  <1>2. /\ Captured(ledger, clock, s) /\ calls[c].proposal \in Proposals
        /\ Judged(ledger, calls[c].proposal, s.context.block, s.t, s.claim)
    BY <1>1 DEF CallsForm, CheckContext
  <1>3. \/ calls' = [calls EXCEPT ![c] = Refused]
        \/ calls' = [calls EXCEPT ![c] = call] /\ s.context = Context
    BY <1>1 DEF CheckContext, SameContext
  <1>4. ledger' = ledger /\ clock' = clock
    BY DEF CheckContext
  <1>5. CASE calls' = [calls EXCEPT ![c] = Refused]
    BY <1>1, <1>4, <1>5, CallOver
  <1>6. CASE calls' = [calls EXCEPT ![c] = call] /\ s.context = Context
    <2> HIDE DEF s
    <2>1. s.context.block = Len(ledger)
      BY <1>6 DEF Context
    <2>2. CallForm(ledger, clock, call)
      BY <1>2, <2>1 DEF CallForm
    <2> HIDE DEF call
    <2> QED
      BY <1>1, <1>4, <1>6, <2>2, CallKept
  <1> QED
    BY <1>3, <1>5, <1>6

\* What is handed over makes the move that was judged.
LEMMA SendForm ==
    ASSUME ChainInv, NEW c \in Caller, BindAndSend(c)
    PROVE  CallsForm' /\ PoolForm'
  <1> DEFINE s == calls[c].snapshot
             tx == [nonce |-> s.context.nonce, move |-> s.move,
                    seen |-> calls[c].seen, proposal |-> calls[c].proposal]
  <1>1. CallsForm /\ PoolForm /\ LedgerForm /\ clock \in 0 .. MaxClock
    BY DEF ChainInv, DeskTypes
  <1>2. ledger' = ledger /\ clock' = clock
    BY DEF BindAndSend
  <1>3. CallsForm'
    <2>1. calls' = [calls EXCEPT ![c] = Sent] \/ calls' = [calls EXCEPT ![c] = Refused]
      BY DEF BindAndSend
    <2> QED
      BY <1>1, <1>2, <2>1, CallOver
  <1>4. pool' = pool \/ (pool' = pool \cup {tx} /\ s.claim = s.move)
    BY DEF BindAndSend
  <1>5. /\ Captured(ledger, clock, s) /\ calls[c].proposal \in Proposals
        /\ Judged(ledger, calls[c].proposal, s.context.block, s.t, s.claim)
        /\ calls[c].seen = s.context.block
    BY <1>1 DEF CallsForm, BindAndSend
  <1>6. /\ s.move \in Move /\ s.context.block \in 0 .. Len(ledger) /\ s.t \in 0 .. clock
        /\ ValueAt(ledger, s.context.block) + s.claim \in 0 .. MaxValue
    <2>1. /\ s \in Candidates /\ s.context.block <= Len(ledger) /\ s.t <= clock
          /\ ValueAt(ledger, s.context.block) + s.claim \in 0 .. MaxValue
      BY <1>5 DEF Captured
    <2>2. s.move \in Move /\ s.context.block \in 0 .. MaxEntries /\ s.t \in 0 .. MaxClock
      BY <2>1 DEF Candidates
    <2>3. Len(ledger) \in Nat
      BY <1>1 DEF LedgerForm
    <2> QED
      BY <1>1, <2>1, <2>2, <2>3, GuardAssumption
  <1>7. /\ tx.move = s.move /\ tx.seen = s.context.block /\ tx.proposal = calls[c].proposal
    BY <1>5
  <1> HIDE DEF tx, s
  <1>8. CASE s.claim = s.move /\ pool' = pool \cup {tx}
    <2>1. TxForm(ledger, clock, tx)
      BY <1>5, <1>6, <1>7, <1>8 DEF TxForm
    <2> QED
      BY <1>1, <1>2, <1>3, <1>8, <2>1, PoolKept
  <1>9. CASE pool' = pool
    BY <1>1, <1>2, <1>3, <1>9 DEF PoolForm
  <1> QED
    BY <1>3, <1>4, <1>8, <1>9

LEMMA ChainCall ==
    ASSUME ChainInv, NEW c \in Caller, Call(c)
    PROVE  ChainInv'
  <1>1. UNCHANGED <<clock, ledger, desk, shown, confirmed, byHand, work>>
    BY DEF Call, Capture, Evaluate, EvaluatorFails, CheckContext, BindAndSend
  <1>2. DeskTypes' /\ LedgerForm'
    BY <1>1 DEF ChainInv, DeskTypes, LedgerForm
  <1>3. LimitsHoldOnChain'
    BY <1>1 DEF ChainInv, LimitsHoldOnChain, Points
  <1>4. CASE BindAndSend(c)
    BY <1>2, <1>3, <1>4, SendForm DEF ChainInv
  <1>5. CASE ~BindAndSend(c)
    <2>1. pool' = pool
      BY <1>5 DEF Call, Capture, Evaluate, EvaluatorFails, CheckContext
    <2>2. PoolForm'
      <3>1. PoolForm /\ ledger' = ledger /\ clock' = clock
        BY <1>1 DEF ChainInv
      <3> QED
        BY <2>1, <3>1 DEF PoolForm
    <2>3. ASSUME EvaluatorFails(c) PROVE CallsForm'
      BY <2>3, CallOver DEF ChainInv, EvaluatorFails
    <2>4. CallsForm'
      BY <1>5, <2>3, CaptureForm, EvaluateForm, CheckForm DEF Call
    <2> QED
      BY <1>2, <1>3, <2>2, <2>4 DEF ChainInv
  <1> QED
    BY <1>4, <1>5

-----------------------------------------------------------------------------
(* Time and the chain.                                                     *)

\* Time passes: no call and no transaction asks for anything about the future.
LEMMA ChainTick ==
    ASSUME ChainInv, Tick
    PROVE  ChainInv'
  <1>1. ledger' = ledger /\ clock \in Int /\ clock' = clock + 1 /\ clock < MaxClock
    BY GuardAssumption DEF Tick, ChainInv, DeskTypes
  <1>2. clock' \in Int /\ clock <= clock'
    BY <1>1
  <1>3. DeskTypes'
    <2>1. clock' \in 0 .. MaxClock
      BY <1>1, GuardAssumption DEF ChainInv, DeskTypes
    <2> QED
      BY <2>1 DEF ChainInv, DeskTypes, Tick
  <1>4. LedgerForm' /\ LimitsHoldOnChain'
    BY <1>1, <1>2, SameLedger DEF ChainInv
  <1>5. CallsForm'
    <2>1. \A s : Captured(ledger, clock, s) => Captured(ledger', clock', s)
      BY <1>1, <1>2, SameLedger
    <2> QED
      BY <1>1, <2>1 DEF ChainInv, CallsForm, Tick
  <1>6. PoolForm'
    <2>1. \A t \in 0 .. clock : t \in 0 .. clock'
      BY <1>1, <1>2
    <2>2. PoolForm /\ pool' = pool
      BY DEF ChainInv, Tick
    <2> QED
      BY <1>1, <2>1, <2>2 DEF PoolForm
  <1> QED
    BY <1>3, <1>4, <1>5, <1>6 DEF ChainInv

\* Mining appends one entry and leaves the history as it was.
LEMMA MinedLedger ==
    ASSUME ChainInv, NEW move \in Int, NEW by \in {Outside} \cup [proposal : Proposals, seen : Nat],
           Mined(move, by), clock' = clock
    PROVE  /\ LedgerForm' /\ Len(ledger') = Len(ledger) + 1
           /\ ledger'[Len(ledger) + 1].by = by
           /\ \A i \in 1 .. Len(ledger) : ledger'[i] = ledger[i]
           /\ \A b \in 0 .. Len(ledger) :
                 /\ ValueAt(ledger', b) = ValueAt(ledger, b)
                 /\ PointsOf(ledger', b) = PointsOf(ledger, b)
           /\ PointsOf(ledger', Len(ledger) + 1)
                 = Append(PointsOf(ledger, Len(ledger)),
                          Point(clock, ValueAt(ledger, Len(ledger)), move))
  <1> DEFINE n == Len(ledger)
             v == ValueAt(ledger, n)
             e == [t |-> clock, before |-> v, after |-> v + move, by |-> by]
  <1>1. /\ ledger \in Seq(Entry) /\ n \in Nat /\ clock \in 0 .. MaxClock /\ LedgerForm
    BY DEF ChainInv, LedgerForm, DeskTypes
  <1>2. Value = v /\ v \in Nat
    <2>1. n \in 0 .. n
      BY <1>1
    <2>2. v \in Nat
      BY <1>1, <2>1, LedgerPoints
    <2>3. ledger = <<>> <=> n = 0
      BY <1>1
    <2> QED
      BY <2>2, <2>3 DEF Value, ValueAt
  <1>3. v \in 0 .. MaxValue
    <2>1. CASE n = 0
      BY <2>1, GuardAssumption DEF ValueAt
    <2>2. CASE n # 0
      <3>1. ledger[n] \in Entry
        BY <1>1, <2>2
      <3> QED
        BY <2>2, <3>1 DEF ValueAt, Entry
    <2> QED
      BY <2>1, <2>2
  <1>4. /\ ledger' = Append(ledger, e) /\ n < MaxEntries /\ v + move \in 0 .. MaxValue
        /\ ledger # <<>> => ledger[n].t < clock
    BY <1>2 DEF Mined
  <1>5. e \in Entry /\ e.t = clock /\ e.before = v /\ e.after = v + move /\ e.by = by
    BY <1>1, <1>3, <1>4 DEF Entry
  <1>13. e.t = clock /\ e.before = v /\ e.after = v + move
    BY <1>5
  <1> HIDE DEF e
  <1>6. /\ ledger' \in Seq(Entry) /\ Len(ledger') = n + 1 /\ ledger'[n + 1] = e
        /\ \A i \in 1 .. n : ledger'[i] = ledger[i]
    BY <1>1, <1>4, <1>5
  <1>7. \A b \in 0 .. n : ValueAt(ledger', b) = ValueAt(ledger, b)
    <2> SUFFICES ASSUME NEW b \in 0 .. n PROVE ValueAt(ledger', b) = ValueAt(ledger, b)
      OBVIOUS
    <2>1. b # 0 => b \in 1 .. n
      BY <1>1
    <2> QED
      BY <1>6, <2>1 DEF ValueAt
  <1>8. \A b \in 0 .. n : PointsOf(ledger', b) = PointsOf(ledger, b)
    <2> SUFFICES ASSUME NEW b \in 0 .. n PROVE PointsOf(ledger', b) = PointsOf(ledger, b)
      OBVIOUS
    <2>1. \A i \in 1 .. b : i \in 1 .. n
      BY <1>1
    <2> QED
      BY <1>6, <2>1 DEF PointsOf
  <1>9. PointsOf(ledger', n + 1) = Append(PointsOf(ledger, n), Point(clock, v, move))
    <2> DEFINE p == PointsOf(ledger, n)
               q == PointsOf(ledger', n + 1)
               x == Point(clock, v, move)
    <2>1. p \in Seq(Values) /\ Len(p) = n /\ n \in 0 .. n
      BY <1>1, LedgerPoints
    <2>2. q = [i \in 1 .. n + 1 |-> [t |-> ledger'[i].t, before |-> ledger'[i].before,
                                     after |-> ledger'[i].after]]
      BY DEF PointsOf
    <2>3. p = [i \in 1 .. n |-> [t |-> ledger[i].t, before |-> ledger[i].before,
                                 after |-> ledger[i].after]]
      BY DEF PointsOf
    <2>4. q[n + 1] = x
      BY <1>1, <1>6, <1>13, <2>2 DEF Point
    <2>5. \A i \in 1 .. n : q[i] = p[i]
      BY <1>1, <1>6, <2>2, <2>3
    <2>6. DOMAIN q = 1 .. n + 1
      BY <2>2
    <2>7. q = [i \in 1 .. n + 1 |-> q[i]]
      BY <2>2
    <2>11. x \in Values
      BY <1>1, <1>2, <1>4, GuardAssumption DEF Point, Values
    <2> HIDE DEF p, q, x
    <2>8. /\ Append(p, x) = [i \in 1 .. n + 1 |-> Append(p, x)[i]]
          /\ Append(p, x)[n + 1] = x /\ \A i \in 1 .. n : Append(p, x)[i] = p[i]
      <3>1. Append(p, x) \in Seq(Values) /\ Len(Append(p, x)) = n + 1
        BY <2>1, <2>11
      <3> DEFINE a == Append(p, x)
      <3> HIDE DEF a
      <3>3. a \in [1 .. n + 1 -> Values]
        <4>1. a \in Seq(Values) /\ Len(a) = n + 1
          BY <3>1 DEF a
        <4>2. a \in [1 .. Len(a) -> Values]
          BY <4>1
        <4> QED
          BY <4>1, <4>2, Zenon
      <3>2. a = [i \in 1 .. n + 1 |-> a[i]]
        BY <3>3
      <3> QED
        BY <2>1, <2>11, <3>2 DEF a
    <2>9. \A i \in 1 .. n + 1 : q[i] = Append(p, x)[i]
      <3>1. \A i \in 1 .. n + 1 : i = n + 1 \/ i \in 1 .. n
        BY <1>1
      <3> QED
        BY <2>4, <2>5, <2>8, <3>1
    <2>10. q = Append(p, x)
      BY <2>7, <2>8, <2>9, Zenon
    <2> QED
      BY <2>10 DEF p, q, x
  <1>10. n \in 0 .. n /\ \A i \in 1 .. n + 1 : i = n + 1 \/ i \in 1 .. n
    BY <1>1
  <1>11. \A i \in 1 .. n + 1 :
           /\ ledger'[i].t <= clock
           /\ ledger'[i].before = ValueAt(ledger', i - 1)
           /\ i > 1 => ledger'[i - 1].t < ledger'[i].t
    <2> SUFFICES ASSUME NEW i \in 1 .. n + 1
                 PROVE  /\ ledger'[i].t <= clock
                        /\ ledger'[i].before = ValueAt(ledger', i - 1)
                        /\ i > 1 => ledger'[i - 1].t < ledger'[i].t
      OBVIOUS
    <2>1. CASE i = n + 1
      <3>1. ledger'[i].t = clock /\ ledger'[i].before = v
        BY <1>6, <1>13, <2>1
      <3>2. clock <= clock /\ i - 1 = n
        BY <1>1, <2>1
      <3>3. v = ValueAt(ledger', i - 1)
        BY <1>7, <1>10, <3>2
      <3>4. i > 1 => ledger'[i - 1] = ledger[n] /\ ledger[n].t < clock
        BY <1>1, <1>4, <1>6, <2>1
      <3> QED
        BY <3>1, <3>2, <3>3, <3>4
    <2>2. CASE i \in 1 .. n
      <3>1. ledger'[i] = ledger[i] /\ i - 1 \in 0 .. n
        BY <1>1, <1>6, <2>2
      <3>2. /\ ledger[i].t <= clock
            /\ ledger[i].before = ValueAt(ledger, i - 1)
            /\ i > 1 => ledger[i - 1].t < ledger[i].t
        BY <1>1, <2>2 DEF LedgerForm
      <3>3. i > 1 => ledger'[i - 1] = ledger[i - 1]
        BY <1>1, <1>6, <2>2
      <3> QED
        BY <1>7, <3>1, <3>2, <3>3
    <2> QED
      BY <1>10, <2>1, <2>2
  <1>12. LedgerForm'
    <2>1. n + 1 <= MaxEntries
      BY <1>1, <1>4, GuardAssumption
    <2> QED
      BY <1>6, <1>11, <2>1 DEF LedgerForm
  <1> HIDE DEF n, v
  <1> QED
    BY <1>5, <1>6, <1>7, <1>8, <1>9, <1>12 DEF n, v

\* What a mined transaction leaves true of the calls and of the transactions
\* that wait.
LEMMA MinedForms ==
    ASSUME ChainInv, NEW move \in Int, NEW by \in {Outside} \cup [proposal : Proposals, seen : Nat],
           Mined(move, by), UNCHANGED <<clock, desk, shown, confirmed, byHand, work, calls>>,
           pool' \subseteq pool
    PROVE  DeskTypes' /\ LedgerForm' /\ CallsForm' /\ PoolForm'
  <1> DEFINE n == Len(ledger)
  <1>1. /\ LedgerForm' /\ Len(ledger') = n + 1
        /\ \A b \in 0 .. n : /\ ValueAt(ledger', b) = ValueAt(ledger, b)
                             /\ PointsOf(ledger', b) = PointsOf(ledger, b)
    BY MinedLedger
  <1>2. n \in Nat /\ CallsForm /\ PoolForm
    BY DEF ChainInv, LedgerForm
  <1>3. DeskTypes'
    BY DEF ChainInv, DeskTypes
  <1> HIDE DEF n
  <1>4. \A s : Captured(ledger, clock, s) => Captured(ledger', clock, s) /\ s.context.block \in 0 .. n
    <2> SUFFICES ASSUME NEW s, Captured(ledger, clock, s)
                 PROVE  Captured(ledger', clock, s) /\ s.context.block \in 0 .. n
      OBVIOUS
    <2>1. s.context.block \in Nat /\ s.context.block <= n
      BY GuardAssumption DEF Captured, Candidates, n
    <2>2. s.context.block \in 0 .. n /\ s.context.block <= Len(ledger')
      BY <1>1, <1>2, <2>1
    <2> QED
      BY <1>1, <2>2 DEF Captured
  <1>5. \A p, b, t, m : b \in 0 .. n /\ Judged(ledger, p, b, t, m) => Judged(ledger', p, b, t, m)
    BY <1>1 DEF Judged
  <1>6. CallsForm'
    <2>1. /\ DOMAIN calls' = Caller /\ calls' = calls /\ clock' = clock
      BY <1>2 DEF CallsForm
    <2>2. ASSUME NEW c \in Caller PROVE CallForm(ledger', clock, calls[c])
      BY <1>2, <1>4, <1>5 DEF CallsForm, CallForm
    <2> QED
      BY <2>1, <2>2 DEF CallsForm, CallForm
  <1>7. PoolForm'
    <2>1. ASSUME NEW tx \in pool PROVE TxForm(ledger', clock, tx)
      <3>1. TxForm(ledger, clock, tx) /\ tx.seen \in 0 .. n
        BY <1>2 DEF PoolForm, TxForm, n
      <3>2. tx.seen \in 0 .. Len(ledger')
        BY <1>1, <1>2, <3>1
      <3> QED
        BY <1>1, <1>5, <3>1, <3>2 DEF TxForm
    <2>2. clock' = clock
      OBVIOUS
    <2> QED
      BY <2>1, <2>2 DEF PoolForm, TxForm
  <1> QED
    BY <1>1, <1>3, <1>6, <1>7

\* The limits hold after a transaction is mined when they hold at the new entry.
LEMMA MinedLimits ==
    ASSUME ChainInv, NEW move \in Int, NEW by \in {Outside} \cup [proposal : Proposals, seen : Nat],
           Mined(move, by), clock' = clock,
           by # Outside /\ by.seen = Len(ledger) =>
               Judged(ledger, by.proposal, Len(ledger), clock, move)
    PROVE  LimitsHoldOnChain'
  <1> DEFINE n == Len(ledger)
  <1>1. n \in Nat /\ ledger \in Seq(Entry) /\ LimitsHoldOnChain
    BY DEF ChainInv, LedgerForm
  <1>2. /\ LedgerForm' /\ Len(ledger') = n + 1 /\ ledger'[n + 1].by = by
        /\ \A i \in 1 .. n : ledger'[i] = ledger[i]
        /\ \A b \in 0 .. n : PointsOf(ledger', b) = PointsOf(ledger, b)
        /\ PointsOf(ledger', n + 1)
              = Append(PointsOf(ledger, n), Point(clock, ValueAt(ledger, n), move))
    BY MinedLedger
  <1>3. ledger' \in Seq(Entry)
    BY <1>2 DEF LedgerForm
  <1>4. DOMAIN ledger' = 1 .. n + 1 /\ DOMAIN ledger = 1 .. n
    BY <1>1, <1>2, <1>3
  <1>5. \A b : Points(b)' = PointsOf(ledger', b) /\ Points(b) = PointsOf(ledger, b)
    BY DEF Points, PointsOf
  <1> HIDE DEF n
  <1>6. ASSUME NEW i \in 1 .. n + 1, ledger'[i].by # Outside, ledger'[i].by.seen = i - 1
        PROVE  Respects(ledger'[i].by.proposal.policy.invariants, PointsOf(ledger', i))
    <2>1. CASE i = n + 1
      <3>1. i - 1 = n
        BY <1>1, <2>1
      <3>2. Judged(ledger, by.proposal, n, clock, move)
        BY <1>2, <1>6, <2>1, <3>1 DEF n
      <3> QED
        BY <1>2, <2>1, <3>2 DEF Judged
    <2>2. CASE i \in 1 .. n
      <3>1. ledger'[i] = ledger[i] /\ PointsOf(ledger', i) = PointsOf(ledger, i)
        BY <1>1, <1>2, <2>2
      <3>2. Respects(ledger[i].by.proposal.policy.invariants, Points(i))
        BY <1>1, <1>4, <1>6, <2>2, <3>1 DEF LimitsHoldOnChain
      <3> QED
        BY <1>5, <3>1, <3>2
    <2> QED
      BY <1>1, <2>1, <2>2
  <1> QED
    BY <1>4, <1>5, <1>6 DEF LimitsHoldOnChain

LEMMA ChainOutside ==
    ASSUME ChainInv, NEW move \in Move, MoveOutside(move)
    PROVE  ChainInv'
  <1>1. /\ move \in Int /\ Outside \in {Outside} \cup [proposal : Proposals, seen : Nat]
        /\ Mined(move, Outside) /\ UNCHANGED <<clock, desk, shown, confirmed, byHand, work, calls>>
        /\ pool' \subseteq pool
    BY GuardAssumption DEF MoveOutside
  <1> QED
    BY <1>1, MinedForms, MinedLimits DEF ChainInv

\* A transaction judged at one time on a block is within the limits when it is
\* mined on that block later.
LEMMA JudgedLater ==
    ASSUME ChainInv, NEW tx \in pool, tx.seen = Len(ledger)
    PROVE  Judged(ledger, tx.proposal, Len(ledger), clock, tx.move)
  <1> DEFINE n == Len(ledger)
             v == ValueAt(ledger, n)
  <1>1. LedgerForm /\ n \in Nat /\ clock \in 0 .. MaxClock /\ PoolForm
    BY DEF ChainInv, LedgerForm, DeskTypes
  <1>2. /\ tx.move \in Int /\ tx.proposal \in Proposals /\ v + tx.move \in 0 .. MaxValue
    BY <1>1, GuardAssumption DEF PoolForm
  <1>3. PICK t \in 0 .. clock : Judged(ledger, tx.proposal, n, t, tx.move)
    BY <1>1 DEF PoolForm
  <1>4. t \in Nat /\ clock \in Nat /\ t <= clock /\ n \in 0 .. n /\ v + tx.move \in Nat
    BY <1>1, <1>2, GuardAssumption
  <1>5. tx.proposal.policy.invariants \in Seq(Limit)
    BY <1>2, PolicyTypes, FileForms
  <1> DEFINE x == Point(t, v, tx.move)
             y == Point(clock, v, tx.move)
  <1>6. x \in Values /\ y \in Values
    BY <1>1, <1>2, <1>4, MovedPoints
  <1>7. x.before = y.before /\ x.after = y.after /\ x.t <= y.t
    BY <1>4 DEF Point
  <1>8. PointsOf(ledger, n) \in Seq(Values)
    BY <1>1, <1>4, LedgerPoints
  <1>9. Respects(tx.proposal.policy.invariants, Append(PointsOf(ledger, n), x))
    BY <1>3 DEF Judged
  <1> HIDE DEF n, v, x, y
  <1>10. Respects(tx.proposal.policy.invariants, Append(PointsOf(ledger, n), y))
    BY <1>5, <1>6, <1>7, <1>8, <1>9, LaterIsEasier
  <1> QED
    BY <1>10 DEF Judged, n, v, y

LEMMA ChainMine ==
    ASSUME ChainInv, NEW tx \in pool, Mine(tx)
    PROVE  ChainInv'
  <1> DEFINE by == [proposal |-> tx.proposal, seen |-> tx.seen]
  <1>1. tx.move \in Move /\ tx.proposal \in Proposals /\ tx.seen \in 0 .. Len(ledger)
    BY DEF ChainInv, PoolForm
  <1>2. Len(ledger) \in Nat
    BY DEF ChainInv, LedgerForm
  <1>3. tx.move \in Int /\ by \in {Outside} \cup [proposal : Proposals, seen : Nat]
    BY <1>1, <1>2, GuardAssumption
  <1>4. /\ Mined(tx.move, by) /\ UNCHANGED <<clock, desk, shown, confirmed, byHand, work, calls>>
        /\ pool' \subseteq pool
    BY DEF Mine
  <1>5. by.seen = tx.seen /\ by.proposal = tx.proposal
    OBVIOUS
  <1> HIDE DEF by
  <1>6. by # Outside /\ by.seen = Len(ledger) =>
            Judged(ledger, by.proposal, Len(ledger), clock, tx.move)
    BY <1>5, JudgedLater
  <1> QED
    BY <1>3, <1>4, <1>6, MinedForms, MinedLimits DEF ChainInv

LEMMA ChainStep == ChainInv /\ [Next]_vars => ChainInv'
  <1> SUFFICES ASSUME ChainInv, [Next]_vars PROVE ChainInv'
    OBVIOUS
  <1>1. CASE UNCHANGED vars
    <2>1. UNCHANGED <<clock, ledger, desk, shown, confirmed, byHand, work, calls, pool>>
      BY <1>1 DEF vars
    <2>2. DeskTypes' /\ LedgerForm'
      BY <2>1 DEF ChainInv, DeskTypes, LedgerForm
    <2>3. CallsForm' /\ PoolForm'
      BY <2>1 DEF ChainInv, CallsForm, PoolForm
    <2>4. LimitsHoldOnChain'
      BY <2>1 DEF ChainInv, LimitsHoldOnChain, Points
    <2> QED
      BY <2>2, <2>3, <2>4 DEF ChainInv
  <1> QED
    BY <1>1, ChainWorkflow, ChainCall, ChainTick, ChainOutside, ChainMine DEF Next

\* A guarded transaction that is mined on the block its caller last saw leaves the
\* portfolio within every limit of the policy it was judged by, measured at its
\* real time over the whole ledger and not over the part the caller put into the
\* candidate; for any number of callers, policies, limits and moves
\* (pre-execution-gate.ts:166-194, evaluate_candidate.py:72-80).
THEOREM LimitsHold == Spec => []LimitsHoldOnChain
  <1>1. ChainInv => LimitsHoldOnChain
    BY DEF ChainInv
  <1> QED
    BY <1>1, ChainInit, ChainStep, PTL DEF Spec

LEMMA ChainTypes ==
    ASSUME ChainInv
    PROVE  TypeOK
  <1>1. DeskTypes /\ LedgerForm /\ CallsForm /\ PoolForm
    BY DEF ChainInv
  <1>2. \A i \in DOMAIN ledger : {ledger[i].before, ledger[i].after} \subseteq 0 .. MaxValue
    <2>1. \A i \in DOMAIN ledger : ledger[i] \in Entry
      BY <1>1 DEF LedgerForm
    <2> QED
      BY <2>1 DEF Entry
  <1>3. \A c \in Caller : calls[c].pc \in {"evaluating", "accepted", "current"}
                            => calls[c].snapshot \in Candidates
    BY <1>1 DEF CallsForm, Captured
  <1>4. \A tx \in pool : tx.move \in Move /\ tx.proposal \in Proposals
    BY <1>1 DEF PoolForm
  <1> QED
    BY <1>1, <1>2, <1>3, <1>4 DEF TypeOK, DeskTypes

\* Files, calls and transactions keep their shape and the value of the portfolio
\* its range (synthesis_models.py:35-138).
THEOREM GuardTypes == Spec => []TypeOK
  BY ChainInit, ChainStep, ChainTypes, PTL DEF Spec

-----------------------------------------------------------------------------
(* The recorded series.                                                    *)

\* Every prefix of the ledger is a well-formed series that starts at the value the
\* portfolio had.
LEMMA RecordedPoints ==
    ASSUME ChainInv, ledger # <<>>
    PROVE  /\ \A k \in 1 .. Len(ledger) : Points(k) \in Seq(Values) /\ Len(Points(k)) = k
           /\ \A k \in 1 .. Len(ledger) : \A i \in 1 .. k : Points(k)[i] = Points(Len(ledger))[i]
           /\ WellFormed(Points(Len(ledger))) /\ Points(Len(ledger)) # <<>> /\ Len(ledger) \in 1 .. Len(ledger)
           /\ Points(Len(ledger))[1].before = StartValue
  <1> DEFINE n == Len(ledger)
             p == Points(n)
  <1>1. LedgerForm /\ ledger \in Seq(Entry) /\ n \in Nat \ {0}
    BY DEF ChainInv, LedgerForm
  <1>2. \A k : Points(k) = PointsOf(ledger, k)
    BY DEF Points, PointsOf
  <1>3. \A k \in 1 .. n : k \in 0 .. n /\ \A i \in 1 .. k : i \in 1 .. n
    BY <1>1
  <1>4. \A k \in 1 .. n : /\ Points(k) \in Seq(Values) /\ Len(Points(k)) = k
                          /\ \A i \in 1 .. k : Points(k)[i] =
                               [t |-> ledger[i].t, before |-> ledger[i].before, after |-> ledger[i].after]
    BY <1>1, <1>2, <1>3, LedgerPoints
  <1>5. n \in 1 .. n /\ 1 \in 1 .. n
    BY <1>1
  <1>6. \A i \in 1 .. n : p[i] = [t |-> ledger[i].t, before |-> ledger[i].before, after |-> ledger[i].after]
    BY <1>4, <1>5
  <1>7. p \in Seq(Values) /\ Len(p) = n /\ p # <<>>
    BY <1>1, <1>4, <1>5
  <1>10. \A i \in 1 .. n : /\ p[i].t = ledger[i].t /\ p[i].before = ledger[i].before
                          /\ p[i].after = ledger[i].after
    <2> SUFFICES ASSUME NEW i \in 1 .. n
                 PROVE  /\ p[i].t = ledger[i].t /\ p[i].before = ledger[i].before
                        /\ p[i].after = ledger[i].after
      OBVIOUS
    <2> DEFINE e == ledger[i]
    <2>1. p[i] = [t |-> e.t, before |-> e.before, after |-> e.after]
      BY <1>6
    <2> HIDE DEF p, e
    <2>2. p[i].t = e.t /\ p[i].before = e.before /\ p[i].after = e.after
      BY <2>1
    <2> QED
      BY <2>2 DEF e
  <1>8. WellFormed(p)
    <2>1. \A i \in 1 .. n : p[i].t \in Nat /\ p[i].before \in Nat /\ p[i].after \in Nat
      BY <1>7, ValueFields
    <2>2. ASSUME NEW i \in 1 .. n, i > 1
          PROVE  p[i - 1].t < p[i].t /\ p[i - 1].after = p[i].before
      <3>1. i - 1 \in 1 .. n /\ i - 1 # 0
        BY <1>1, <2>2
      <3>2. ledger[i - 1].t < ledger[i].t /\ ledger[i].before = ValueAt(ledger, i - 1)
        BY <1>1, <2>2 DEF LedgerForm
      <3>3. ValueAt(ledger, i - 1) = ledger[i - 1].after
        BY <3>1 DEF ValueAt
      <3> QED
        BY <1>10, <2>2, <3>1, <3>2, <3>3
    <2> HIDE DEF p, n
    <2>3. \A i \in 1 .. n : p[i].t >= 0 /\ p[i].before >= 0 /\ p[i].after >= 0
      BY <2>1
    <2> QED
      BY <1>7, <2>2, <2>3 DEF WellFormed
  <1>9. p[1].before = StartValue
    <2>1. ledger[1].before = ValueAt(ledger, 1 - 1)
      BY <1>1, <1>5 DEF LedgerForm
    <2> QED
      BY <1>5, <1>10, <2>1 DEF ValueAt
  <1> QED
    BY <1>3, <1>4, <1>5, <1>6, <1>7, <1>8, <1>9

\* However much history is cut off, a candidate that gets a verdict gets that of
\* the whole ledger; and the fixture built for a policy gets one when the policy's
\* relative windows are no longer than its absolute ones
\* (evaluate_candidate.py:34-80, build_candidate_fixture.py:32-42).
THEOREM CoverageIsIrrelevant == Spec => []CoverageDoesNotMatter
  <1>1. ASSUME ChainInv PROVE CoverageDoesNotMatter
    <2> SUFFICES ASSUME ledger # <<>>, NEW policy \in Policy
                 PROVE  LET points == Points(Len(ledger))
                        IN  /\ \A coverage \in 0..LastPoint(points).t :
                                  JudgedAsWhole(policy, CutAt(policy.fork, points, coverage))
                            /\ CanBuildFixture(policy, policy.fork, points) =>
                                  LET fixture == BuildFixture(policy, policy.fork, points)
                                  IN  /\ JudgedAsWhole(policy, fixture)
                                      /\ FixtureSuffices(policy, fixture.coverage) =>
                                            EvaluateCandidate(policy, fixture) # "invalid"
      BY DEF CoverageDoesNotMatter
    <2> DEFINE points == Points(Len(ledger))
               end == LastPoint(points).t
    <2>1. points \in Seq(Values) /\ points # <<>> /\ WellFormed(points)
      BY <1>1, RecordedPoints
    <2>2. policy.invariants \in Seq(Limit)
      BY PolicyTypes
    <2>3. Len(points) \in 1 .. Len(points) /\ 1 \in 1 .. Len(points)
      BY <2>1
    <2>4. end \in Nat /\ end = ledger[Len(ledger)].t /\ points[1].t \in Nat
      <3>1. end \in Nat /\ points[1].t \in Nat
        BY <2>1, <2>3, ValueFields DEF LastPoint
      <3>2. Len(points) = Len(ledger) /\ Len(ledger) \in 1 .. Len(ledger)
        BY <1>1, RecordedPoints
      <3> QED
        BY <3>1, <3>2 DEF LastPoint, Points
    <2>5. ASSUME NEW coverage \in Nat, coverage <= end
          PROVE  JudgedAsWhole(policy, CutAt(policy.fork, points, coverage))
      <3> HIDE DEF points
      <3> QED
        BY <2>1, <2>2, <2>5, CutMeaning DEF JudgedAsWhole, points
    <2>6. ASSUME CanBuildFixture(policy, policy.fork, points)
          PROVE  LET fixture == BuildFixture(policy, policy.fork, points)
                 IN  /\ JudgedAsWhole(policy, fixture)
                     /\ FixtureSuffices(policy, fixture.coverage) =>
                           EvaluateCandidate(policy, fixture) # "invalid"
      <3> DEFINE start == FixtureStart(policy, points)
                 fixture == CutAt(policy.fork, points, start)
      <3>1. \E k \in DOMAIN policy.invariants : policy.invariants[k].kind = "lossCap"
        BY <2>6 DEF CanBuildFixture
      <3>2. points[1].t <= start
        BY <2>6 DEF CanBuildFixture
      <3>3. /\ start \in Int /\ start <= end
            /\ \A k \in DOMAIN policy.invariants : policy.invariants[k].kind = "lossCap" =>
                  end - policy.invariants[k].window >= start
        <4> HIDE DEF points
        <4> QED
          BY <2>1, <2>2, <3>1, FixtureReach
      <3> HIDE DEF start
      <3>4. start \in Nat
        BY <2>4, <3>2, <3>3
      <3>5. JudgedAsWhole(policy, fixture)
        BY <2>5, <3>3, <3>4
      <3>6. BuildFixture(policy, policy.fork, points) = fixture /\ fixture.coverage = start
        BY DEF BuildFixture, CutAt, start
      <3>7. ASSUME FixtureSuffices(policy, start)
            PROVE  EvaluateCandidate(policy, fixture) # "invalid"
        <4>1. \A k \in DOMAIN policy.invariants :
                 /\ policy.invariants[k].kind # "drawdown"
                 /\ policy.invariants[k].kind = "lossBps" =>
                       end - policy.invariants[k].window >= start
          BY <2>4, <3>7 DEF FixtureSuffices
        <4>2. \A k \in DOMAIN policy.invariants :
                 /\ policy.invariants[k].kind # "drawdown"
                 /\ Windowed(policy.invariants[k]) =>
                       end - policy.invariants[k].window >= start
          BY <3>3, <4>1 DEF Windowed
        <4> HIDE DEF points
        <4> QED
          BY <2>1, <2>2, <3>3, <3>4, <4>2, FixtureGetsVerdict
      <3> HIDE DEF fixture, points
      <3> QED
        BY <3>5, <3>6, <3>7
    <2>7. \A coverage \in 0 .. end : coverage \in Nat /\ coverage <= end
      BY <2>4
    <2> HIDE DEF points, end
    <2> QED
      BY <2>5, <2>6, <2>7 DEF points, end
  <1> QED
    BY <1>1, ChainInit, ChainStep, PTL DEF Spec

\* The offline verdict on the ledger is the verdict on each of its steps
\* (evaluate_invariants.py:209-279).
THEOREM SeriesSteps == Spec => []SeriesIsItsSteps
  <1>1. ASSUME ChainInv PROVE SeriesIsItsSteps
    <2> DEFINE points == Points(Len(ledger))
               prefix == [k \in 1 .. Len(ledger) |-> Points(k)]
               start == << [t |-> 0, before |-> StartValue, after |-> StartValue] >>
    <2> SUFFICES ASSUME ledger # <<>>, NEW policy \in Policy,
                        EvaluatePoints(policy.invariants, points, FALSE) # "invalid"
                 PROVE  EvaluatePoints(policy.invariants, points, FALSE) = "accepted" <=>
                          /\ \A k \in 1..Len(ledger) : Respects(policy.invariants, Points(k))
                          /\ Respects(policy.invariants, start)
      BY DEF SeriesIsItsSteps
    <2>1. points \in Seq(Values) /\ points # <<>> /\ Len(points) = Len(ledger)
      BY <1>1, RecordedPoints
    <2>2. policy.invariants \in Seq(Limit)
      BY PolicyTypes
    <2>3. Prefixes(points, prefix)
      BY <1>1, <2>1, RecordedPoints DEF Prefixes
    <2>4. Still(points, start)
      <3>1. StartValue \in Nat /\ points[1].before = StartValue
        BY <1>1, RecordedPoints, GuardAssumption
      <3> QED
        BY <3>1 DEF Still, Values
    <2>5. \A k \in 1 .. Len(points) : prefix[k] = Points(k)
      BY <2>1
    <2> HIDE DEF points, prefix, start
    <2> QED
      BY <2>1, <2>2, <2>3, <2>4, <2>5, JudgedSeries
  <1> QED
    BY <1>1, ChainInit, ChainStep, PTL DEF Spec

=============================================================================
