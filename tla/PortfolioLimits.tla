-------------------------- MODULE PortfolioLimits --------------------------
(***************************************************************************)
(* The deterministic evaluator of the structured policies                  *)
(* (verifier/evaluate_invariants.py, evaluate_candidate.py): four kinds of *)
(* limit on a series of portfolio values, and the candidate trace, a       *)
(* truncated series whose last transition is the one under judgement.      *)
(*                                                                         *)
(* A point is [t, before, after]: the value of the portfolio around the    *)
(* transaction at time t.  A policy is a sequence of invariants.  A        *)
(* verdict is "accepted", "rejected", or "invalid" where the code raises.  *)
(***************************************************************************)
EXTENDS Integers, Sequences, FiniteSets, FiniteSetsExt

BpsScale == 10000

\* What a policy is made of; the fields are unsigned.
Limit == [kind : {"floor"}, floor : Nat]
           \cup [kind : {"drawdown"}, reference : Nat, bps : 0..BpsScale]
           \cup [kind : {"lossCap"}, window : Nat, cap : Nat]
           \cup [kind : {"lossBps"}, window : Nat, bps : 0..BpsScale]

\* Integers, non-negative, in strictly increasing time and continuous.
WellFormed(points) ==
    /\ points # <<>>
    /\ \A i \in 1..Len(points) :
          /\ points[i].t >= 0 /\ points[i].before >= 0 /\ points[i].after >= 0
          /\ i > 1 => /\ points[i - 1].t < points[i].t
                      /\ points[i - 1].after = points[i].before

---------------------------------------------------------------------------
(* One limit.  "last" is true when only the final point is judged.          *)

LastPoint(points) == points[Len(points)]

\* The values a floor or a drawdown cap looks at.
Observed(points, last) ==
    IF last THEN {LastPoint(points).after}
    ELSE {points[1].before} \cup {points[i].after : i \in 1..Len(points)}

FloorHolds(inv, points, last) == Min(Observed(points, last)) >= inv.floor

\* A drawdown is measured from the first point, which has to be the reference.
HasReference(inv, points) ==
    inv.kind = "drawdown" => points[1].before = inv.reference

DrawdownHolds(inv, points, last) ==
    Min(Observed(points, last)) * BpsScale >= inv.reference * (BpsScale - inv.bps)

Within_HalfOpen(points, window, last, start, end) ==  \* Faulty: excludes the boundary.
    /\ last => end = Len(points)
    /\ points[end].t - points[start].t < window

\* The window that ends with one point still contains the other, which came
\* before; the boundary is inside.
Within(points, window, last, start, end) ==
    /\ last => end = Len(points)
    /\ points[end].t - points[start].t <= window

Loss(points, start, end) == Max({0, points[start].before - points[end].after})

\* The pairs <<start, end>> that are looked at.
Windows(points, window, last) ==
    {w \in (1..Len(points)) \X (1..Len(points)) :
        w[1] <= w[2] /\ Within(points, window, last, w[1], w[2])}

LossCapHolds(inv, points, last) ==
    Max({Loss(points, w[1], w[2]) : w \in Windows(points, inv.window, last)}) <= inv.cap

RatioGreater_EmptyStays(a, b) ==  \* Faulty: nothing exceeds 0/0.
    IF b.denom = 0 THEN FALSE ELSE a.loss * b.denom > b.loss * a.denom

\* a.loss / a.denom > b.loss / b.denom without division; 0/0 is 0.
RatioGreater(a, b) ==
    /\ a.denom # 0
    /\ IF b.denom = 0 THEN a.loss > 0 ELSE a.loss * b.denom > b.loss * a.denom

\* first_candidate: no window was looked at, and any ratio is worse.
NoRatio == [loss |-> -1, denom |-> 0]

Worse(best, ratio) == IF best = NoRatio \/ RatioGreater(ratio, best) THEN ratio ELSE best

\* One turn of the inner loop: a window is looked at, or skipped.
Look(points, window, last, best, start, end) ==
    IF Within(points, window, last, start, end)
    THEN Worse(best, [loss |-> Loss(points, start, end), denom |-> points[start].before])
    ELSE best

\* The loop over the starts up to an end.
WorstUpTo(points, window, last, best, end) ==
    LET worst[start \in 0..end] ==
          IF start = 0 THEN best
          ELSE Look(points, window, last, worst[start - 1], start, end)
    IN  worst[end]

\* The loop over the ends around it keeps the worst ratio met so far.
WorstRatio(points, window, last) ==
    LET worst[end \in 0..Len(points)] ==
          IF end = 0 THEN NoRatio
          ELSE WorstUpTo(points, window, last, worst[end - 1], end)
    IN  worst[Len(points)]

LossBpsHolds(inv, points, last) ==
    LET worst == WorstRatio(points, inv.window, last)
    IN  worst.loss * BpsScale <= worst.denom * inv.bps

Holds(inv, points, last) ==
    /\ inv.kind = "floor"    => FloorHolds(inv, points, last)
    /\ inv.kind = "drawdown" => DrawdownHolds(inv, points, last)
    /\ inv.kind = "lossCap"  => LossCapHolds(inv, points, last)
    /\ inv.kind = "lossBps"  => LossBpsHolds(inv, points, last)

EvaluatePoints(invariants, points, last) ==
    IF \/ ~WellFormed(points)
       \/ \E i \in DOMAIN invariants : ~HasReference(invariants[i], points)
    THEN "invalid"
    ELSE IF \A i \in DOMAIN invariants : Holds(invariants[i], points, last)
         THEN "accepted" ELSE "rejected"

---------------------------------------------------------------------------
(* A candidate trace: [fork, coverage, initial, transitions].               *)

\* CandidateTrace._check_series; the last transition has the candidate's role.
CheckSeries(trace) ==
    /\ trace.transitions # <<>>
    /\ \A i \in 1..Len(trace.transitions) :
          LET now == trace.transitions[i]
          IN  /\ now.t >= trace.coverage
              /\ now.before = IF i = 1 THEN trace.initial
                              ELSE trace.transitions[i - 1].after
              /\ i > 1 => now.t > trace.transitions[i - 1].t

\* Coverage that starts before the first transition is a point of its own.
CandidatePoints(trace) ==
    (IF trace.coverage < trace.transitions[1].t
     THEN << [t |-> trace.coverage, before |-> trace.initial, after |-> trace.initial] >>
     ELSE <<>>) \o trace.transitions

Windowed(inv) == inv.kind \in {"lossCap", "lossBps"}

Covers_SkipsBps(invariants, trace) ==  \* Faulty: forgets the bps windows.
    \A i \in DOMAIN invariants : invariants[i].kind = "lossCap" =>
        LET start == LastPoint(trace.transitions).t - invariants[i].window
        IN  start >= 0 /\ trace.coverage <= start

\* The history reaches back over every loss window.
Covers(invariants, trace) ==
    \A i \in DOMAIN invariants : Windowed(invariants[i]) =>
        LET start == LastPoint(trace.transitions).t - invariants[i].window
        IN  start >= 0 /\ trace.coverage <= start

EvaluateCandidate(policy, trace) ==
    IF policy.fork = trace.fork /\ CheckSeries(trace) /\ Covers(policy.invariants, trace)
    THEN EvaluatePoints(policy.invariants, CandidatePoints(trace), TRUE)
    ELSE "invalid"

---------------------------------------------------------------------------
(* Cutting a candidate out of a recorded series (build_candidate_fixture).  *)

\* The series from a coverage start on; what came before is summed up in
\* the initial value.  The points are in the order of time.
CutAt(fork, points, coverage) ==
    LET first == Min({i \in 1..Len(points) : points[i].t >= coverage})
        selected == SubSeq(points, first, Len(points))
    IN  [fork |-> fork, coverage |-> coverage,
         initial |-> selected[1].before, transitions |-> selected]

\* Only the absolute loss caps have a say in where the fixture starts.
FixtureStart(policy, points) ==
    LastPoint(points).t - Max({inv.window : inv \in
        {i \in {policy.invariants[k] : k \in DOMAIN policy.invariants} : i.kind = "lossCap"}})

CanBuildFixture(policy, fork, points) ==
    /\ policy.fork = fork
    /\ \E k \in DOMAIN policy.invariants : policy.invariants[k].kind = "lossCap"
    /\ points[1].t <= FixtureStart(policy, points)

BuildFixture(policy, fork, points) == CutAt(fork, points, FixtureStart(policy, points))
=============================================================================
