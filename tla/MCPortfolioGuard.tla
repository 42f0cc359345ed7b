------------------------- MODULE MCPortfolioGuard -------------------------
(* A small instance of PortfolioGuard: a portfolio worth two, moves that    *)
(* lose one or two or win one, and policies with every kind of limit.       *)
EXTENDS PortfolioGuard, TLC

Floor(v) == [kind |-> "floor", floor |-> v]
Drawdown(reference, bps) == [kind |-> "drawdown", reference |-> reference, bps |-> bps]
LossCap(window, cap) == [kind |-> "lossCap", window |-> window, cap |-> cap]
LossBps(window, bps) == [kind |-> "lossBps", window |-> window, bps |-> bps]
Pinned(invariants) == [fork |-> "pinned", invariants |-> invariants]

MCMove == {-2, -1, 1}
MCClaim == {-1}

\* Two policies with the same kinds, so that one can stand in for the other.
MCOffered == {Pinned(<<LossCap(1, 2), LossBps(1, 5000)>>),
              Pinned(<<LossCap(1, 1), LossBps(1, 10000)>>)}

MCPolicy == MCOffered \cup {Pinned(<<Floor(1), Drawdown(2, 5000)>>),
                            Pinned(<<LossCap(1, 1), LossBps(2, 4000)>>)}

\* Approvals of a user that fit, or in which one field was changed.
MCWritten ==
    {file \in Approvals :
        /\ file.scope = "user"
        /\ \E p \in Proposals, field \in {"proposal", "proposalHash", "policyHash", "confirmation"} :
              file = [ApprovalOf(p, "user") EXCEPT ![field] = file[field]]}

MCSymmetry == Permutations(Caller)
=============================================================================
