------------------------- MODULE MCCandidateReview -------------------------
EXTENDS CandidateReview, TLC

CONSTANTS wallet, token, alice, c1, c2, b1, p1, p2, p3

MCAddress == {wallet, token, alice}
MCChain == {c1, c2}
MCBlock == {b1}
MCProposal == {p1, p2, p3}

\* Two floors on the right chain, one approval for the wrong chain.
MCApprovals ==
    {[proposalSha256 |-> p, policy |-> [chainId |-> ch, walletAddress |-> wallet,
        tokenAddress |-> token, assetBalanceFloor |-> f]] :
            <<p, ch, f>> \in {<<p1, c1, 1>>, <<p2, c1, 2>>, <<p3, c2, 1>>}}

=============================================================================
