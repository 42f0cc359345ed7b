----------------------- MODULE MCControlledExecution -----------------------
EXTENDS ControlledExecution, TLC

CONSTANTS wallet, token, alice, c1, c2, p1, p2, w1, w2

MCAddress == {wallet, token, alice}
MCChain == {c1, c2}
MCProposal == {p1, p2}
MCBlock == Seq(BlockBody)

Floor(p, ch, f) ==
    [proposalSha256 |-> p, policy |-> [chainId |-> ch, walletAddress |-> wallet,
        tokenAddress |-> token, assetBalanceFloor |-> f]]

Transfer(a, n, g) ==
    [approval |-> a, recipient |-> alice, amount |-> n, gas |-> g]

\* The wallet starts with 3 tokens and keeps 1: moving 2 is allowed, moving 3
\* breaks the floor, 1 with too little gas fails, 4 cannot be estimated.
OneWorkerRequests ==
    {Transfer(Floor(p1, c1, 1), 2, 0), Transfer(Floor(p1, c1, 1), 3, 2),
     Transfer(Floor(p1, c1, 1), 1, 1), Transfer(Floor(p1, c1, 1), 4, 0),
     Transfer(Floor(p1, c1, 1), 2, 2), Transfer(Floor(p2, c2, 1), 1, 2)}

TwoWorkerRequests == {Transfer(Floor(p1, c1, 1), 1, 2)}

=============================================================================
