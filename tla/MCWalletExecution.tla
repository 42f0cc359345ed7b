------------------------- MODULE MCWalletExecution -------------------------
EXTENDS WalletExecution, TLC

CONSTANTS t1, t2, p1, p2

\* The approval that may follow is stricter than the first, or the other way.
\* A transfer of 2 keeps the second floor only after tokens came in.
MCApproval == {[proposal |-> p1, floor |-> 1], [proposal |-> p2, floor |-> 2]}

=============================================================================
