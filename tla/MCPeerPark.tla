------------------------------ MODULE MCPeerPark ------------------------------
EXTENDS PeerPark

CONSTANTS p1, p2

\* Both patchers write the same page.
CodePage == <<"rx">>
SharedPage == [p \in Patchers |-> <<1>>]

\* One patcher that tries again and one that does not.
UnequalAttempts == [p \in Patchers |-> IF p = p1 THEN 2 ELSE 1]

=============================================================================
