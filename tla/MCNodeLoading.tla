---------------------------- MODULE MCNodeLoading ----------------------------
EXTENDS NodeLoading, TLC

\* Averages that are less than, equal to and more than what Self may have, and one that is
\* not a number.
MCPeerAverages ==
  {[sum |-> s, count |-> c] : <<s, c>> \in {<<0, 1>>, <<1, 1>>, <<1, 2>>, <<0, 0>>}}

PeerSymmetry == Permutations(Peers)

=============================================================================
