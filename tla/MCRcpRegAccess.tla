--------------------------- MODULE MCRcpRegAccess ---------------------------
\* Instance of RcpRegAccess for TLC.
EXTENDS RcpRegAccess, TLC

\* Threads and registers are interchangeable.
Symmetry == Permutations(Threads) \union Permutations(Regs)
=============================================================================
