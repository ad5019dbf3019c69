------------------------------ MODULE MCRcpVlan ------------------------------
\* Instance of RcpVlan for TLC.
EXTENDS RcpVlan

\* One port at a time: a list is done port by port.
Lists == {<<1>>, <<2>>}
=============================================================================
