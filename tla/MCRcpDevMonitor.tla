--------------------------- MODULE MCRcpDevMonitor ---------------------------
\* Instance of RcpDevMonitor for TLC.
EXTENDS RcpDevMonitor
=============================================================================
