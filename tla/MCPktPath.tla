------------------------------ MODULE MCPktPath ------------------------------
\* Instance of PktPath for TLC.
EXTENDS PktPath
=============================================================================
