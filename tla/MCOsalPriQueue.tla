--------------------------- MODULE MCOsalPriQueue ---------------------------
\* Instance of OsalPriQueue for TLC.
EXTENDS OsalPriQueue
=============================================================================
