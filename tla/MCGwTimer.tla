------------------------------ MODULE MCGwTimer ------------------------------
\* Instance of GwTimer for TLC.
EXTENDS GwTimer
=============================================================================
