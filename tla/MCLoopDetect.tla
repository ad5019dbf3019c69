---------------------------- MODULE MCLoopDetect ----------------------------
EXTENDS LoopDetect
MCWake == {[wait |-> 2, max |-> 1]}
=============================================================================
