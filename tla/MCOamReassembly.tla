--------------------------- MODULE MCOamReassembly ---------------------------
\* Instance of OamReassembly for TLC.
EXTENDS OamReassembly

CONSTANTS s1, s2, s3

\* Messages of three fragments race with those of one other serial number.
Small ==
  \/ calm
  \/ \A n \in Nodes : WholePktLen[n] =< 2
  \/ \A n \in Nodes : SendSerNo[n] # s3

\* No property says anything of what follows a handle gone astray, and none
\* goes astray when calm: a calm behaviour is never cut short.
Followed == ~astray /\ Small
=============================================================================
