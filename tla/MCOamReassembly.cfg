\* Messages of up to three fragments, two at a time, in every interleaving and calm.
SPECIFICATION Spec
CONSTANTS
  s1 = s1
  s2 = s2
  s3 = s3
  SerNos = {s1, s2, s3}
  CliSerNos = {s2, s3}
  Nodes = {n1, n2}
  Timers = {t1, t2}
  Null = null
  MaxLen = 3
  AsyncDepth = 1
INVARIANTS
  ListSound
  OnlyRefusedLeak
  TimerIffIncomplete
  NeverUndefined
PROPERTIES
  MessagesEnd
\* It cuts behaviours that are not calm, of which MessagesEnd says nothing.
CONSTRAINT Followed
\* The model stops where the code goes on with freed memory.
CHECK_DEADLOCK FALSE
