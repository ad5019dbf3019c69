------------------------------ MODULE PriQueue ------------------------------
(***************************************************************************)
(* What the OSAL priority queue of system/gw_os_api_core.c promises to its *)
(* users: several threads put messages, each with a priority, and one      *)
(* thread gets them.  Within a priority the order of the puts is kept, no  *)
(* message is lost, duplicated or invented, and a get never settles for a  *)
(* priority below the best one that was queued when the get began.  (It    *)
(* need not return the best one queued when it ends: a message may arrive  *)
(* above the point the get has already looked at.)                         *)
(***************************************************************************)
EXTENDS Naturals, Sequences

CONSTANTS
  PriNum,      \* number of priorities; a larger index is more urgent
  Capacity,    \* most messages one priority ever holds
  Message,     \* the messages that may be put
  NoMessage    \* what a get holds before it has found anything

VARIABLES
  pending,     \* pending[pri]: the messages queued at pri, oldest first
  floor,       \* best priority queued when the get began, PriNum when none runs
  result       \* what the last get returned

vars == <<pending, floor, result>>

Pri == 0 .. PriNum - 1

Init ==
  /\ pending = [pri \in Pri |-> <<>>]
  /\ floor = PriNum
  /\ result = NoMessage

Put(pri, msg) ==
  /\ Len(pending[pri]) < Capacity
  /\ pending' = [pending EXCEPT ![pri] = Append(@, msg)]
  /\ UNCHANGED <<floor, result>>

BeginGet ==
  /\ floor = PriNum
  /\ \E best \in Pri :
       /\ pending[best] # <<>>
       /\ \A pri \in Pri : pri > best => pending[pri] = <<>>
       /\ floor' = best
  /\ result' = NoMessage
  /\ UNCHANGED pending

EndGet ==
  /\ floor # PriNum
  /\ \E pri \in floor .. PriNum - 1 :
       /\ pending[pri] # <<>>
       /\ result' = Head(pending[pri])
       /\ pending' = [pending EXCEPT ![pri] = Tail(@)]
  /\ floor' = PriNum

Next ==
  \/ \E pri \in Pri, msg \in Message : Put(pri, msg)
  \/ BeginGet
  \/ EndGet

SafeSpec == Init /\ [][Next]_vars

Spec == SafeSpec /\ WF_vars(BeginGet) /\ WF_vars(EndGet)
=============================================================================
