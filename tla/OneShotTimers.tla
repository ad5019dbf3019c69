---------------------------- MODULE OneShotTimers ----------------------------
(***************************************************************************)
(* What system/gw_timer.c gives a caller of gw_timer_add and gw_timer_del: *)
(* a timer is armed until it is due or deleted, and deleting an armed      *)
(* timer takes effect at once.  A timer that is due is called once; then   *)
(* it is freed, and its handle may name another timer, or, a circle timer, *)
(* armed again.  Deleting a timer that is not armed is undefined           *)
(* behaviour: the caller and the timer thread would both free it, or it is *)
(* freed already.  So is a callback that took longer than every one before *)
(* it, if its timer is free when the duration is recorded: as a once timer *)
(* always is, unless its address has been given out again.                 *)
(***************************************************************************)
EXTENDS Naturals

CONSTANTS
  Timers,     \* the addresses malloc may give a timer
  NoTimer     \* none

VARIABLES
  timer,      \* the state of the timer at each address
  took, past, \* the duration of the last callback and its timer, until it is recorded
  peek,       \* the longest duration recorded
  undefined   \* TRUE after a use of a timer that was freed

States == {"free", "armed", "due", "called"}
record == <<took, past, peek>>
vars == <<timer, record, undefined>>

Init ==
  /\ timer = [t \in Timers |-> "free"]
  /\ took = 0 /\ past = NoTimer /\ peek = 0
  /\ undefined = FALSE

Move(t, from, to) ==
  /\ ~undefined
  /\ timer[t] = from
  /\ timer' = [timer EXCEPT ![t] = to]
  /\ record' = record /\ UNCHANGED undefined

Add(t) == Move(t, "free", "armed")
Delete(t) == Move(t, "armed", "free")
Call(t) == Move(t, "due", "called")
Retire(t) == Move(t, "called", "free")
Rearm(t) == Move(t, "called", "armed")

\* The flags of a circle timer may save one deleted before it is called.
Discard(t) == Move(t, "due", "free")

\* One pass of the timer thread takes every timer that is due.
Expire(due) ==
  /\ ~undefined
  /\ \A t \in due : timer[t] = "armed"
  /\ timer' = [t \in Timers |-> IF t \in due THEN "due" ELSE timer[t]]
  /\ record' = record /\ UNCHANGED undefined

\* The callback of a timer ends, and its duration is recorded later.  A timer
\* added where a slow delete still frees the one before it shows as free.
Run(t) ==
  /\ ~undefined
  /\ timer[t] \in {"called", "free"}
  /\ took' \in Nat /\ past' = t
  /\ UNCHANGED <<timer, peek, undefined>>

Record ==
  /\ ~undefined
  /\ peek' = IF took > peek THEN took ELSE peek
  /\ took' = 0 /\ past' = NoTimer
  /\ UNCHANGED <<timer, undefined>>

\* What a use of a freed timer may leave.
Damage ==
  /\ undefined' = TRUE
  /\ timer' \in [Timers -> States]

BadDelete(t) ==
  /\ timer[t] # "armed"
  /\ Damage

BadRecord ==
  /\ took > peek
  /\ past \in Timers /\ timer[past] = "free"
  /\ Damage

\* Once undefined, anything.
Anything == undefined /\ Damage

Next ==
  \/ Anything \/ Record \/ BadRecord
  \/ \E t \in Timers : Add(t) \/ Delete(t) \/ Call(t) \/ Run(t) \/ Retire(t) \/ Rearm(t)
                           \/ Discard(t) \/ BadDelete(t)
  \/ \E due \in SUBSET Timers : Expire(due)

Spec == Init /\ [][Next]_vars
=============================================================================
