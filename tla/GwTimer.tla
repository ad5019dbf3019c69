------------------------------- MODULE GwTimer -------------------------------
(***************************************************************************)
(* The software timers of system/gw_timer.c: gw_timer_add,                 *)
(* gw_circle_timer_add and gw_timer_del called from client threads, and    *)
(* the timer thread, which wakes every tick, moves the timers that are due *)
(* to its expire list under the mutex and then runs their callbacks        *)
(* without it.  A section under timer_mutex_id is one step; everything the *)
(* code does between two sections is a step of its own, so deleting a      *)
(* timer is five steps and the timer thread may run between any two.       *)
(*                                                                         *)
(* Time is counted in ticks.  A callback takes at most SlowTicks of them;  *)
(* delta carries the duration of one pass to the next one.  A callback     *)
(* that took longer than every one before is recorded with the type of its *)
(* timer, which is read after the timer may have been freed.  Where the    *)
(* code goes on to use freed memory or a list node of another list, the    *)
(* model sets undefined and stops.  gw_timer_stop, _start, _restart, _retiming   *)
(* and the message timers have no caller in the program and are left out.  *)
(***************************************************************************)
EXTENDS Integers, Sequences, FiniteSets

CONSTANTS
  Clients,    \* the threads that add and delete timers
  Timers,     \* the addresses malloc may give a timer
  NoTimer,    \* the NULL timer
  Intervals,  \* the intervals asked for, in ticks
  SlowTicks,  \* bound: the ticks one callback may take
  Deletable   \* the timer types clients delete

ASSUME TimerAssumption ==
  /\ NoTimer \notin Timers
  /\ Intervals \subseteq Nat \ {0}
  /\ SlowTicks \in Nat
  /\ Deletable \subseteq {"once", "circle"}

VARIABLES
  live,         \* the timers that are allocated
  timer_type, interval, remain_interval, stop_flag,   \* fields of gw_timer_t
  timer_list,   \* gw_timers.timer_list
  expire_list,  \* gw_timers.expire_timer_list
  delta,        \* gw_timers.delta
  spent,        \* ticks the current pass has taken
  tick_pc,      \* where the timer thread is
  cur,          \* pExpireTimer, being called back
  took, past,   \* cb_end_time - cb_begin_time, and pExpireTimer until it is measured
  peek,         \* gw_timers.callback_peek_time
  held,         \* held[c]: the handles client c may still delete
  pc, target,   \* where client c is in gw_timer_del, and of which timer
  found,        \* whether its gw_lookup_timer found the timer
  age,          \* history: ticks since the timer was put in timer_list
  ahead,        \* history: ticks that had gone by then and are yet to be taken off
  undefined     \* history: freed memory or a foreign node has been used

fields == <<timer_type, interval, remain_interval, stop_flag>>
threadVars == <<delta, spent, tick_pc, cur>>
clientVars == <<held, pc, target, found>>
ageVars == <<age, ahead>>
peekVars == <<took, past, peek>>
vars == <<live, fields, timer_list, expire_list, threadVars, clientVars, ageVars, peekVars, undefined>>

Listed == {timer_list[i] : i \in DOMAIN timer_list}
Expiring == {expire_list[i] : i \in DOMAIN expire_list} \union ({cur} \ {NoTimer})

\* What a walk along a list finds of S, in the order of the list.
Selected(list, S) ==
  LET sel[i \in 0 .. Len(list)] ==
        IF i = 0 THEN <<>>
        ELSE IF list[i] \in S THEN Append(sel[i - 1], list[i]) ELSE sel[i - 1]
  IN  sel[Len(list)]

Without(list, t) == Selected(list, Timers \ {t})

\* The ticks that have gone by and that the next pass will take off.
Pending == IF tick_pc \in {"delay", "tick"} THEN delta + (IF tick_pc = "tick" THEN 1 ELSE 0)
           ELSE spent
-----------------------------------------------------------------------------
\* gw_timer_init.
Init ==
  /\ live = {}
  /\ timer_type = [t \in Timers |-> "once"]
  /\ interval = [t \in Timers |-> 0]
  /\ remain_interval = [t \in Timers |-> 0]
  /\ stop_flag = [t \in Timers |-> "running"]
  /\ timer_list = <<>>
  /\ expire_list = <<>>
  /\ delta = 0 /\ spent = 0 /\ tick_pc = "delay" /\ cur = NoTimer
  /\ took = 0 /\ past = NoTimer /\ peek = 0
  /\ held = [c \in Clients |-> {}]
  /\ pc = [c \in Clients |-> "idle"]
  /\ target = [c \in Clients |-> NoTimer]
  /\ found = [c \in Clients |-> FALSE]
  /\ age = [t \in Timers |-> 0]
  /\ ahead = [t \in Timers |-> 0]
  /\ undefined = FALSE

\* The section of gw_start_timer that puts t in front of the first timer
\* that has longer to go.
InsertSorted(list, t, n) ==
  LET longer == {i \in DOMAIN list : remain_interval[list[i]] > n}
      place == IF longer = {} THEN Len(list) + 1
               ELSE CHOOSE i \in longer : \A j \in longer : i =< j
  IN  [i \in 1 .. Len(list) + 1 |->
         IF i < place THEN list[i] ELSE IF i = place THEN t ELSE list[i - 1]]

StartTimer(t, n) ==
  /\ remain_interval' = [remain_interval EXCEPT ![t] = n]
  /\ timer_list' = InsertSorted(timer_list, t, n)
  /\ age' = [age EXCEPT ![t] = 0]
  /\ ahead' = [ahead EXCEPT ![t] = Pending]

\* gw_timer_add and gw_circle_timer_add: the new timer is the caller's alone
\* until it is in the list.
Add(c, t, type, n) ==
  /\ pc[c] = "idle"
  /\ t \notin live
  /\ live' = live \union {t}
  /\ timer_type' = [timer_type EXCEPT ![t] = type]
  /\ interval' = [interval EXCEPT ![t] = n]
  /\ stop_flag' = [stop_flag EXCEPT ![t] = "running"]
  /\ StartTimer(t, n)
  /\ held' = [held EXCEPT ![c] = IF type \in Deletable THEN @ \union {t} ELSE @]
  /\ UNCHANGED <<expire_list, threadVars, pc, target, found, peekVars, undefined>>
-----------------------------------------------------------------------------
\* gw_timer_del: gw_stop_timer sets the flag, looks the timer up, and takes
\* it out of timer_list in a second section; gw_destroy_timer sets the flag,
\* looks the timer up again, and frees it if it is not in timer_list.
DelStep(c, from, to) ==
  /\ pc[c] = from
  /\ pc' = [pc EXCEPT ![c] = to]

SetFlag(t, flag) ==
  /\ undefined' = (t \notin live)
  /\ stop_flag' = [stop_flag EXCEPT ![t] = flag]

DelBegin(c, t) ==
  /\ t \in held[c]
  /\ DelStep(c, "idle", "stop")
  /\ target' = [target EXCEPT ![c] = t]
  /\ held' = [held EXCEPT ![c] = @ \ {t}]
  /\ SetFlag(t, "stopped")
  /\ UNCHANGED <<live, timer_type, interval, remain_interval, timer_list, expire_list,
                 threadVars, found, ageVars, peekVars>>

DelLookup(c) ==
  /\ found' = [found EXCEPT ![c] = target[c] \in Listed]
  /\ DelStep(c, "stop", IF target[c] \in Listed THEN "remove" ELSE "destroy")
  /\ UNCHANGED <<live, fields, timer_list, expire_list, threadVars, held, target, ageVars, peekVars, undefined>>

\* gw_lst_delete trusts its caller that the node is in the list.
DelRemove(c) ==
  /\ DelStep(c, "remove", "destroy")
  /\ undefined' = (target[c] \notin Listed)
  /\ timer_list' = Without(timer_list, target[c])
  /\ age' = [age EXCEPT ![target[c]] = 0]
  /\ ahead' = [ahead EXCEPT ![target[c]] = 0]
  /\ UNCHANGED <<live, fields, expire_list, threadVars, held, target, found, peekVars>>

DelDestroy(c) ==
  /\ DelStep(c, "destroy", "free")
  /\ SetFlag(target[c], "destroyed")
  /\ UNCHANGED <<live, timer_type, interval, remain_interval, timer_list, expire_list,
                 threadVars, held, target, found, ageVars, peekVars>>

DelFree(c) ==
  /\ DelStep(c, "free", "idle")
  /\ target' = [target EXCEPT ![c] = NoTimer]
  /\ found' = [found EXCEPT ![c] = FALSE]
  /\ IF target[c] \in Listed
     THEN UNCHANGED <<live, undefined>>
     ELSE /\ undefined' = (target[c] \notin live \/ target[c] \in Expiring)
          /\ live' = live \ {target[c]}
  /\ UNCHANGED <<fields, timer_list, expire_list, threadVars, held, ageVars, peekVars>>
-----------------------------------------------------------------------------
\* Time goes on in gw_thread_delay and in a callback: what is listed grows older.
Elapse(n) == age' = [t \in Timers |-> IF t \in Listed THEN age[t] + n ELSE age[t]]

Delay ==
  /\ tick_pc = "delay"
  /\ tick_pc' = "tick"
  /\ Elapse(1)
  /\ UNCHANGED <<live, fields, timer_list, expire_list, delta, spent, cur, clientVars, ahead, peekVars, undefined>>

\* Mutant of Decrement: due while two ticks are left.
DecrementEarly(r) == IF r < delta + 3 THEN 0 ELSE r - delta - 1

\* What one pass leaves of r: the duration of the last pass, then one tick.
Decrement(r) ==
  LET d == IF r < delta THEN 0 ELSE r - delta
  IN  IF d > 0 THEN d - 1 ELSE 0

\* The section of gw_process_timer that counts every timer down and moves
\* those that reach 0 to the expire list.
Tick ==
  LET Due(t) == Decrement(remain_interval[t]) < 1
      due == {t \in Timers : Due(t)}
  IN  /\ tick_pc = "tick"
      /\ tick_pc' = "expire"
      /\ remain_interval' = [t \in Timers |-> IF t \in Listed THEN Decrement(remain_interval[t])
                                              ELSE remain_interval[t]]
      /\ expire_list' = Selected(timer_list, due)
      /\ timer_list' = Selected(timer_list, Timers \ due)
      /\ age' = [t \in Timers |-> IF t \in Listed /\ t \in due THEN 0 ELSE age[t]]
      /\ ahead' = [t \in Timers |-> IF t \in Listed /\ t \in due THEN 0 ELSE ahead[t]]
      /\ spent' = 0
      /\ UNCHANGED <<live, timer_type, interval, stop_flag, delta, cur, clientVars, peekVars, undefined>>

\* Mutant of Take: gw_lst_first in place of gw_lst_get.
TakeFirst ==
  /\ tick_pc = "expire"
  /\ expire_list # <<>>
  /\ tick_pc' = "check"
  /\ cur' = Head(expire_list)
  /\ UNCHANGED <<live, fields, timer_list, expire_list, delta, spent, clientVars, ageVars, peekVars, undefined>>

\* The timer thread takes the expired timers one by one.
Take ==
  /\ tick_pc = "expire"
  /\ expire_list # <<>>
  /\ tick_pc' = "check"
  /\ cur' = Head(expire_list)
  /\ expire_list' = Tail(expire_list)
  /\ UNCHANGED <<live, fields, timer_list, delta, spent, clientVars, ageVars, peekVars, undefined>>

\* gw_timer_app_callback: a circle timer that was destroyed or stopped is
\* not called back.
CheckFlag ==
  /\ tick_pc = "check"
  /\ IF timer_type[cur] = "circle" /\ stop_flag[cur] # "running"
     THEN /\ live' = IF stop_flag[cur] = "destroyed" THEN live \ {cur} ELSE live
          /\ tick_pc' = "expire"
          /\ cur' = NoTimer
          /\ UNCHANGED stop_flag
     ELSE /\ stop_flag' = [stop_flag EXCEPT ![cur] = "running"]
          /\ tick_pc' = "call"
          /\ UNCHANGED <<live, cur>>
  /\ UNCHANGED <<timer_type, interval, remain_interval, timer_list, expire_list, delta, spent,
                 clientVars, ageVars, peekVars, undefined>>

\* The application's callback, which takes a while.
Call ==
  /\ tick_pc = "call"
  /\ tick_pc' = "finish"
  /\ \E n \in 0 .. SlowTicks : spent' = spent + n /\ took' = n /\ Elapse(n)
  /\ past' = cur
  /\ UNCHANGED <<live, fields, timer_list, expire_list, delta, cur, clientVars, ahead, peek, undefined>>

\* Mutant of FinishOnce: the timer is not freed.
FinishOnceKept ==
  /\ tick_pc = "finish"
  /\ timer_type[cur] = "once"
  /\ tick_pc' = "measure"
  /\ cur' = NoTimer
  /\ UNCHANGED <<live, fields, timer_list, expire_list, delta, spent, clientVars, ageVars, peekVars, undefined>>

\* After the callback a once timer is destroyed and a circle timer started
\* again: the flag first, then the list.
FinishOnce ==
  /\ tick_pc = "finish"
  /\ timer_type[cur] = "once"
  /\ tick_pc' = "measure"
  /\ cur' = NoTimer
  /\ live' = live \ {cur}
  /\ stop_flag' = [stop_flag EXCEPT ![cur] = "destroyed"]
  /\ UNCHANGED <<timer_type, interval, remain_interval, timer_list, expire_list, delta, spent,
                 clientVars, ageVars, peekVars, undefined>>

FinishCircle ==
  /\ tick_pc = "finish"
  /\ timer_type[cur] = "circle"
  /\ tick_pc' = "start"
  /\ stop_flag' = [stop_flag EXCEPT ![cur] = "running"]
  /\ UNCHANGED <<live, timer_type, interval, remain_interval, timer_list, expire_list, delta, spent,
                 cur, clientVars, ageVars, peekVars, undefined>>

\* Mutant of Restart: the timer is not put back in the list.
RestartMissing ==
  /\ tick_pc = "start"
  /\ tick_pc' = "measure"
  /\ cur' = NoTimer
  /\ UNCHANGED <<live, fields, timer_list, expire_list, delta, spent, clientVars, ageVars, peekVars, undefined>>

Restart ==
  /\ tick_pc = "start"
  /\ tick_pc' = "measure"
  /\ cur' = NoTimer
  /\ StartTimer(cur, interval[cur])
  /\ UNCHANGED <<live, timer_type, interval, stop_flag, expire_list, delta, spent, clientVars, peekVars, undefined>>

\* Back in gw_process_timer: if the callback was the longest so far, the
\* timer is read, which it has freed itself, or a client may have since.
Measure ==
  /\ tick_pc = "measure"
  /\ tick_pc' = "expire"
  /\ undefined' = (took > peek /\ past \notin live)
  /\ peek' = IF took > peek THEN took ELSE peek
  /\ took' = 0 /\ past' = NoTimer
  /\ UNCHANGED <<live, fields, timer_list, expire_list, delta, spent, cur, clientVars, ageVars>>

\* Mutant of EndPass: the duration of the pass is forgotten.
EndPassNoDelta ==
  /\ tick_pc = "expire"
  /\ expire_list = <<>>
  /\ tick_pc' = "delay"
  /\ spent' = 0
  /\ UNCHANGED <<live, fields, timer_list, expire_list, delta, cur, clientVars, ageVars, peekVars, undefined>>

\* The pass ends; its duration is taken off every timer by the next one.
EndPass ==
  /\ tick_pc = "expire"
  /\ expire_list = <<>>
  /\ tick_pc' = "delay"
  /\ delta' = spent
  /\ spent' = 0
  /\ UNCHANGED <<live, fields, timer_list, expire_list, cur, clientVars, ageVars, peekVars, undefined>>

TimerThread ==
  Delay \/ Tick \/ Take \/ CheckFlag \/ Call \/ FinishOnce \/ FinishCircle \/ Restart
  \/ Measure \/ EndPass

Delete(c) == DelLookup(c) \/ DelRemove(c) \/ DelDestroy(c) \/ DelFree(c)

Client(c) ==
  \/ \E t \in Timers, type \in {"once", "circle"}, n \in Intervals : Add(c, t, type, n)
  \/ \E t \in Timers : DelBegin(c, t)
  \/ Delete(c)

Next == ~undefined /\ (TimerThread \/ \E c \in Clients : Client(c))

SafeSpec == Init /\ [][Next]_vars
Spec == SafeSpec /\ WF_vars(~undefined /\ TimerThread) /\ \A c \in Clients : WF_vars(~undefined /\ Delete(c))
-----------------------------------------------------------------------------
\* Every field and list holds values of its kind.
TypeOK ==
  /\ live \subseteq Timers
  /\ timer_type \in [Timers -> {"once", "circle"}]
  /\ interval \in [Timers -> Intervals \union {0}]
  /\ remain_interval \in [Timers -> Nat]
  /\ stop_flag \in [Timers -> {"running", "stopped", "destroyed"}]
  /\ timer_list \in Seq(Timers) /\ expire_list \in Seq(Timers)
  /\ delta \in Nat /\ spent \in Nat /\ age \in [Timers -> Nat] /\ ahead \in [Timers -> Nat]
  /\ tick_pc \in {"delay", "tick", "expire", "check", "call", "finish", "start", "measure"}
  /\ cur \in Timers \union {NoTimer} /\ past \in Timers \union {NoTimer}
  /\ took \in Nat /\ peek \in Nat
  /\ held \in [Clients -> SUBSET Timers]
  /\ pc \in [Clients -> {"idle", "stop", "remove", "destroy", "free"}]
  /\ target \in [Clients -> Timers \union {NoTimer}]
  /\ found \in [Clients -> BOOLEAN]
  /\ undefined \in BOOLEAN

\* An allocated timer is in exactly one of timer_list, the expire list and
\* the timer thread's hands, or in those of a client deleting it; so none is
\* leaked, none is listed twice and no list holds a freed one
\* (gw_process_timer, gw_start_timer, gw_destroy_timer).
OnePlace ==
  ~undefined =>
    /\ Cardinality(Listed) = Len(timer_list)
    /\ Cardinality(Expiring) = Len(expire_list) + (IF cur = NoTimer THEN 0 ELSE 1)
    /\ Listed \intersect Expiring = {}
    /\ Listed \union Expiring \subseteq live
    /\ live \subseteq Listed \union Expiring \union {target[c] : c \in Clients}

\* No timer falls behind: what slow callbacks cost a listed timer is taken
\* off again by delta (gw_process_timer), so it is due when its interval is over.
NeverLate ==
  \A t \in Listed : remain_interval[t] + age[t] =< interval[t] + Pending

\* A timer is not taken off for expiry before its interval has passed, but for
\* the ticks of a pass that had gone by when it was started: delta takes these off
\* it too (gw_process_timer), so it comes early by these, and by no more.
NeverEarly ==
  [][\A t \in Timers : (t \in Listed /\ tick_pc = "tick" /\ tick_pc' = "expire"
                        /\ t \notin Listed') => age[t] + ahead[t] >= interval[t]]_vars

\* Between add and delete the lists, the two sections of a delete and the
\* steps of an expiry look like one state per timer, and undefined behaviour
\* comes only from deleting a timer that is not armed, or from a callback that
\* took longer than every one before it, whose timer is freed when it is measured
\* (gw_timer_del, gw_process_timer).
TimerState(t) ==
  LET deleted == \E c \in Clients : target[c] = t /\ found[c] /\ pc[c] \in {"destroy", "free"}
  IN  IF t \notin live \/ deleted THEN "free"
      ELSE IF cur = t /\ tick_pc # "check" THEN "called"
      ELSE IF t \in Listed \ Expiring THEN "armed"
      ELSE "due"

timer == [t \in Timers |-> TimerState(t)]

Abstract == INSTANCE OneShotTimers

ImplementsOneShotTimers == Abstract!Spec

\* Every once timer is deleted or called back, and freed.
OnceTimersEnd ==
  \A t \in Timers : (t \in live /\ timer_type[t] = "once") ~> (t \notin live \/ undefined)

\* A circle timer is called back again and again until it is deleted, which
\* a client that kept the handle of an earlier timer at its address may do.
CirclesGoOn ==
  \A t \in Timers : (t \in live /\ timer_type[t] = "circle")
                     ~> (t \notin live \/ undefined \/ (tick_pc = "call" /\ cur = t))

\* What a client may wait for: that its once timers end and its circle timers
\* go on (gw_timer_app_callback).
TimersAreServed == OnceTimersEnd /\ CirclesGoOn
=============================================================================
