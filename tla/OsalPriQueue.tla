---------------------------- MODULE OsalPriQueue ----------------------------
(***************************************************************************)
(* The priority message queue of the OSAL (system/gw_os_api_core.c,        *)
(* gw_pri_queue_create, _put and _get): one list and one mutex for each    *)
(* priority and one counting semaphore for the whole queue.  Producers are *)
(* the threads that put (driver receive, timer, CLI and OAM threads); each *)
(* queue of the program has exactly one thread that gets, Consumer.        *)
(*                                                                         *)
(* A put is five steps: the depth check, which reads the list without its  *)
(* mutex, then lock, add, unlock and post.  A get waits for the semaphore, *)
(* walks the priorities downwards reading each count without a mutex, and  *)
(* locks only the list it takes from.  The statistics (put_error,          *)
(* peek_value and the like) decide nothing and are left out.               *)
(***************************************************************************)
EXTENDS Naturals, Sequences, FiniteSets

CONSTANTS
  Producers,   \* the threads that put
  Consumer,    \* the thread that gets
  NoThread,    \* owner of a mutex nobody holds
  PriNum,      \* pri_num
  Depth,       \* depth, checked for each priority separately
  MaxPuts      \* bound: number of puts each producer attempts

ASSUME QueueAssumption ==
  /\ IsFiniteSet(Producers)
  /\ Consumer \notin Producers
  /\ NoThread \notin Producers \union {Consumer}
  /\ PriNum \in Nat \ {0}
  /\ Depth \in Nat \ {0}
  /\ MaxPuts \in Nat

VARIABLES
  queue_list,   \* queue_list[pri]: the messages queued at pri
  queue_mutex,  \* queue_mutex[pri]: the thread that holds the mutex of pri
  cnt_sem,      \* value of the counting semaphore
  put_pc,       \* where each producer is in gw_pri_queue_put
  put_pri,      \* the priority it puts at
  put_no,       \* how many puts it has begun: the number of its message
  get_pc,       \* where the consumer is in gw_pri_queue_get
  get_i,        \* the loop variable i of gw_pri_queue_get
  pbuf,         \* the local pbuf of gw_pri_queue_get
  get_error,    \* gets that failed although they had taken a token
  get_floor,    \* history: best priority queued when the token was taken
  got           \* history: the messages delivered

putVars == <<put_pc, put_pri, put_no>>
getVars == <<get_pc, get_i, pbuf, get_error, get_floor, got>>
queueVars == <<queue_list, queue_mutex, cnt_sem, putVars, getVars>>

Pri == 0 .. PriNum - 1
Threads == Producers \union {Consumer}

\* A message is named by its producer, its number there and its priority.
Message == [from : Producers, no : 1 .. MaxPuts, pri : Pri]
NullBuf == [from |-> NoThread, no |-> 0, pri |-> 0]

PutMessage(p) == [from |-> p, no |-> put_no[p], pri |-> put_pri[p]]
-----------------------------------------------------------------------------
\* gw_pri_queue_create: empty lists, free mutexes, semaphore at 0.
QueueInit ==
  /\ queue_list = [pri \in Pri |-> <<>>]
  /\ queue_mutex = [pri \in Pri |-> NoThread]
  /\ cnt_sem = 0
  /\ put_pc = [p \in Producers |-> "idle"]
  /\ put_pri = [p \in Producers |-> 0]
  /\ put_no = [p \in Producers |-> 0]
  /\ get_pc = "idle"
  /\ get_i = 0
  /\ pbuf = NullBuf
  /\ get_error = 0
  /\ get_floor = PriNum
  /\ got = {}

\* gw_mutex_lock and gw_mutex_unlock on the mutex of one priority.
Lock(pri, t) ==
  /\ queue_mutex[pri] = NoThread
  /\ queue_mutex' = [queue_mutex EXCEPT ![pri] = t]

Unlock(pri) == queue_mutex' = [queue_mutex EXCEPT ![pri] = NoThread]

PutStep(p, from, to) ==
  /\ put_pc[p] = from
  /\ put_pc' = [put_pc EXCEPT ![p] = to]

GetStep(from, to) ==
  /\ get_pc = from
  /\ get_pc' = to
-----------------------------------------------------------------------------
\* Mutant of PutBegin: the depth check lets one message too many through.
PutBeginOffByOne(p, pri) ==
  /\ put_no[p] < MaxPuts
  /\ Len(queue_list[pri]) =< Depth
  /\ PutStep(p, "idle", "checked")
  /\ put_pri' = [put_pri EXCEPT ![p] = pri]
  /\ put_no' = [put_no EXCEPT ![p] = @ + 1]
  /\ UNCHANGED <<queue_list, queue_mutex, cnt_sem, getVars>>

\* Mutant of PutUnlock: the mutex is kept.
PutUnlockMissing(p) ==
  /\ PutStep(p, "added", "unlocked")
  /\ UNCHANGED <<queue_list, queue_mutex, cnt_sem, put_pri, put_no, getVars>>

\* The argument and depth checks, the count read without the mutex, and the
\* malloc of the node: a full list or no memory ends the put with an error.
PutBegin(p, pri) ==
  /\ put_no[p] < MaxPuts
  /\ \E to \in IF Len(queue_list[pri]) >= Depth THEN {"idle"} ELSE {"idle", "checked"} :
       PutStep(p, "idle", to)
  /\ put_pri' = [put_pri EXCEPT ![p] = pri]
  /\ put_no' = [put_no EXCEPT ![p] = @ + 1]
  /\ UNCHANGED <<queue_list, queue_mutex, cnt_sem, getVars>>

PutLock(p) ==
  /\ PutStep(p, "checked", "locked")
  /\ Lock(put_pri[p], p)
  /\ UNCHANGED <<queue_list, cnt_sem, put_pri, put_no, getVars>>

PutAdd(p) ==
  /\ PutStep(p, "locked", "added")
  /\ queue_list' = [queue_list EXCEPT ![put_pri[p]] = Append(@, PutMessage(p))]
  /\ UNCHANGED <<queue_mutex, cnt_sem, put_pri, put_no, getVars>>

PutUnlock(p) ==
  /\ PutStep(p, "added", "unlocked")
  /\ Unlock(put_pri[p])
  /\ UNCHANGED <<queue_list, cnt_sem, put_pri, put_no, getVars>>

PutPost(p) ==
  /\ PutStep(p, "unlocked", "idle")
  /\ cnt_sem' = cnt_sem + 1
  /\ UNCHANGED <<queue_list, queue_mutex, put_pri, put_no, getVars>>
-----------------------------------------------------------------------------
\* The most urgent priority that has a message, PriNum when none has.
BestQueued ==
  IF \A pri \in Pri : queue_list[pri] = <<>> THEN PriNum
  ELSE CHOOSE best \in Pri :
         /\ queue_list[best] # <<>>
         /\ \A pri \in Pri : pri > best => queue_list[pri] = <<>>

\* Mutant of GetWait: the token is not consumed.
GetWaitKeepsToken ==
  /\ GetStep("idle", "scan")
  /\ cnt_sem > 0
  /\ get_i' = PriNum - 1
  /\ pbuf' = NullBuf
  /\ get_floor' = BestQueued
  /\ UNCHANGED <<queue_list, queue_mutex, cnt_sem, putVars, get_error, got>>

\* gw_semaphore_wait(.., GW_OSAL_WAIT_FOREVER) returns with a token.
GetWait ==
  /\ GetStep("idle", "scan")
  /\ cnt_sem > 0
  /\ cnt_sem' = cnt_sem - 1
  /\ get_i' = PriNum - 1
  /\ pbuf' = NullBuf
  /\ get_floor' = BestQueued
  /\ UNCHANGED <<queue_list, queue_mutex, putVars, get_error, got>>

\* One turn of the loop whose list looks empty; after the last the get fails.
GetSkip ==
  /\ queue_list[get_i] = <<>>
  /\ GetStep("scan", IF get_i = 0 THEN "idle" ELSE "scan")
  /\ get_i' = IF get_i = 0 THEN 0 ELSE get_i - 1
  /\ get_error' = IF get_i = 0 THEN get_error + 1 ELSE get_error
  /\ UNCHANGED <<queue_list, queue_mutex, cnt_sem, putVars, pbuf, get_floor, got>>

GetFound ==
  /\ queue_list[get_i] # <<>>
  /\ GetStep("scan", "found")
  /\ UNCHANGED <<queue_list, queue_mutex, cnt_sem, putVars, get_i, pbuf, get_error,
                 get_floor, got>>

GetLock ==
  /\ GetStep("found", "locked")
  /\ Lock(get_i, Consumer)
  /\ UNCHANGED <<queue_list, cnt_sem, putVars, get_i, pbuf, get_error, get_floor, got>>

\* gw_lst_get: cuts the first node off, or returns NULL on an empty list.
GetTake ==
  /\ GetStep("locked", "taken")
  /\ pbuf' = IF queue_list[get_i] = <<>> THEN NullBuf ELSE Head(queue_list[get_i])
  /\ queue_list' = [queue_list EXCEPT ![get_i] = IF @ = <<>> THEN @ ELSE Tail(@)]
  /\ get_floor' = PriNum
  /\ UNCHANGED <<queue_mutex, cnt_sem, putVars, get_i, get_error, got>>

GetUnlock ==
  /\ GetStep("taken", "copy")
  /\ Unlock(get_i)
  /\ UNCHANGED <<queue_list, cnt_sem, putVars, get_i, pbuf, get_error, get_floor, got>>

\* The message is read through pbuf and copied out; the node is freed.
GetReturn ==
  /\ GetStep("copy", "idle")
  /\ got' = got \union {pbuf}
  /\ UNCHANGED <<queue_list, queue_mutex, cnt_sem, putVars, get_i, pbuf, get_error,
                 get_floor>>
-----------------------------------------------------------------------------
Put(p) ==
  \/ \E pri \in Pri : PutBegin(p, pri)
  \/ PutLock(p)
  \/ PutAdd(p)
  \/ PutUnlock(p)
  \/ PutPost(p)

Get ==
  \/ GetWait
  \/ GetSkip
  \/ GetFound
  \/ GetLock
  \/ GetTake
  \/ GetUnlock
  \/ GetReturn

QueueNext == Get \/ \E p \in Producers : Put(p)

\* Every thread that can run is scheduled, and a mutex that keeps being released
\* is granted to each thread waiting for it; nobody is obliged to begin a put.
Fairness ==
  /\ WF_queueVars(Get) /\ SF_queueVars(GetLock)
  /\ \A p \in Producers :
       /\ SF_queueVars(PutLock(p))
       /\ WF_queueVars(PutAdd(p) \/ PutUnlock(p) \/ PutPost(p))

QueueSafeSpec == QueueInit /\ [][QueueNext]_queueVars
QueueSpec == QueueSafeSpec /\ Fairness
-----------------------------------------------------------------------------
(* Properties *)

\* Every variable keeps its shape.
QueueTypeOK ==
  /\ queue_list \in [Pri -> Seq(Message)]
  /\ queue_mutex \in [Pri -> Threads \union {NoThread}]
  /\ cnt_sem \in Nat
  /\ put_pc \in [Producers -> {"idle", "checked", "locked", "added", "unlocked"}]
  /\ put_pri \in [Producers -> Pri]
  /\ put_no \in [Producers -> 0 .. MaxPuts]
  /\ get_pc \in {"idle", "scan", "found", "locked", "taken", "copy"}
  /\ get_i \in Pri
  /\ pbuf \in Message \union {NullBuf}
  /\ get_error \in Nat
  /\ get_floor \in Pri \union {PriNum}
  /\ got \subseteq Message \union {NullBuf}

\* One element for each queued message.
Slots == UNION {{pri} \X (1 .. Len(queue_list[pri])) : pri \in Pri}

\* Producers whose message is in a list and not yet announced by a post.
Posting == {p \in Producers : put_pc[p] \in {"added", "unlocked"}}

\* The consumer has taken a token and not yet a message.
Holding == get_pc \in {"scan", "found", "locked"}

\* Producers that passed the depth check of a priority and have not added yet.
Committed(pri) ==
  {p \in Producers : put_pc[p] \in {"checked", "locked"} /\ put_pri[p] = pri}

\* Threads between the lock and the unlock of a priority's mutex.
InList(pri) ==
  {p \in Producers : put_pc[p] \in {"locked", "added"} /\ put_pri[p] = pri}
    \union {t \in {Consumer} : get_pc \in {"locked", "taken"} /\ get_i = pri}

\* gw_lst_add and gw_lst_get rewrite the links of a list in several stores: no
\* two threads are ever inside the list of one priority (which is also what
\* lets PutAdd and GetTake be single steps here).
ListsExclusive ==
  \A pri \in Pri : \A t, u \in InList(pri) : t = u

\* The semaphore never promises a message that is not there: the queued
\* messages are the tokens, the messages about to be announced, and the one
\* the consumer already holds a token for (gw_pri_queue_put posts after the
\* add, gw_pri_queue_get waits before the scan).
TokensMatchMessages ==
  Cardinality(Slots) = cnt_sem + Cardinality(Posting) + (IF Holding THEN 1 ELSE 0)

\* A get that took a token comes back with a message: it neither runs off the
\* end of the unlocked scan nor reads through the NULL that gw_lst_get returns
\* on an empty list.
GetFindsMessage ==
  /\ get_error = 0
  /\ get_pc \in {"taken", "copy"} => pbuf # NullBuf

\* The depth check is not atomic with the add: it bounds each list by the
\* depth plus the producers that can be between the two, not by the depth.
DepthOvershootBounded ==
  \A pri \in Pri : Len(queue_list[pri]) + Cardinality(Committed(pri))
                     =< Depth + Cardinality(Producers) - 1

\* The messages of one producer at one priority are queued in the order they
\* were put, and behind those already delivered.
FifoPerProducer ==
  \A pri \in Pri : \A k \in 1 .. Len(queue_list[pri]) :
    LET m == queue_list[pri][k]
    IN  /\ \A j \in 1 .. k - 1 : queue_list[pri][j].from = m.from
                                   => queue_list[pri][j].no < m.no
        /\ \A d \in got : d.from = m.from /\ d.pri = pri => d.no < m.no

\* gw_pri_queue_put and gw_pri_queue_get implement the abstract queue: no loss,
\* no duplicate, order kept within a priority, and a get that never settles for
\* less than the best priority queued when it took its token.
AbstractQueue == INSTANCE PriQueue WITH
  Capacity <- Depth + Cardinality(Producers) - 1,
  NoMessage <- NullBuf,
  pending <- queue_list,
  floor <- get_floor,
  result <- pbuf

ImplementsPriQueue == AbstractQueue!SafeSpec

\* The same with the fairness of the abstract queue: what is queued at the top
\* priority is delivered, whatever goes on below, and every get ends.
ImplementsFairPriQueue == AbstractQueue!Spec
=============================================================================
