------------------------------- MODULE PktPath -------------------------------
(***************************************************************************)
(* The way of a received packet (apps/pkt_main.c): the driver's callback   *)
(* gwlib_sendPktToQueue queues a copy by priority, the packet thread       *)
(* dispatches it to the handler of its type, and the RCP handler           *)
(* (apps/rcp_gwd.c) queues a second copy for the RCP thread                *)
(* (apps/rcp_switch_cli.c).  Both queues are the priority queue PriQueue   *)
(* specifies, which OsalPriQueue implements.                               *)
(*                                                                         *)
(* The initialisation runs beside all this, one step at a time: a parser   *)
(* is registered before its handler, and the RCP handler before its queue  *)
(* exists.  Until then rcp_rcv_queue_id is 0, the id of the packet queue   *)
(* itself, whose messages have the same layout, so that an RCP packet goes *)
(* round through the packet queue at priority 0.                           *)
(*                                                                         *)
(* A packet is its number and its type; two parsers never recognise the    *)
(* same packet.  A put may fail at any time, for want of memory.           *)
(***************************************************************************)
EXTENDS Naturals, Sequences, FiniteSets

CONSTANTS
  Bufs,             \* addresses malloc may give a packet
  Null,             \* no packet
  MaxPkts,          \* bound: packets copied by the driver's callback
  PktCapacity,      \* most packets one priority of the packet queue holds
  RcpCapacity,      \* the same for the RCP queue
  RcpQueueMayFail   \* TRUE: creating the RCP queue may fail

ASSUME PktAssumption ==
  /\ Null \notin Bufs
  /\ {MaxPkts, PktCapacity, RcpCapacity} \subseteq Nat \ {0}
  /\ RcpQueueMayFail \in BOOLEAN

VARIABLES
  parser, handler,      \* gw_pkt_cb_func_tab: the types that have them
  init_pc, lpb_pc,      \* gwd_onu_init; EthLoopbackDetectControl
  rcp_rcv_queue_id,     \* "pkt" while 0, then "rcp"
  rcp_ready,            \* the table entry of the RCP queue is complete
  heap,                 \* heap[b]: the packet in buffer b, NoPkt when free
  data,                 \* gwlib_sendPktToQueue: the copy not queued yet
  pkt_queue, pkt_floor, pkt_msg,   \* the packet queue, as in PriQueue
  pkt_pc, copy,                    \* the packet thread, gw_rcppktHandler's copy
  rcp_queue, rcp_floor, rcp_msg,   \* the RCP queue, as in PriQueue
  rcp_pc,                          \* the RCP thread
  accepted,      \* history: number of packets copied
  handled,       \* history: what each handler was given, in order
  dropped,       \* history: packets a put or a missing handler has dropped
  looped         \* history: RCP packets put back into the packet queue

regVars == <<parser, handler, init_pc, lpb_pc, rcp_rcv_queue_id, rcp_ready>>
pktVars == <<pkt_queue, pkt_floor, pkt_msg>>
rcpVars == <<rcp_queue, rcp_floor, rcp_msg>>
history == <<accepted, handled, dropped, looped>>
vars == <<regVars, heap, data, pktVars, pkt_pc, copy, rcpVars, rcp_pc, history>>

Types == {"oam", "lpb", "rcp"}
Pkt == [no : 1 .. MaxPkts, type : Types]
NoPkt == [no |-> 0, type |-> "none"]

\* gw_pkt_pri_maps
Pri(type) == CASE type = "oam" -> 7 [] type = "lpb" -> 0 [] type = "rcp" -> 4

\* GW_OSAL_MAX_QUEUE_PRI priorities for packets, three for the RCP queue.
PQ == INSTANCE PriQueue WITH PriNum <- 8, Capacity <- PktCapacity, Message <- Bufs,
        NoMessage <- Null, pending <- pkt_queue, floor <- pkt_floor, result <- pkt_msg
RQ == INSTANCE PriQueue WITH PriNum <- 3, Capacity <- RcpCapacity, Message <- Bufs,
        NoMessage <- Null, pending <- rcp_queue, floor <- rcp_floor, result <- rcp_msg

\* init_pkt_proc: an empty table, the packet queue and its thread.
Init ==
  /\ parser = {} /\ handler = {}
  /\ init_pc = "oam parser" /\ lpb_pc = "parser"
  /\ rcp_rcv_queue_id = "pkt" /\ rcp_ready = FALSE
  /\ heap = [b \in Bufs |-> NoPkt]
  /\ data = Null /\ copy = Null
  /\ PQ!Init /\ pkt_pc = "idle"
  /\ RQ!Init /\ rcp_pc = "idle"
  /\ accepted = 0 /\ handled = [type \in Types |-> <<>>]
  /\ dropped = {} /\ looped = {}
-----------------------------------------------------------------------------
RegParser(type) == parser' = parser \union {type} /\ UNCHANGED handler
RegHandler(type) == handler' = handler \union {type} /\ UNCHANGED parser

\* gwd_onu_init and start_rcp_device_monitor register and create in this order.
Register ==
  /\ \/ /\ init_pc = "oam parser" /\ RegParser("oam") /\ init_pc' = "oam handler"
     \/ /\ init_pc = "oam handler" /\ RegHandler("oam") /\ init_pc' = "rcp parser"
     \/ /\ init_pc = "rcp parser" /\ RegParser("rcp") /\ init_pc' = "rcp handler"
     \/ /\ init_pc = "rcp handler" /\ RegHandler("rcp") /\ init_pc' = "rcp queue"
  /\ UNCHANGED <<lpb_pc, rcp_rcv_queue_id, rcp_ready, heap, data, pktVars, pkt_pc, copy,
                 rcpVars, rcp_pc, history>>

\* gw_pri_queue_create returns the new id before the entry can be used.
CreateRcpQueue ==
  /\ \/ /\ init_pc = "rcp queue"
        /\ rcp_rcv_queue_id' = "rcp" /\ init_pc' = "rcp entry"
        /\ UNCHANGED rcp_ready
     \/ /\ init_pc = "rcp entry"
        /\ rcp_ready' = TRUE /\ init_pc' = "done"
        /\ UNCHANGED rcp_rcv_queue_id
     \/ /\ init_pc = "rcp queue" /\ RcpQueueMayFail
        /\ init_pc' = "done"
        /\ UNCHANGED <<rcp_rcv_queue_id, rcp_ready>>
  /\ UNCHANGED <<parser, handler, lpb_pc, heap, data, pktVars, pkt_pc, copy, rcpVars, rcp_pc,
                 history>>

\* EthLoopbackDetectControl, the first time detection is enabled.
RegisterLpb ==
  /\ \/ lpb_pc = "parser" /\ RegParser("lpb") /\ lpb_pc' = "handler"
     \/ lpb_pc = "handler" /\ RegHandler("lpb") /\ lpb_pc' = "done"
  /\ UNCHANGED <<init_pc, rcp_rcv_queue_id, rcp_ready, heap, data, pktVars, pkt_pc, copy,
                 rcpVars, rcp_pc, history>>
-----------------------------------------------------------------------------
Alloc(b, pkt) ==
  /\ heap[b] = NoPkt
  /\ heap' = [heap EXCEPT ![b] = pkt]

Free(b) == heap' = [heap EXCEPT ![b] = NoPkt]

\* gwlib_sendPktToQueue: a packet whose type a parser knows is copied.
Copy(type, b) ==
  /\ accepted < MaxPkts
  /\ data = Null
  /\ type \in parser
  /\ Alloc(b, [no |-> accepted + 1, type |-> type])
  /\ data' = b
  /\ accepted' = accepted + 1
  /\ UNCHANGED <<regVars, pktVars, pkt_pc, copy, rcpVars, rcp_pc, handled, dropped, looped>>

\* Mutant of Queue: the priority is known only once there is a handler.
QueueDefaultPri ==
  /\ data # Null
  /\ PQ!Put(IF heap[data].type \in handler THEN Pri(heap[data].type) ELSE 0, data)
  /\ data' = Null
  /\ UNCHANGED <<regVars, heap, pkt_pc, copy, rcpVars, rcp_pc, history>>

Queue ==
  /\ data # Null
  /\ PQ!Put(Pri(heap[data].type), data)
  /\ data' = Null
  /\ UNCHANGED <<regVars, heap, pkt_pc, copy, rcpVars, rcp_pc, history>>

QueueFails ==
  /\ data # Null
  /\ dropped' = dropped \union {heap[data].no}
  /\ Free(data)
  /\ data' = Null
  /\ UNCHANGED <<regVars, pktVars, pkt_pc, copy, rcpVars, rcp_pc, accepted, handled, looped>>
-----------------------------------------------------------------------------
\* gw_pkt_proc_main: wait for a packet and take it.
PktGet ==
  /\ pkt_pc = "idle"
  /\ \/ PQ!BeginGet /\ UNCHANGED pkt_pc
     \/ PQ!EndGet /\ pkt_pc' = "dispatch"
  /\ UNCHANGED <<regVars, heap, data, copy, rcpVars, rcp_pc, history>>

\* The handler of OAM and loop detection frames, or none: the packet is done.
Dispatch ==
  /\ pkt_pc = "dispatch"
  /\ LET pkt == heap[pkt_msg]
     IN  \/ /\ pkt.type \in handler \ {"rcp"}
            /\ handled' = [handled EXCEPT ![pkt.type] = Append(@, pkt.no)]
            /\ UNCHANGED dropped
         \/ /\ pkt.type \notin handler
            /\ dropped' = dropped \union {pkt.no}
            /\ UNCHANGED handled
  /\ pkt_pc' = "free"
  /\ UNCHANGED <<regVars, heap, data, pktVars, copy, rcpVars, rcp_pc, accepted, looped>>

\* gw_rcppktHandler copies the packet again.
DispatchRcp(b) ==
  /\ pkt_pc = "dispatch"
  /\ heap[pkt_msg].type = "rcp" /\ "rcp" \in handler
  /\ Alloc(b, heap[pkt_msg])
  /\ copy' = b
  /\ pkt_pc' = "rcp_put"
  /\ UNCHANGED <<regVars, data, pktVars, rcpVars, rcp_pc, history>>

DispatchRcpNoMemory ==
  /\ pkt_pc = "dispatch"
  /\ heap[pkt_msg].type = "rcp" /\ "rcp" \in handler
  /\ dropped' = dropped \union {heap[pkt_msg].no}
  /\ pkt_pc' = "free"
  /\ UNCHANGED <<regVars, heap, data, pktVars, copy, rcpVars, rcp_pc, accepted, handled, looped>>

\* Mutant of RcpPut: the packet itself is queued, not its copy.
RcpPutOriginal ==
  /\ pkt_pc = "rcp_put"
  /\ rcp_rcv_queue_id = "rcp" /\ rcp_ready
  /\ RQ!Put(0, pkt_msg)
  /\ copy' = Null /\ pkt_pc' = "free"
  /\ UNCHANGED <<regVars, heap, data, pktVars, rcp_pc, history>>

\* Mutant of RcpPut: the packet queue is used whatever the id.
RcpPutAlwaysBack ==
  /\ pkt_pc = "rcp_put"
  /\ PQ!Put(0, copy)
  /\ looped' = looped \union {heap[copy].no}
  /\ copy' = Null /\ pkt_pc' = "free"
  /\ UNCHANGED <<regVars, heap, data, rcpVars, rcp_pc, accepted, handled, dropped>>

RcpPut ==
  /\ pkt_pc = "rcp_put"
  /\ \/ /\ rcp_rcv_queue_id = "pkt"
        /\ PQ!Put(0, copy)
        /\ looped' = looped \union {heap[copy].no}
        /\ UNCHANGED rcpVars
     \/ /\ rcp_rcv_queue_id = "rcp" /\ rcp_ready
        /\ RQ!Put(0, copy)
        /\ UNCHANGED <<pktVars, looped>>
  /\ copy' = Null /\ pkt_pc' = "free"
  /\ UNCHANGED <<regVars, heap, data, rcp_pc, accepted, handled, dropped>>

\* Mutant of RcpPutFails: the copy is freed and the packet is handled again.
RcpPutFailsRetry ==
  /\ pkt_pc = "rcp_put"
  /\ Free(copy)
  /\ dropped' = dropped \union {heap[copy].no}
  /\ copy' = Null /\ pkt_pc' = "dispatch"
  /\ UNCHANGED <<regVars, data, pktVars, rcpVars, rcp_pc, accepted, handled, looped>>

RcpPutFails ==
  /\ pkt_pc = "rcp_put"
  /\ Free(copy)
  /\ dropped' = dropped \union {heap[copy].no}
  /\ copy' = Null /\ pkt_pc' = "free"
  /\ UNCHANGED <<regVars, data, pktVars, rcpVars, rcp_pc, accepted, handled, looped>>

PktFree ==
  /\ pkt_pc = "free"
  /\ Free(pkt_msg)
  /\ pkt_pc' = "idle"
  /\ UNCHANGED <<regVars, data, pktVars, copy, rcpVars, rcp_pc, history>>
-----------------------------------------------------------------------------
\* rcp_rcv_handll_thread: take a packet, RcpFrameRevHandle, free it.
RcpGet ==
  /\ rcp_pc = "idle"
  /\ \/ RQ!BeginGet /\ UNCHANGED rcp_pc
     \/ RQ!EndGet /\ rcp_pc' = "handle"
  /\ UNCHANGED <<regVars, heap, data, pktVars, pkt_pc, copy, history>>

RcpHandle ==
  /\ rcp_pc = "handle"
  /\ handled' = [handled EXCEPT !["rcp"] = Append(@, heap[rcp_msg].no)]
  /\ rcp_pc' = "free"
  /\ UNCHANGED <<regVars, heap, data, pktVars, pkt_pc, copy, rcpVars, accepted, dropped, looped>>

RcpFree ==
  /\ rcp_pc = "free"
  /\ Free(rcp_msg)
  /\ rcp_pc' = "idle"
  /\ UNCHANGED <<regVars, data, pktVars, pkt_pc, copy, rcpVars, history>>
-----------------------------------------------------------------------------
InitThread == Register \/ CreateRcpQueue
Driver == (\E type \in Types, b \in Bufs : Copy(type, b)) \/ Queue \/ QueueFails
PktThread ==
  \/ PktGet \/ Dispatch \/ (\E b \in Bufs : DispatchRcp(b)) \/ DispatchRcpNoMemory
  \/ RcpPut \/ RcpPutFails \/ PktFree
RcpThread == RcpGet \/ RcpHandle \/ RcpFree

Next == InitThread \/ RegisterLpb \/ Driver \/ PktThread \/ RcpThread

SafeSpec == Init /\ [][Next]_vars

\* Every thread keeps running; packets need not arrive.
Spec ==
  /\ SafeSpec
  /\ WF_vars(InitThread)
  /\ WF_vars(Queue \/ QueueFails)
  /\ WF_vars(PktThread)
  /\ WF_vars(RcpThread)
-----------------------------------------------------------------------------
\* Every variable holds values of its kind.
TypeOK ==
  /\ parser \subseteq Types /\ handler \subseteq parser
  /\ init_pc \in {"oam parser", "oam handler", "rcp parser", "rcp handler", "rcp queue",
                  "rcp entry", "done"}
  /\ lpb_pc \in {"parser", "handler", "done"}
  /\ rcp_rcv_queue_id \in {"pkt", "rcp"} /\ rcp_ready \in BOOLEAN
  /\ heap \in [Bufs -> Pkt \union {NoPkt}]
  /\ {data, copy, pkt_msg, rcp_msg} \subseteq Bufs \union {Null}
  /\ pkt_queue \in [PQ!Pri -> Seq(Bufs)] /\ pkt_floor \in 0 .. 8
  /\ rcp_queue \in [RQ!Pri -> Seq(Bufs)] /\ rcp_floor \in 0 .. 3
  /\ pkt_pc \in {"idle", "dispatch", "rcp_put", "free"}
  /\ rcp_pc \in {"idle", "handle", "free"}
  /\ accepted \in 0 .. MaxPkts /\ handled \in [Types -> Seq(1 .. MaxPkts)]
  /\ dropped \subseteq 1 .. MaxPkts /\ looped \subseteq 1 .. MaxPkts

\* Who holds which buffer: the slots of a queue, and the hands of the threads.
Slots(name, queue) ==
  UNION {{<<name, pri, i, queue[pri][i]>> : i \in DOMAIN queue[pri]} : pri \in DOMAIN queue}

Hands ==
  {<<"driver", data>>, <<"copy", copy>>,
   <<"pkt_thread", IF pkt_pc = "idle" THEN Null ELSE pkt_msg>>,
   <<"rcp_thread", IF rcp_pc = "idle" THEN Null ELSE rcp_msg>>}

Holders(b) ==
  {h \in Hands : h[2] = b} \union
  {s \in Slots("pkt_queue", pkt_queue) \union Slots("rcp_queue", rcp_queue) : s[4] = b}

\* Every buffer that is allocated is in one place only, and no place refers to
\* a buffer that is free: nothing leaks and nothing is freed twice
\* (gwlib_sendPktToQueue, gw_pkt_proc_main, gw_rcppktHandler).
BuffersOwned ==
  \A b \in Bufs : Cardinality(Holders(b)) = IF heap[b] = NoPkt THEN 0 ELSE 1

\* The places from which a packet can still reach a handler.
Waiting(no) ==
  LET bufs == {b \in Bufs : heap[b].no = no}
      served == (IF pkt_pc \in {"rcp_put", "free"} THEN {pkt_msg} ELSE {})
                  \union (IF rcp_pc = "free" THEN {rcp_msg} ELSE {})
  IN  UNION {Holders(b) : b \in bufs \ served}

Handlings(no) ==
  UNION {{<<type, i>> : i \in {j \in DOMAIN handled[type] : handled[type][j] = no}} : type \in Types}

\* A packet that was copied is waiting, handled or dropped: one of these and
\* once only, however often it went round (gw_pkt_handler_call).
ExactlyOnce ==
  \A no \in 1 .. accepted :
    Cardinality(Waiting(no)) + Cardinality(Handlings(no)) + (IF no \in dropped THEN 1 ELSE 0) = 1

\* A handler is given the packets of its type in the order they arrived; only
\* an RCP packet that went round may be overtaken (gw_get_pkt_pri).
InOrder ==
  \A type \in Types : \A i, j \in DOMAIN handled[type] :
    (i < j /\ handled[type][i] > handled[type][j]) => handled[type][j] \in looped

\* Every packet that was copied is handled or dropped in the end, although RCP
\* packets go round as long as their queue does not exist: creating it ends the
\* round trips (start_rcp_device_monitor).  When it cannot be created they never end.
PacketsEnd ==
  LET noRcpQueue == init_pc = "done" /\ rcp_rcv_queue_id = "pkt"
  IN  \A no \in 1 .. MaxPkts :
        accepted >= no ~> (no \in dropped \/ Handlings(no) # {} \/ noRcpQueue)
=============================================================================
