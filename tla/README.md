# A verification of the ONU management software

The program under `src/` runs on an ONU, the customer end of an EPON: it talks to the OLT by OAM
messages, to the switches at its user ports by RCP, and to its own switch chip through a library of
the vendor.  This directory holds TLA+ models of its components, the TLC configurations that check
them, and proofs checked by TLAPS.  `PROJECT.json` lists the runs, what each definition translates
(`map`), the hazards the properties are for, and the theorems.

    tlc -workers 2 -config MCOsalPriQueue.cfg MCOsalPriQueue      # a run
    tlapm OsalProofs.tla                                          # the proofs of a module

## 1. The system

Threads of the program: the driver's receive callback, the packet thread, the OAM CLI thread, the
PTY threads, the timer thread, the RCP thread, the RCP monitor and its loop detection, the loop
detection of the user ports, broadcast storm control, and the CLI.  They share memory and
communicate by the queues of the OSAL.

    driver --gwlib_sendPktToQueue--> packet queue --> packet thread --+--> OAM handler: reassembly,
                                         ^                            |      answers, CLI requests --> OAM CLI thread
                                         | (queue id still 0)         |                   PTY packets --> PTY thread
                                         +------- RCP handler <-------+--> loop detection handler
                                                     |
                                                     +--> RCP queue --> RCP thread --> pending reads, switch entries
    timer thread --> timeouts of incomplete messages, PTY timer
    RCP monitor, RCP loop detection, CLI --> register reads and writes --> switch --> driver
    PTY thread --keys--> shell thread --> CLI engine --notice of its end--> PTY thread
    OLT request --> start and stop of the loop detection task

| Component | Source | State | Operations | What makes it correct |
|---|---|---|---|---|
| Priority queue | `system/gw_os_api_core.c` 2228-2467 | one list and mutex per priority, a counting semaphore | create, put, get | no message lost, doubled or invented; order per producer and priority; a get that took a token finds a message; bounded lists |
| Lists | `system/util_list.c` | head, tail, count, links | add, get, insert, delete, nth | links and count agree |
| Semaphores, mutexes, threads | `system/gw_os_api_core.c` | id tables | create, wait, post, destroy; create, delete, exit | an id names one object; a deleted thread leaves nothing locked |
| Timers | `system/gw_timer.c` | sorted list, expire list, flags | add, delete; tick, expire, callback | a timer is in one place; expires neither early nor late; is freed once; deleted is not called |
| OAM reassembly | `apps/oam.c` 120-530, 713-850 | list of messages, a timer for each | receive, time out, dispatch, free | fragments of one message only; every message ends; nothing freed is used |
| OAM requests and alarms | `apps/oam.c` | device settings | answer, alarm, send in fragments | one answer a request |
| OAM CLI and PTY | `apps/oam_core.c`, `Pty.c` | queues, one session, its shell | run a command, open, type, close, keep alive | session and shell end together, and do end |
| CLI engine | `cli_lib/cli_parser.c`, `cli_common.c` | a line, a history, the tree of commands, mode and privilege | edit, recall, complete, look up, run | the line is what was typed; commands are found; no mode without privilege |
| Packet path | `apps/pkt_main.c`, `rcp_gwd.c` 6672-6760 | parser and handler tables, two queues | receive, parse, handle, register | every buffer has one owner; every packet is handled or dropped once |
| RCP registers | `apps/rcp_gwd.c` 395-843 | list of pending reads, channel semaphore, packet buffer | read, write, answer | a read returns its own register; nothing leaks; every access returns |
| VLAN table of a switch | `apps/rcp_gwd.c` 3260-4205, 5621-6199, `rcp_switch_cli.c` 2286-3118 | registers of the switch, a copy of the table | add, delete, port add, port delete, 802.1Q, isolation; refresh | no port is left without a VLAN; a port's PVID is of a VLAN it is in; the copy follows the switch |
| Settings of a switch | `apps/rcp_gwd.c` 1084-1323, 1764-5408, `rcp_switch_cli.c` 382-655, 1269-5167 | registers of the switch, of its PHYs, its EEPROM | set a field, a register, a byte; reset | a change of some bits keeps the others |
| Settings in flash, RCP loop monitor | `apps/rcp_gwd.c` 6331-6490, `rcp_switch_cli.c` 5854-6005 | a record for each switch, in a buffer and in flash | save, erase, restore; shut a port that loops | what counts as saved is what was read; loops are cut |
| RCP monitor | `apps/rcp_switch_cli.c` 5613-5943 | an entry per port, alarm FIFO | hello, check, alarm | the alarms tell what is plugged in where |
| Loop detection | `apps/gwd_eth_loop_detect.c`, `oam.c` 1517-1557 | looped VLANs and ports, settings, the task | detect, shut, wake, report; set, start, stop | a port shut down for a loop is on record and woken; an alarm stands for a mark |
| Configuration | `apps/gw_conf_file.c` | records in flash | save, restore | what is restored is what was saved |
| Storm control, QoS, PoE, log, ports, SNMP | the other files | settings and counters | set, get, poll | see `PROJECT.json`, "components" |

The hard behaviours: threads interleave inside queues, timers and lists whose sections are locked
one at a time; objects found under a lock are used after it is given back; switches and fragments
come, go, and answer late; waits time out while the answer is on its way; components receive
packets before they are initialised; an early return skips what others wait for.

## 2. The modules

Each component has one module whose variables carry the source's names, with one action for every
section of code between two points where another thread can run: a region under a lock is one action
only when nothing else reads what it writes, and an unlocked read is an action of its own.  `pc`
variables hold the place of each thread.  A use of freed memory sets `undefined`, after which the
model stops, since the outcome is anything at all.  `MC*` modules are the instances for TLC and add the symmetry of model
values where a run uses it.  A definition named "Mutant of X" is a faulty variant that shows which error a property
catches; no specification uses it.  `*Proofs` modules extend the module they are about;
`OsalProofs` extends two, `GwTimer` and `OsalPriQueue` (section 4).

### PriQueue, OsalPriQueue, OsalProofs

`PriQueue` is the abstract queue: bounded sequences per priority, a put appends or fails, a get takes
the head of a priority no lower than the best at the time its wait ended (`floor`).  `OsalPriQueue`
is the code: `PutBegin` is the unlocked depth check, then `PutLock`, `PutAdd`, `PutUnlock`,
`PutPost`; a get is `GetWait`, the unlocked scan `GetSkip`/`GetFound`, `GetLock`, `GetTake`,
`GetUnlock`, `GetReturn`.  The refinement maps the queue to itself with capacity
`Depth + #Producers - 1`, by which the unlocked check may overshoot.  Every queue of the program has
one reading thread, hence one `Consumer`.

### OneShotTimers, GwTimer, OsalProofs

`OneShotTimers` says what a client may rely on: a timer is free, armed, due or being called back.
`GwTimer` has `timer_list`, sorted by the ticks left, the expire list of a pass, the flags, `delta`
(the duration of the last pass, taken off in the next one) and the two lock sections of a delete.
A pass takes out all that have expired (`Selected`, `Without`) and the circle timers are put in again
in order (`InsertSorted`).  Two histories stand beside the ticks: `age`, the ticks a timer has been
armed, and `ahead`, those of an unfinished or slow pass that were pending when it was started and will
be taken off it.  Back from a callback the timer thread records its duration when it was the longest so far
(`Measure`, with `took`, `past`, `peek`) and reads the timer for that, which a once timer's own wrapper
has freed: this sets `undefined` here and is `BadRecord` there.  `ImplementsOneShotTimers` maps the lists and program counters to one state a timer.  Clients are
threads that keep handles: a handle may be stale and its address may have been given to a new timer.

### OamReassembly, OamReassemblyProofs

The packet thread receives fragments (`Receive`, then `Arm`, `Check`, `DeleteTimer`, `Append*`,
`Dispatch`), the timer thread expires (`TimeOut`, `ToFind`, `ToRem`, `ToFree`), and the OAM CLI
thread serves and frees requests (`As*`).  Timers follow `OneShotTimers` (an instance).  The code
has unprotected races there.  `calm`, chosen at the start, tells whether they may happen: when calm,
timers expire between packets only, no fragment of a complete message arrives, and malloc gives a
new timer the block of the one just freed, which messages of three fragments rely on.  `NeverUndefined`
and `MessagesEnd` are of calm behaviours.  The rest are of all, with messages of any length, up to the first
use of freed memory, or until `astray`: the packet thread has given `gw_timer_del` a handle that is not
that of its message's timer, as the one before the third fragment is not kept (`oam.c:519`).

### PktPath, PktPathProofs

The driver's copy, the two queues (instances of `PriQueue`, which `OsalPriQueue` implements), the
packet thread and the RCP thread, and the initialisation of parsers, handlers and the RCP queue
beside them.  Until the RCP queue exists its id is 0, the packet queue's: RCP packets go round.

### RcpRegAccess, RcpRegAccessProofs

A read: `BeginRead` (node and semaphore), `InsertFind`/`InsertStore`/`InsertFull` under the list's
semaphore, `Fill` of the shared packet buffer, `Take` of the channel with a timeout, `Send`,
`Answered` or `WaitTimesOut`, and the way out, which differs between the 16-bit and the 32-bit
function.  The RCP thread: `RcpFind`, `RcpFill`, `RcpGive`.  The switch loses and delays.

### RcpDevMonitor

The entries of the switches, written by the RCP thread (`DevListUpdate`, `DevListDone`) and by the
monitor (`Hello`, `Status`, then port by port `CheckOffline`, `Moved`, `CheckInfo`, `ReportNew`,
`ReportChanged`, `Copy`, `CheckBack`), the alarm FIFO (`Push`, `Pop`) with its masks, commands, and
switches plugged in and out.  `told` is what the alarms pushed so far say is at a port.

### RcpVlan, RcpVlanProofs

The VLAN table in the switch (`vid`, `member`), the settings of its ports (`pvid`, `insert`, `tag`,
`dot1q`) and the copy in `RCP_DEV` (`vlanVid`, `vlanPort`).  A command (`Dot1qAdd`, `Dot1qPortAdd`,
`Dot1qDel`, `Dot1qPortDel`, `Dot1q`, `PortIsolate`) begins with the list of what it has to do, in
`todo`; each step takes the first of it: a register access (`SetVlanVID`, ...; a read and a write are two
steps), a turn of a loop (`TakeTurn`), or a decision by the copy that puts more in front (`Join`,
`Quit`, `Part`, `Leave`, `LeaveTagged`).  `Fail` ends the command as the code's early returns do.  The monitor reads and stores
entry by entry beside it (`ScanRead`, `ScanStore`).

### LoopDetect, LoopDetectProofs

The detection task goes round (`TaskRound`, `ActionCall`, `Plan`, then `todo`, what the round has
still to do: wake, read the MAC table, shut, mark, report); the packet thread handles the frames that
come back (`Frame`) and the requests of the OLT (`Request`, `Store`, `Start`, `Stop`, `Delete`,
`Join`).  The marks are kept in a node for each VLAN and the round walks them one by one (`NextVlan`);
what it read of a node before another thread freed it is stale, and so is the alarm of a node that is
freed, which nobody clears.  What a thread does under `gw_lpb_sem` is one step (`TaskSection`, `PacketSection`).
`gw_thread_delete` cancels: `TaskCancelled` ends the task anywhere it may wait, also inside a section,
and the semaphore is then `"lost"`.  `shut`, `forgotten`, `reached`, `alarms` and `ended` are
histories the properties compare with the nodes.

### RcpSettings, RcpSettingsProofs

The registers of one switch with their fields, those of its PHYs and its EEPROM as the words the code
writes, and the record of them in `buf` and `flash`.  Each command of `rcp_switch_cli.c` is an operator
that gives the list of accesses it makes (`port_en`, `qos_dscp`, ...), `Does` picks one by name, and
each step takes the first access of the list: `SetField` reads, `PutField` writes back; `StartPhy`,
`FetchPhy`, `PutPhy`, `GoPhy` go through the data and control registers of the PHYs, the last also
through those of the EEPROM.  A failed access drops the list up to the next mark, as the early returns
do.  The loop monitor (`LoopRound`, `LookAtLoops`, `Shut`, `LookAgain`) and the RCP monitor (`Hello`,
`Restore`, `UplinkMoved`) are actors of the same kind.  A switch answers while the port that leads to
the ONU is on, so a thread can cut its own way (`Reachable`).  `crossed` has the actors
that lost a write of the access they are at, or into whose access another actor's write of one of the same registers came.
A save (`Save`, `SaveWord` or
`SaveWordFails` for each register of `gusSwitchCfgRegAddrArray`, `File`) fills `data` of the buffer; `seen` has
the words the registers held when it came to them, `NotSeen` before.  `torn` tells that a save or an
erasure began while another actor was in the middle of a save.

### CliLine, RemoteCli, RemoteCliProofs

`CliLine` has the engine as operators: keys on a buffer with its length and cursor (`Insert`, `Erase`,
`Recall`, `Completed`, ...), the history, and the tree of commands with the prefixes that registration
gives them (`Shortest`), the lookup of a line word by word, one level of the tree at a time (`FindAt`,
`FindBy`), and what commands do to mode and privilege.  `RemoteCli` has the main
thread of the terminal (`ConnectReqPro`, `ConFreeReqPro`, `Data`, `TimerMsgProcess`, `NotiMsgProcess`,
`CloseSession`, `DeleteShell`), the shell thread (`ReadKey`, `RunCommand`, `ShellCloseNoti`), and the OAM
async thread with commands of its own (`TakeRequest`, `RunRequest`), which parse into the same
`parserWord`.

## 3. The runs

| Run | Bounds | What it shows |
|---|---|---|
| `pri_queue` | 2 producers, 2 puts each, 2 priorities, depth 2 | a token finds its message, the depth check overshoots by one at most (a second producer passes it while the first waits for the mutex); the abstract queue and its fairness are implemented, hence order within a priority and delivery at the top one |
| `timers` | 1 client, 2 timers of both types, intervals 1 and 4, callbacks of up to 1 tick | a timer is in one place, none late, none early by more than the ticks that were pending when it was started; one-shot timers are implemented; once timers end, circle timers go on |
| `oam_reassembly` | 2 nodes, 2 timers; when calm 3 serial numbers and 3 fragments; with all races 3 serial numbers and 2 fragments, or 2 serial numbers and 3 fragments, and no state behind one with a handle gone astray | list sound, leaks only by refusal, a timer exactly for the incomplete; when calm, freed memory is never used and messages end |
| `packet_path` | 3 packets, 3 buffers, capacities 2 and 1 | one owner a buffer, each packet handled or dropped once, in order; round trips end |
| `rcp_registers` | 3 threads, 2 registers, list of 2, 2 semaphores, 3 operations | right register, nothing leaks or is shared, no use after free |
| `rcp_registers_32bit` | 2 threads, 2 operations, 32-bit reads too | the channel is given once on every way out; every operation returns |
| `rcp_monitor` | 2 ports, 2 switches, 4 moves, 1 upset, offline after 2 hellos without an answer as in the code, a hello to the other ports every 2 rounds in place of 5 (with 5 the run passes too and takes four times as long) | no REREG before an OFFLINE; the alarms catch up |
| `rcp_vlan` | 1 session, 2 ports, 3 entries, 2 VIDs, 3 commands, 1 fault | no port without a VLAN even half-way through a command, PVIDs right when commands are done, the copy catches up |
| `loop_detect` | 1 port and VLAN, 2 requests, 1 frame, 1 port opened, 1 fault | ports shut are on record, alarms stand for marks, only the task is ended, packets go on, ports wake |
| `loop_detect_threshold` | 1 request, 2 frames | finding, section 6 |
| `switch_settings` | 2 sessions with different commands, 2 ports, 2 saved registers, 2 bytes of EEPROM, 3 inputs | a change that nobody crossed changes its own setting and keeps the others, what counts as saved is true, loops are cut |
| `remote_cli` | 2 users, lines of 7, history of 2, queue of 2, timeout of 2 ticks, 4 inputs | the line is what was typed, commands are found, modes need privilege, session and shell follow each other and end |

Bounds that are constants of the models: `MaxPuts`, `MaxPkts`, `MaxOps`, `MaxMoves`, `MaxUpsets`,
`MaxCommands`, `MaxFaults`, `MaxRequests`, `MaxFrames`, `MaxOperator`, `MaxInputs` count what the
environment does and are guards of its actions alone.  Depths, list sizes, table sizes, line lengths
and periods stand for the constants of the code and are made small so that they are reached: a queue
of 100 is full of 100 in the same way as one of 1 of 1.  Time in `GwTimer` is unbounded, but what is
left of an interval is.

Three commands are enough to add a VLAN, put a port in it and take it out in each way, or to do so after
802.1Q was turned on; two VIDs never fill a table of three entries, the default VLAN being one.  In
`switch_settings` the two sessions have six and five of the commands: together they have a field that
shares its register, a PHY, the EEPROM, a reset and the file in both, and any three come in every
order; the operators of the other commands differ in register and bit alone and are not entered.  The
texts of `remote_cli` hold every key the editor knows, fill the line and go over it, complete, recall
and leave a mode by ^Z.

`oam_reassembly` has a state constraint (`Followed`): TLC goes no further from a state after which no property says
anything (a handle gone astray), or with a third serial number beside a message of three fragments.  Both cut only
behaviours that are not calm (`HandlesKept`), so that it does not weaken `MessagesEnd`.

Deadlock is checked in the runs of `RcpDevMonitor`, `RcpVlan` and `RemoteCli`, which never end.
Elsewhere a model may stop, and its cfg says why: the bounded environment has no more to do, or the
code has used freed memory.

### Fairness

Weak fairness of a thread says that the scheduler runs it: all threads have real priorities, block
only on semaphores and queues, and none spins.  Strong fairness stands where a thread competes for a
lock (`Take` and the list semaphore in `RcpRegAccess`, mutexes in `OsalPriQueue`, the sections of
`LoopDetect`, the update of an entry in `RcpDevMonitor`): POSIX semaphores and mutexes wake waiters
and the sections under them are short.  `OamReassembly`, when calm, and `GwTimer` assume that ticks go on, `RcpVlan`
that the switch stays there and the monitor on, `RcpSettings` that the two monitors run and go round,
`RemoteCli` that the main thread and its timer run; its shell may hang in a command.  No fairness is
assumed of packets, answers, clients, sessions, commands or switches.
## 4. The proofs

Eight modules hold theorems, each for every value of the constants that the named assumptions of its
module allow.  `PROJECT.json`, "theorems", lists the results.
Each proof has one lemma for each action of the model, and under it one step for each part of the
invariant that the action can disturb.  TLC checked each invariant on the run's instance first.

`OsalProofs` has two parts, which share facts about sequences and nothing else.  Of the queues it proves, for any finite set of producers, any number of priorities, any depth and any number
of puts, both invariants that the run `pri_queue` checks, and besides them `QueueTypeOK`, `TokensMatchMessages`,
`ListsExclusive`, `FifoPerProducer`, and that `QueueSafeSpec` implies the safety of `PriQueue`.  The assumption is `QueueAssumption`.  The inductive
invariant `QueueInv` has, besides the type, the owner of each mutex as a function of the program
counters (from which exclusion follows), the balance of tokens, and for the scan of the consumer:
while it holds a token there is a message at or below the priority it looks at.  The balance alone
does not give the last part: it says that some message exists, not that the scan has not passed it;
producers only add during a scan and there is one consumer, which is what the induction step needs.
`DepthOvershootBounded` needs that a producer that passed the check counted the list before all
adds of the others that passed it.  Order per producer needs that numbers grow along each list and
past what has been delivered (`FifoInv`).  The refinement goes step by step: `PutAdd` and `GetTake` are the abstract put
and take, `GetWait` fixes the floor, all else stutters.

Of the timers `OsalProofs` proves `OnePlace`, `NeverLate`, the action property `NeverEarly`, and that the lists,
flags and lock sections implement `OneShotTimers`, for any number of clients and timers and any
intervals and callbacks (`TimerAssumption`), until a timer that is not armed is deleted or a freed one is read
when a duration is recorded.  `ListInv` says where allocated timers are, and that one
that is in no list is being deleted by a client; `FlagInv` that whoever told a timer to stop has yet
to destroy it; `ClockInv` is an equation, not a bound: what is left, `age` and `ahead` make up the
interval and what the next pass takes off, from which both bounds on time follow.  What
`Selected` computes is defined by recursion along the list; its facts (`WalkExists` and those after
it) come from a least place where they would fail.  In the refinement a timer that a
deletion has found and taken out is free although its memory is not yet (`Gone`).

`OamReassemblyProofs` proves `ListSound`, `OnlyRefusedLeak` and `TimerIffIncomplete` of messages of any length
in every interleaving, for any numbers of nodes, timers, serial numbers and queue entries.  The three
speak of behaviours in which no handle has gone astray; TLC finds each of them violated without that.
`HandlesKept` says when that is no reservation: with messages of up to two fragments (`MaxLen =< 2`), and
when calm, no handle ever goes astray.  The invariant relates the list to the nodes (`ListInv`), a node's length
to its fragments (`LengthInv`), its owner to the three threads and the queue (`ServedInv`), and each timer
to the node it was started for (`TimerInv`); `HandleInv` adds that `TimerID` is the handle of that timer.

`PktPathProofs` proves `BuffersOwned`, `ExactlyOnce` and `InOrder` with `PktAssumption` alone.  The layers: `OwnInv`
puts each buffer in one of six places; of the buffers that hold a packet one bears it, the others
are only still to be freed, so that a packet is borne, handled or dropped (`NumInv`); a packet that
waits in the packet queue is younger than every other of its type that is on its way or was handled,
unless it went round, so is one that is about to join the RCP queue, and the RCP queue is in order
(`OrderInv`).  `InOrder` alone is far from inductive: it says nothing of the two queues and of the
packets that go round before the RCP queue exists.

`RcpRegAccessProofs` proves `ChannelWidth` for any finite set of threads, any registers, list and
table sizes: on every way out of the three operations the channel is given once, and each take that
timed out widens it by one for good.  `TypeCorrect` has all operations too.  `RightRegister`,
`NodesAndSems` and `NeverUndefined` are proved where no thread does a 32-bit read
(`"read32" \notin Ops`): `RCP_Read_32bit_Reg` frees its node without the list's semaphore and leaves
without destroying its own, and TLC finds each of the three violated with it; `rcp_registers` is run without it.
The layers are types and who has a node (`TypeInv`), who holds the list and what is in it (`LockInv`,
`ListInv`), whose the semaphores are and what nodes hold (`SemInv`, `ValueInv`).

`LoopDetectProofs` proves `ShutIsRecorded`, `AlarmHasMark` and `EndsOnlyTheTask` for any ports, VLANs, requests,
frames and failures (`LoopDetectAssumption`).  `ShutIsRecorded` needs that a port stays shut and unrecorded only as long as
recording it is the next thing its thread does (`ShutInv`), that a recorded port has a mark which
does not age (`NodeInv`), and that nobody marks a port between the reset by force and the freeing of
the nodes (`FreeInv`), which in turn needs that only a thread that is stopping the task sees it
switched off (`ThreadInv`).

`RemoteCliProofs` proves `LineIsWhatWasTyped`, `ConfigNeedsPrivilege`, `ShellFollowsSession` and `FullNamesRun` for
every tree of commands, texts, users and lengths (`LineAssumption`, `TreeAssumption`, `NamesAssumption`,
`SessionsAssumption`, `CommandsAssumption`, `QueueAssumption`).  Of the line: as long as it is not `garbled`
the buffer holds the text on both sides of the cursor and a terminator
behind it, and lines in the history are proper texts.  A completion overwrites the last word, so its
case needs that this word, as the parser cuts it, is the text since the last space, and that the
name found is no shorter.  Of privilege: a lookup that starts in EXEC stays there, whatever the tree
(`FindStays`, any set of modes closed under the fall back to CONFIG).  Backspaces (`Erase`) and the lookup (`Find`) are recursive functions; what is proved of them
comes from a least place where it would fail.  Of the ends: `ThreadInv`, `EndInv`, `NoticeInv` say at
which points of the main thread a session is without a shell and a shell without a session.

`FullNamesRunCorrect` needs no invariant of the behaviours but the type of a session: it is a fact about every tree
that can be registered (`AllFoundInFull`).  The lookup takes the first match of a list, so only a command registered
earlier can hide one, by a name that goes on where the other's ends.  `TellsApart` says that it does not: its
`unique_len` is longer than the other's name.  That holds after each registration (`RegistrationTells`), although one
recomputes only part of a list, the parent's siblings from the parent on (`Top`): a list recomputed from some command on has both of the pair
or not the earlier one, and the registration of the later one recomputes the earlier.  From the words on, `FullNameHere` is
one level of the tree and `WordsLead` the way down.  `NamesAssumption` (no name is empty or ends in `?`) holds of all
the names in `src/`.  Registration, `Path`, `Reached` and the lookup are recursive functions, each shown to exist.

`RcpVlanProofs` proves `PortsKeepVlan` for any ports, entries, VIDs, port lists and number of commands
(`VlanAssumption`) of one session (`OneSession`) that adds no VLAN to a full table (`FindsIdle`, about
the steps: the one that does is a finding, section 6; no step of `rcp_vlan` is such a one).  `PortsKeepVlan` alone says nothing of
the accesses a command has still to make, so the invariant `Inv` says what they may be and in which order.
They are of one of three kinds, whichever command began: `SetUp` (802.1Q off, isolation) makes all ports
members of the default VLAN before it touches another entry; `Joins` (802.1Q on, port add) has a port in its new
entry before it quits the others; in `PartsFrom(n)` (add, delete, port delete) whatever takes a port out of entry
`n` comes after something that puts it into another VLAN (`Saves`), unless it is in one (`Other`).  The
decisions are made by the copy, hence `CopyInv` and `ScanInv`: the copy is what the switch has, but for the one
store still to be made and for the default VLAN before it is first read.  The last port of a VLAN
may be taken out of an entry without a VID, hence `Tidy`, that a free entry has no members; a failed access
may leave it some, which are in the default VLAN too (`Leftovers`), so that one failure does no harm.  The steps that
expand a command share `Expands` and `Positions`, those that shorten it `QuietStep`; loops are turns
(`TurnOK`), so that their lengths do not matter.  `DefaultVlanStays`, that entry 0 has VID 1 and no other one does,
needs no `Safe` and holds whatever fails.

`PvidIsMemberCorrect` proves `PvidIsMember` under the same assumptions.  It speaks only of moments when no command
runs, so `PvidInv` says of the middle of a command which index each port has yet to get and why that will be right,
while nothing fails, is lost or is overtaken (`Calm`).  Again what is left to do is of a few kinds, whichever
command began.  `Resetting` (802.1Q off, isolation off): every index is 0 or still to be set back to it, so that it
does not matter which entries are given back on the way.  `Isolating`: an index is found by a search for its VID,
which finds the right entry only when the entries before it already have theirs; hence the turns come in the order of
the ports, and a port has its VID and its member before its index (`Promised`).  `Indexing` (802.1Q on, port add): an
index is of an entry the port is in or is about to join, and when it quits the others its index is of the
one it stays in (`Stays`); two ports share a register, so a write gives the other port what it has (`Puts`).
`Unindexing` (add, delete, port delete): whatever takes a port out of entry `n`, or frees it, comes after something that
sets the index of the port back if it is `n` (`Zeroes`).  `NumOf` and `OwnNum` say what the search of the
copy finds; they rest on `CopyInv` of the first proof.  A member taken away is where the two proofs meet: `Saves`
there and `Zeroes` here are two sides of `cli_int_vlan_dotlq_port_del`.

`RcpSettingsProofs` proves `SavedIsTrue` for any sessions, ports, saved registers (in any number and order, also
with repetitions) and commands (`SettingsAssumption`, `CommandsAssumption`).  `SavedIsTrue` speaks of a file when
nobody saves; the invariant `Inv` says of the middle of a save how far it is: the list of who saves is `Words(k)`
for the next register `k`, and what is valid is true up to that register (`TrueUpTo`), so that it is true when only
the file is left to be written.  At most one actor has such a list as long as nothing is `torn` (`OneSaves`).
All other lists are `Quiet`: no step of theirs touches the file, nor does any step of the lists an `if` among them
goes on with, to any depth.  Lists nest, so `Quiet` is membership in some set of lists that is closed under
going on (`Closed`), and no induction over the nesting is needed.  That each of the thirty-one other commands, the round
of the loop monitor and the restore are `Quiet` is a lemma each.  A failed read makes the buffer invalid for
good, since only the next save sets `valid` again.

The proofs changed the models where they could not be completed: the arms of two CASEs in `CliLine` overlapped; the
completion that runs over the end of the buffer, the cursor that then starts over, and the recall of
a line longer than the buffer were missing; completions are counted as commands, not as names;
`NeverEarly` and `AlarmHasMark` were false beyond the bounds of their runs (two intervals that differ
by more than a pass; a stop and a start after a mark) and now say what the code does.  So was
`PortsKeepVlan`, which a second failed access can violate.  `SavedIsTrue` once compared what was
saved with registers that had never been read, all zero like the data; they are `NotSeen` now.

Only model-checked: `SettingsKept` of `RcpSettings`; `NeverUndefined` of `OamReassembly`, which is of calm
behaviours alone; all of `RcpDevMonitor`; and in the type of `LoopDetect` that a
mark ages to `ClearLimit` at most: with more requests than the run has, a change of the VLAN between
waking and counting lets it age beyond.  Liveness everywhere: liveness under fairness and ENABLED
are beyond the prover.  No model uses a RECURSIVE operator.  `TypeOK` of a
module is where its inductive invariant begins, and no run lists it, since it says
nothing of the code by itself.

Next to prove: `SettingsKept`, by an invariant that says what an access not crossed has read.

## 5. Not modelled

- Of the settings: `cable_test`, which switches test bits on and reads a result; reading the EEPROM,
  which shows what it holds; `rcpmac`, which writes twelve bytes and reads them back up to five times,
  more steps than TLC can interleave with the rest and only the last byte's result counts
  (`rcp_switch_cli.c:1093`); settings of VLANs kept in the EEPROM.  `product`, `board`, the hardware version
  and `manufacture` are registered for the mode of a switch under a command of the debug mode
  (`rcp_switch_cli.c:6206`), so that no session reaches them.  `mgt config` is compiled out
  (`rcp_switch_cli.c:6174`), and with it `saveOneRcpDevCfgToFlash` and `RCP_SetConfigClear`.
- Of the monitor: `switch auth`, which writes through entries that are not made
  (`rcp_switch_cli.c:5573`).
- Of the CLI: quotes, `|` and its filters, passwords, telnet and serial lines, prompts, echo and help,
  whose results nothing else reads; the thread that relays output to the OLT (`oam_core.c` 425-482).
- Of loop detection: the frames sent, what an alarm says besides port and VLAN, and the mode set by a
  local command, which is never enabled.
- The answers to OAM requests other than that on loop detection, and `CommOnuMsgSend`: each is one
  call from one thread; SNMP over OAM likewise.
- Storm control, QoS, the port and log tables, PoE, and the commands of `gw_cli_commands.c` and
  `oam_cli.c`: one thread each, or one call of the device library.
- Steps of modelled parts that are left out: an RCP thread that cannot be created, which is only logged
  and leaves a queue nobody reads (`rcp_switch_cli.c:6056`; the fairness of `PacketsEnd` presumes the
  thread); a message larger than its reader's buffer (`gw_os_api_core.c:2451`), since every reader has one of the
  queue's size; a first fragment longer than its message, which `oam.c:443` does not refuse; an
  alarm that fails when a port is woken (`gwd_eth_loop_detect.c:1087`, 1112), which is only logged;
  the clearing of `gw_parser_word` by a new shell (`cli_parser.c:611`) while a request is being
  looked up; the callback of a parent that runs after that of its child has returned `CLI_ERROR_ARG`
  (`cli_parser.c:923`; that a child is not found at all is there); durations below a tick in `GwTimer`, among them
  that of a wrapper that calls nothing back; in `OamReassembly`, the durations of callbacks.
- Names are of one case in `CliLine`.  The code builds the unique prefixes with case (`cli_parser.c:347`) and looks
  words up without (888), so that names that differ in case alone would not be told apart.
- Lists at the level of links (`util_list.c`) and the id tables of semaphores and threads besides what
  `LoopDetect` needs; plain queues, which only error paths of the start-up call, to delete one.

What could be added: storm control with its counters, and the fragments `CommOnuMsgSend` cuts,
composed with `OamReassembly`'s counterpart at the OLT, which is not in this repository.

## 6. Findings

`PROJECT.json`, "findings", quotes the lines.  In short:

- A port that the task and the packet thread both find looped at the wake-up threshold is marked twice;
  the second mark takes the port for one that the operator opened, and it is woken again
  (`loop_detect_threshold`, `gwd_eth_loop_detect.c:1524`).

Also met while reading and modelling, without a run of their own:

- A timer started after a slow pass loses the duration of that pass (`gw_timer.c:42`), which was
  over before it was started; hence the `ahead` in `NeverEarly`.
- The timer thread reads a once timer that its own callback has just freed, whenever that callback was the longest
  so far (`gw_timer.c:71`; freed at 434 and 199).  What it reads goes into a statistic only, but `GwTimer`
  counts it as undefined behaviour like any use of freed memory.
- `gw_stop_timer` may report a timer stopped that is called back afterwards (`gw_timer.c:271`), and
  `gw_destroy_timer` reports success for a timer that is in the list, where it frees nothing (195).
- The handle of the second timer of a message is dropped (`oam.c:519`), so that messages of three
  fragments work only as long as malloc gives the freed block out again: this is part of `calm`.
  Otherwise the stale handle deletes the timer of another message, which then never ends; hence `astray` in
  `ListSound`, `OnlyRefusedLeak` and `TimerIffIncomplete`.
- The wait for the rest of a message is a tenth of what its macro counts (`oam.c:477`, `oam.h:495`), and
  a message whose timer cannot be allocated stays for ever.
- A 32-bit read frees its node without the list's semaphore, under the RCP thread that may hold it
  (`rcp_gwd.c:738`): after it `rcp_registers_32bit` stops, and `NeverUndefined` is not checked there.
- A switch that registers at an entry which still holds an old OFFLINE is later replaced without an
  offline alarm (`rcp_switch_cli.c:5815`); `ToldCatchesUp` tells only where things end.
- Masking the alarms of "this" switch lasts until its next answer, which stores the mask of all
  (`rcp_gwd.c:388`); masking "all" stores the new mask only in the entry of the command's own switch, as
  often as there are switches (`rcp_switch_cli.c:5356`).
- `switch auth enable` drops every entry and takes `strncpy` for a comparison (`rcp_switch_cli.c:5573`).
- A full VLAN table is not refused: `RCP_GetVlanIdleNum` returns 0 for it (`rcp_gwd.c:4127`), and
  `cli_int_vlan_dotlq_add`, which refuses `idlenum >= MAX_RCP_VLAN_NUM` ("Vlan table has full, couldn't
  add any more.", `rcp_switch_cli.c:2463`), writes the new VLAN over the default one.  With a table
  of two entries in `RcpVlan`, deleting it then leaves all ports without a VLAN.
- Nothing undoes a command that failed half-way, and two failures can leave a port without a VLAN: add
  VLAN 2 and VLAN 3 and delete 2; isolation fails after it wrote the members of the free entry and before its VID
  (`rcp_gwd.c:4180`); a port joins 3 untagged and the command fails while it quits its other entries, one of them
  free; deleting 3 finds the port in two entries and does not put it back into the default one.
  Hence `errors =< 1` in `PortsKeepVlan`.
- A refresh that has read the VID of an entry before a command deletes that VLAN stores it afterwards
  (`rcp_switch_cli.c:5692`).  A port added to it by a third command is taken out of its own VLAN and
  put into one the switch does not have; hence `overtaken` in `PortsKeepVlan`.
- Commands of two sessions on one switch come between each other's accesses: turning 802.1Q off clears
  an entry that another session has just given its VID back in the copy, and adds a port to.  `rcp_vlan`
  has one session.
- The commands take any VID although their help says `<2-4094>` (`rcp_switch_cli.c:2424`), so that VID 1,
  the default VLAN, can be deleted.  `Vids` excludes it.
- Cancelled while it holds `gw_lpb_sem`, the detection task takes it along, and the next frame or request
  stops the packet thread, and with it all reception, for good (`gw_os_api_core.c:473`); hence
  `sem = "lost"` in `PacketsGoOn`.  `gw_thread_delete` joins under the mutex of the thread table besides.
- A request that stops detection before any has started it deletes thread 0, the timer thread
  (`gwd_eth_loop_detect.c:670`).
- A change of the VLAN under detection, or a stop, leaves ports shut in other VLANs that nobody wakes, and
  the alarms of nodes that are freed then are never cleared.
- The bit that `RCP_SetAtuLearning` sets is the next port's (`rcp_gwd.c:5332`).
- Two updates of one register by reading and writing back lose one of them, and two accesses to PHYs take
  each other's data (`rcp_gwd.c:1310`, 4597); hence `crossed` in `SettingsKept`.
- A save that cannot read a switch leaves no valid record where there was one (`rcp_gwd.c:6364`); two saves
  at a time tear it (6358); erasing passes a length that was never set (6476).
- Restored settings may disable the port that is now the uplink, in the middle of the restore
  (`rcp_gwd.c:6439`); when the same uplink registers again its priority is set to 1 and then to 0
  (`rcp_switch_cli.c:5903`).
- The words of a line are one array for all sessions (`cli_parser.c:768`), so that a command may run with
  the words of another session.
- A notice of the end of a shell ends any session, also a newer one (`oam_core.c:612`); what its shell has not
  read is read by the next shell; a connection is accepted though its shell cannot be created (789).
- An insertion into a full line writes over its end, and ^Z leaves the length of the line it cleared
  (`cli_parser.c:2086`, 1870); hence `garbled` in `LineIsWhatWasTyped`.
- A command that is mistyped in a mode takes the session out of that mode (`cli_parser.c:1060`).
- OAM requests run one after the other on one session, whose mode and privilege the next user inherits
  (`oam_core.c:221`).
