----------------------------- MODULE RemoteCli -----------------------------
(***************************************************************************)
(* The command lines an OLT has on the ONU (apps/oam_core.c, apps/Pty.c):  *)
(* one session of a terminal over OAM messages, whose main thread handles  *)
(* the messages, the notices of the shell's end and the ticks of a timer   *)
(* out of one queue, and whose shell thread runs gw_cli_loop on characters *)
(* the main thread writes to it through a pair of sockets; and single      *)
(* commands in OAM requests, run by the OAM async thread on a session of   *)
(* its own.  All parse into the same words.                                *)
(*                                                                         *)
(* Output, and the messages that carry it or answer requests, is left out: *)
(* it changes no state here.  A queue refuses what it has no room for, and *)
(* nobody waits; a refused request is lost, and an OAM request leaks.      *)
(***************************************************************************)
EXTENDS CliLine

CONSTANTS
  Sessions,      \* the session ids of OLT users
  Texts,         \* what they type, sequences of keys, one OAM message each
  Commands,      \* what OAM requests hold, strings
  QueueDepth,    \* g_oam_pty_queue_deepth and g_oam_async_queue_deepth
  TimeOut,       \* the ticks without a message that end a session, 30
  MaxInputs      \* bound: messages, threads that cannot be created

None == "none"

ASSUME SessionsAssumption == None \notin Sessions
ASSUME CommandsAssumption == Commands \subseteq Seq(STRING)
ASSUME QueueAssumption == QueueDepth \in Nat

VARIABLES
  queue,         \* of g_oam_pty_queue_id
  session,       \* gmCliPtyCtrl: bSessionId while lConnect, else None
  lTimeOut,
  at,            \* the main thread: what it is about to do
  thread,        \* g_oam_pty_cli_thread_id is a thread's
  shell,         \* [at, line, history, vty, n, asked]: n words parsed,
                 \*   asked when the line ended in '?'
  socket,        \* characters on their way to the shell
  requests,      \* of g_oam_async_queue_id
  async,         \* the OAM async thread: [at, n]
  oamVty,        \* g_oam_cli_vty
  parserWord,    \* gw_parser_word
  lost,          \* history: the session has lost a notice, or never had a shell
  inputs

ptyVars == <<queue, session, lTimeOut, at, thread>>
shellVars == <<shell, socket>>
oamVars == <<requests, async, oamVty>>
vars == <<ptyVars, shellVars, oamVars, parserWord, lost, inputs>>

\* gw_pri_queue_put.
Put(q, m) == IF Len(q) < QueueDepth THEN Append(q, m) ELSE q
Full(q) == Len(q) >= QueueDepth

NoShell == 
  [at |-> None, line |-> FreshLine, history |-> NoHistory, vty |-> NewVty, n |-> 0, asked |-> FALSE]
NewShell == [NoShell EXCEPT !.at = "reading", !.vty = ShellVty]

\* MAX_WORDS_NUM
WordSlots == 1 .. MaxLine

Init ==
  /\ queue = <<>> /\ session = None /\ lTimeOut = 0 /\ at = "idle" /\ thread = FALSE
  /\ shell = NoShell /\ socket = <<>>
  /\ requests = <<>> /\ async = [at |-> "idle", n |-> 0] /\ oamVty = NewVty
  /\ parserWord = [i \in WordSlots |-> <<>>]
  /\ lost = FALSE
  /\ inputs = 0
-----------------------------------------------------------------------------
\* Messages of the OLT and the timer.

CanInput == inputs < MaxInputs /\ inputs' = inputs + 1

Packet(s, code, text) == [kind |-> "packet", session |-> s, code |-> code, text |-> text]
Notice == [kind |-> "notice"]
Tick == [kind |-> "tick"]

\* gwd_oam_pty_trans.
PtyTrans(s, code, text) ==
  /\ CanInput
  /\ queue' = Put(queue, Packet(s, code, text))
  /\ UNCHANGED <<session, lTimeOut, at, thread, shellVars, oamVars, parserWord, lost>>

\* gwd_oam_async_trans, whose caller keeps nothing of a request it cannot queue.
AsyncTrans(c) ==
  /\ CanInput
  /\ requests' = Put(requests, c)
  /\ UNCHANGED <<ptyVars, shellVars, async, oamVty, parserWord, lost>>

\* OamPtyShellTimerNoti, once a second: bound, one tick in the queue at a time.
ShellTimerNoti ==
  /\ Tick \notin Range(queue)
  /\ ~ Full(queue)
  /\ queue' = Append(queue, Tick)
  /\ UNCHANGED <<session, lTimeOut, at, thread, shellVars, oamVars, parserWord, lost, inputs>>
-----------------------------------------------------------------------------
\* The main thread, gw_oam_pty_main_thread_entry.

Take == at = "idle" /\ queue # <<>> /\ queue' = Tail(queue)
Took(kind) == Take /\ Head(queue).kind = kind
TookPacket(code) == Took("packet") /\ Head(queue).code = code
Own == Head(queue).session = session

\* The same with a test for the limit itself.
TimerTellsOnce ==
  /\ Took("tick")
  /\ lTimeOut' = IF session = None THEN lTimeOut ELSE Min({lTimeOut + 1, TimeOut})
  /\ at' = IF session # None /\ lTimeOut < TimeOut /\ lTimeOut' = TimeOut THEN "silent" ELSE "idle"
  /\ UNCHANGED <<session, thread, shellVars, oamVars, parserWord, lost, inputs>>

\* OamPtyTimerMsgProcess: a session that is silent for too long is told to close,
\* at every tick until it does.
TimerMsgProcess ==
  /\ Took("tick")
  /\ lTimeOut' = IF session = None THEN lTimeOut ELSE Min({lTimeOut + 1, TimeOut})
  /\ at' = IF session # None /\ lTimeOut' >= TimeOut THEN "silent" ELSE "idle"
  /\ UNCHANGED <<session, thread, shellVars, oamVars, parserWord, lost, inputs>>

CloseSilent ==
  /\ at = "silent"
  /\ queue' = Put(queue, Notice)
  /\ at' = "idle"
  /\ UNCHANGED <<session, lTimeOut, thread, shellVars, oamVars, parserWord, lost, inputs>>

\* OamPtyNotiMsgProcess: the peer is told twice with 100 ms in between, then the
\* session is over and its shell thread is cancelled and joined.
NotiMsgProcess ==
  /\ Took("notice")
  /\ at' = IF session = None THEN "idle" ELSE "told"
  /\ UNCHANGED <<session, lTimeOut, thread, shellVars, oamVars, parserWord, lost, inputs>>

CloseSession ==
  /\ at = "told"
  /\ session' = None /\ lTimeOut' = 0
  /\ lost' = FALSE
  /\ at' = "deleting"
  /\ UNCHANGED <<queue, thread, shellVars, oamVars, parserWord, inputs>>

\* The thread id reset before the thread is deleted.
DeleteNothing ==
  /\ at = "deleting"
  /\ thread' = FALSE
  /\ at' = "idle"
  /\ UNCHANGED <<queue, session, lTimeOut, shellVars, oamVars, parserWord, lost, inputs>>

DeleteShell ==
  /\ at = "deleting"
  /\ shell' = IF thread THEN NoShell ELSE shell
  /\ thread' = FALSE
  /\ at' = "idle"
  /\ UNCHANGED <<queue, session, lTimeOut, socket, oamVars, parserWord, lost, inputs>>

\* OamPtyConnectReqPro: the user of the session is accepted again, another one
\* refused.  Without a session the shell is started, and the user accepted
\* whether or not it could be.  What an earlier shell has left in the socket is
\* for the new one.
ConnectReqPro ==
  /\ TookPacket("CONREQ")
  /\ IF session # None
     THEN UNCHANGED <<session, lTimeOut, thread, shell, lost, inputs>>
     ELSE /\ session' = Head(queue).session
          /\ lTimeOut' = 0
          /\ \/ /\ thread' = TRUE /\ shell' = IF thread THEN shell ELSE NewShell
                /\ UNCHANGED <<lost, inputs>>
             \/ ~ thread /\ CanInput /\ lost' = TRUE /\ UNCHANGED <<thread, shell>>
  /\ UNCHANGED <<at, socket, oamVars, parserWord>>

\* OamPtyConFreeReqPro: the answer, 100 ms, and "quit" typed for the user.
ConFreeReqPro ==
  /\ TookPacket("FREEREQ")
  /\ at' = IF Own THEN "freeing" ELSE "idle"
  /\ UNCHANGED <<session, lTimeOut, thread, shellVars, oamVars, parserWord, lost, inputs>>

TypeQuit ==
  /\ at = "freeing"
  /\ socket' = socket \o <<"q", "CR">>
  /\ at' = "idle"
  /\ UNCHANGED <<queue, session, lTimeOut, thread, shell, oamVars, parserWord, lost, inputs>>

\* OamPtyPacketProcess of DATA: a line feed at the start becomes a return, one
\* character of a message that holds a line end is cut off at its end, and a
\* message that starts with a telnet option is dropped.
Written(text) ==
  LET hasEnd == \E i \in 2 .. Len(text) : text[i - 1] = "CR" /\ text[i] = "LF"
      cut == IF hasEnd THEN Front(text) ELSE text
      first == IF cut = <<>> THEN <<>> ELSE IF Head(cut) = "LF" THEN <<"CR">> ELSE <<Head(cut)>>
  IN  IF first \in {<<>>, <<"IAC">>} THEN <<>> ELSE first \o Tail(cut)

Data ==
  /\ TookPacket("DATA")
  /\ socket' = IF Own THEN socket \o Written(Head(queue).text) ELSE socket
  /\ lTimeOut' = IF Own THEN 0 ELSE lTimeOut
  /\ UNCHANGED <<session, at, thread, shell, oamVars, parserWord, lost, inputs>>

KeepAlive ==
  /\ TookPacket("KPL")
  /\ lTimeOut' = IF Own THEN 0 ELSE lTimeOut
  /\ UNCHANGED <<session, at, thread, shellVars, oamVars, parserWord, lost, inputs>>
-----------------------------------------------------------------------------
\* The shell thread.

\* Parsing writes the words all shells share, and leaves the words past its own.
Parsed(s) ==
  LET words == Words(s)
  IN  [i \in WordSlots |-> IF i <= Len(words) THEN words[i] ELSE parserWord[i]]

OwnWords(n) == SubSeq([i \in WordSlots |-> parserWord[i]], 1, n)

NextLine(sh) == [sh EXCEPT !.at = "reading", !.line = FreshLine]

\* After a line that asked for help the shell offers it again without the '?'.
SameLine(sh) ==
  LET asked == sh.line
      l == asked.l - 1
  IN  [sh EXCEPT !.at = "reading",
                 !.line = [asked EXCEPT !.cmd[l] = NUL, !.l = l, !.cursor = l, !.esc = "no",
                                        !.in_history = 0, !.left = SubSeq(@, 1, Len(@) - 1)]]

\* The end of a line: "quit" ends the shell; a line goes into the history unless
\* it asks for help or for the history, and is parsed if there is anything in it.
Enter(sh, line, asked) ==
  LET s == String(line.cmd)
      entered == [sh EXCEPT !.line = line, !.asked = asked]
      noted == IF line.cmd[line.l - 1] = "?" \/ s = <<"h">> THEN entered
               ELSE [entered EXCEPT !.history = AddHistory(@, s)]
  IN  IF s = <<"q">> THEN shell' = [entered EXCEPT !.at = "closing"] /\ UNCHANGED parserWord
      ELSE IF line.l = 0 THEN shell' = NextLine(entered) /\ UNCHANGED parserWord
      ELSE /\ shell' = [noted EXCEPT !.at = "finding", !.n = Len(Words(s))]
           /\ parserWord' = Parsed(s)

\* One character: a key of the editor, or the end of the line.
Edited(line, key, sh) ==
  LET text == sh.vty.mode # MODE_EXEC
  IN  CASE key = NUL -> line
        [] key = "BS" -> IF line.cursor = 0 THEN line ELSE Erase(line, 1)
        [] key = "^W" -> IF line.cursor = 0 THEN line ELSE Erase(line, WordBack(line))
        [] key = "^U" -> ClearLine(line)
        [] key = "^K" -> KillToEnd(line)
        [] key = "^D" -> IF line.l = 0 THEN WithString(line, <<"q">>) ELSE line
        [] key = "^Z" -> IF text THEN DropLine(line) ELSE line
        [] key = "TAB" -> Complete(line, sh.vty)
        [] key \in {"^P", "^N"} -> Recall(line, key, sh.history)
        [] key = "^B" -> IF line.cursor = 0 THEN line ELSE MoveTo(line, line.cursor - 1)
        [] key = "^F" -> IF line.cursor = line.l THEN line ELSE MoveTo(line, line.cursor + 1)
        [] key = "^A" -> MoveTo(line, 0)
        [] key = "^E" -> MoveTo(line, line.l)
        [] OTHER -> Insert(line, key)

Ends(line, key, edited) ==
  \/ key = "CR"
  \/ key = "^D" /\ line.l = 0
  \/ key = "?" /\ edited # line /\ edited.cursor = edited.l

Typed(line, key, edited) ==
  LET sh == IF key = "^Z" THEN [shell EXCEPT !.vty.mode = MODE_EXEC] ELSE shell
  IN  IF Ends(line, key, edited) THEN Enter(sh, edited, key = "?")
      ELSE /\ shell' = [sh EXCEPT !.line = edited]
           /\ parserWord' = IF key = "TAB" /\ line.cursor = line.l
                            THEN Parsed(String(line.cmd)) ELSE parserWord

ReadKey ==
  /\ shell.at = "reading"
  /\ socket # <<>>
  /\ LET line == [shell.line EXCEPT !.esc = EscAfter(shell.line, Head(socket))]
         key == KeySeen(shell.line, Head(socket))
     IN  Typed(line, key, IF key = "CR" THEN line ELSE Edited(line, key, shell))
  /\ socket' = Tail(socket)
  /\ UNCHANGED <<ptyVars, oamVars, lost, inputs>>

AfterRun(ran) ==
  IF ran.vty.quit THEN [ran EXCEPT !.at = "closing"]
  ELSE IF ran.asked THEN SameLine(ran) ELSE NextLine(ran)

\* gw_cli_run_command after the parse.
RunCommand ==
  /\ shell.at = "finding"
  /\ LET ran == [shell EXCEPT !.vty = RunWords(OwnWords(shell.n), shell.vty)]
     IN  shell' = AfterRun(ran)
  /\ UNCHANGED <<ptyVars, socket, oamVars, parserWord, lost, inputs>>

\* The end of gw_cli_loop: OamPtyShellCloseNoti.
ShellCloseNoti ==
  /\ shell.at = "closing"
  /\ queue' = Put(queue, Notice)
  /\ lost' = (lost \/ Full(queue))
  /\ shell' = [NoShell EXCEPT !.at = "ended", !.vty = shell.vty]
  /\ UNCHANGED <<session, lTimeOut, at, thread, socket, oamVars, parserWord, inputs>>
-----------------------------------------------------------------------------
\* The OAM async thread: gw_cli_run_oam_command on a session that outlives the
\* request.

TakeRequest ==
  /\ async.at = "idle"
  /\ requests # <<>>
  /\ requests' = Tail(requests)
  /\ LET s == Head(requests)
     IN  /\ async' = [at |-> "finding", n |-> Len(Words(s))]
         /\ parserWord' = Parsed(s)
  /\ UNCHANGED <<ptyVars, shellVars, oamVty, lost, inputs>>

RunRequest ==
  /\ async.at = "finding"
  /\ oamVty' = RunWords(OwnWords(async.n), oamVty)
  /\ async' = [at |-> "idle", n |-> 0]
  /\ UNCHANGED <<ptyVars, shellVars, requests, parserWord, lost, inputs>>
-----------------------------------------------------------------------------
MainThread ==
  \/ TimerMsgProcess \/ CloseSilent
  \/ NotiMsgProcess \/ CloseSession \/ DeleteShell
  \/ ConnectReqPro \/ ConFreeReqPro \/ TypeQuit
  \/ Data \/ KeepAlive

Shell == ReadKey \/ RunCommand \/ ShellCloseNoti

Async == TakeRequest \/ RunRequest

Next ==
  \/ \E s \in Sessions :
       \/ \E code \in {"CONREQ", "FREEREQ", "KPL"} : PtyTrans(s, code, <<>>)
       \/ \E text \in Texts : PtyTrans(s, "DATA", text)
  \/ \E c \in Commands : AsyncTrans(c)
  \/ ShellTimerNoti
  \/ MainThread
  \/ Shell
  \/ Async

Spec ==
  /\ Init /\ [][Next]_vars
  /\ WF_vars(MainThread)
  /\ WF_vars(ShellTimerNoti)
-----------------------------------------------------------------------------
\* The editor works on a buffer, a length and a cursor that every key changes its
\* own way.  Until a full buffer, an overlong completion or ^Z over a typed line
\* break the bond, they are the text an editor without a buffer would hold, and
\* nothing is left behind its end.
LineIsWhatWasTyped ==
  shell.at = "reading" /\ ~ shell.line.garbled =>
    /\ String(shell.line.cmd) = shell.line.left \o shell.line.right
    /\ shell.line.cursor = Len(shell.line.left)
    /\ shell.line.l = shell.line.cursor + Len(shell.line.right)

\* Abbreviations, modes and the order of registration never hide a command that
\* is typed in full: in the mode it belongs to, its name runs it, unless one
\* registered before it has the same name there.
Path[i \in 0 .. Len(Tree)] ==
  IF i = 0 THEN <<>> ELSE Append(Path[Tree[i].under], Tree[i].name)

Vtys == {[mode |-> m, privilege |-> p, quit |-> q] :
           m \in {MODE_EXEC, MODE_CONFIG, MODE_SWITCH, MODE_DEBUG},
           p \in {Unprivileged, Privileged}, q \in BOOLEAN}

InMode(vty, i) == Allowed(vty, i) /\ Tree[i].mode \in {vty.mode, MODE_ANY}

First(vty, i) ==
  \A j \in Children(Tree[i].under) : j < i /\ Tree[j].name = Tree[i].name => ~ InMode(vty, j)

Reached[i \in 0 .. Len(Tree)] ==
  IF i = 0 THEN Vtys ELSE {vty \in Reached[Tree[i].under] : InMode(vty, i) /\ First(vty, i)}

FoundInFull ==
  {vty \in Vtys :
     \A i \in DOMAIN Tree :
       vty \in Reached[i] /\ Tree[i].does # "nothing" =>
         LET f == Find(Path[i], vty) IN f.out = "run" /\ f.command = i /\ f.args = <<>>}

FullNamesRun == shell.vty \in FoundInFull /\ oamVty \in FoundInFull

\* The privilege and the mode of a session change in commands, in ^Z, and in a
\* lookup that leaves a mode; no sequence of them leaves a session that has lost
\* its privilege in a mode of configuration.
ConfigNeedsPrivilege ==
  \A vty \in {shell.vty, oamVty} : vty.mode # MODE_EXEC => vty.privilege = Privileged

\* The session and its shell are ended by each other, over messages that wait in
\* a queue.  A shell runs only while there is a session or its end is under way,
\* and a session whose shell has ended has a notice of it on its way, unless the
\* queue had no room for it or the shell could not be started.
ShellFollowsSession ==
  /\ shell.at # None => thread /\ (session # None \/ at = "deleting")
  /\ session # None /\ shell.at \in {None, "ended"} =>
       Notice \in Range(queue) \/ at = "told" \/ lost

\* Users may fall silent, lose their connection, leave half a line behind "quit",
\* lose a notice in a full queue or never get a shell: the inputs being bounded,
\* there is no session in the end.
SessionsEnd == <>[](session = None)
=============================================================================
