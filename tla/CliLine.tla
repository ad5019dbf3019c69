------------------------------ MODULE CliLine ------------------------------
(***************************************************************************)
(* The engine under every command line of the ONU, cli_lib/cli_parser.c    *)
(* and cli_common.c, as operators: the line editor, the history, and the   *)
(* tree of commands with its lookup by abbreviated words, its modes and    *)
(* its privileges.  RemoteCli builds the shells out of them.               *)
(*                                                                         *)
(* A character is a string of one letter and a key one of these or a named *)
(* control key; names of commands are in one case, where the code compares *)
(* without case.  What the shell echoes, prompts and lists is left out, as *)
(* are quotes, '|' and passwords, which no remote shell asks for.          *)
(***************************************************************************)
EXTENDS Integers, Sequences, FiniteSets, FiniteSetsExt, SequencesExt

CONSTANTS
  MaxLine,       \* MAX_LINE_LENTH
  MaxHistory,    \* MAX_HISTORY
  Tree           \* the commands in the order they are registered:
                 \*   [name, under (0 for the root), mode, priv, does]

ASSUME LineAssumption == MaxLine \in Nat /\ MaxLine > 3 /\ MaxHistory \in Nat \ {0}

\* What a string holds: characters before its terminator; a space ends a word.
NUL == ""
SP == " "
Chars == STRING \ {NUL}

ASSUME TreeAssumption ==
  /\ Len(Tree) \in Nat /\ DOMAIN Tree = 1 .. Len(Tree)
  /\ \A i \in DOMAIN Tree : Tree[i].under \in 0 .. i - 1 /\ Tree[i].name \in Seq(Chars)

\* Every command registered has a name, and none ends in the '?' that asks for help.
ASSUME NamesAssumption ==
  \A i \in DOMAIN Tree : Tree[i].name # <<>> /\ Last(Tree[i].name) # "?"

MODE_ANY == -1
MODE_EXEC == 0
MODE_CONFIG == 1
MODE_SWITCH == 2
MODE_DEBUG == 11
-----------------------------------------------------------------------------
\* The line.  left, right and garbled are history: the text an editor with no
\* buffer would hold on both sides of the cursor, and whether the line has
\* gone where the buffer no longer follows it.
Junk == "~"

FreshLine ==
  [cmd |-> [i \in 0 .. MaxLine - 1 |-> NUL], l |-> 0, cursor |-> 0, esc |-> "no",
   in_history |-> 0, left |-> <<>>, right |-> <<>>, garbled |-> FALSE]

\* The string in the buffer, up to its terminator.
String(cmd) ==
  LET n == Min({i \in 0 .. MaxLine - 1 : cmd[i] = NUL} \union {MaxLine})
  IN  [i \in 1 .. n |-> cmd[i - 1]]

WithString(line, s) ==
  [line EXCEPT !.cmd = [i \in 0 .. MaxLine - 1 |-> IF i < Len(s) THEN s[i + 1] ELSE NUL],
               !.l = Len(s), !.cursor = Len(s), !.left = s, !.right = <<>>]

Without(cmd, from, upto) ==
  [i \in 0 .. MaxLine - 1 |-> IF from <= i /\ i < upto THEN NUL ELSE cmd[i]]

\* A key as the editor sees it after escape sequences and what it ignores.
Arrow == [A |-> "^P", B |-> "^N", C |-> "^F", D |-> "^B"]

KeySeen(line, key) ==
  CASE key = "IAC"        -> NUL
    [] line.esc = "["     -> IF key \in DOMAIN Arrow THEN Arrow[key] ELSE NUL
    [] line.esc = "ESC"   -> NUL
    [] key \in {"ESC", "LF", "^C", "^L"} -> NUL
    [] OTHER              -> key

EscAfter(line, key) ==
  CASE key = "IAC" -> line.esc
    [] line.esc = "ESC" /\ key = "[" -> "["
    [] line.esc = "no" /\ key = "ESC" -> "ESC"
    [] OTHER -> "no"

\* Backspace: one character before the cursor goes, the rest moves up, with it
\* the byte behind the terminator.
EraseOne(line) ==
  LET at == line.cursor - 1
      next == [i \in 0 .. MaxLine - 1 |-> IF i + 1 < MaxLine THEN line.cmd[i + 1] ELSE Junk]
  IN  [line EXCEPT
         !.cmd = IF line.cursor = line.l THEN [@ EXCEPT ![at] = NUL]
                 ELSE [i \in 0 .. MaxLine - 1 |-> IF i \in at .. line.l THEN next[i] ELSE @[i]],
         !.cursor = at, !.l = @ - 1,
         !.left = SubSeq(@, 1, Len(@) - 1),
         !.garbled = @ \/ (line.cursor < line.l /\ line.l + 1 = MaxLine)]

Erase(line, n) ==
  LET erased[k \in 0 .. n] == IF k = 0 THEN line ELSE EraseOne(erased[k - 1])
  IN  erased[n]

\* ^W: spaces before the cursor, then the word before them.
WordBack(line) ==
  LET last == Max({i \in 1 .. line.cursor : line.cmd[i - 1] # SP} \union {0})
      start == Max({i \in 1 .. last : line.cmd[i - 1] = SP} \union {0})
  IN  line.cursor - start

\* A normal character: appended, or inserted by moving the rest and the
\* terminator; in a line that is nearly full the last character gives way.  A
\* cursor behind the buffer starts over.
Insert(line, c) ==
  IF line.cursor = line.l
  THEN LET at == IF line.cursor < MaxLine THEN line.cursor ELSE 0
       IN  IF at < MaxLine - 1
           THEN [line EXCEPT !.cmd[at] = c, !.l = at + 1, !.cursor = at + 1, !.left = Append(@, c)]
           ELSE [line EXCEPT !.cmd[MaxLine - 1] = NUL]
  ELSE LET l == IF line.l >= MaxLine - 2 THEN line.l - 1 ELSE line.l
       IN  [line EXCEPT
              !.cmd = [i \in 0 .. MaxLine - 1 |->
                         IF i = line.cursor THEN c
                         ELSE IF i \in line.cursor + 1 .. l + 1 THEN @[i - 1] ELSE @[i]],
              !.l = l + 1, !.cursor = @ + 1,
              !.left = Append(@, c),
              !.garbled = @ \/ line.l >= MaxLine - 2]

ClearLine(line) ==
  [line EXCEPT !.cmd = Without(@, 0, line.l), !.l = 0, !.cursor = 0,
               !.left = <<>>, !.right = <<>>]

\* ^K that shortens the line and leaves the text behind its end.
KillLeavesText(line) == [line EXCEPT !.l = line.cursor, !.right = <<>>]

KillToEnd(line) ==
  [line EXCEPT !.cmd = Without(@, line.cursor, line.l), !.l = line.cursor, !.right = <<>>]

\* ^Z out of a mode clears the line on the screen and in the buffer, but
\* gw_cli_clear_line has the length and the cursor by value.
DropLine(line) ==
  [line EXCEPT !.cmd = Without(@, 0, line.l), !.garbled = @ \/ line.l > 0]

MoveTo(line, to) ==
  LET text == line.left \o line.right
      k == IF to <= Len(text) THEN to ELSE Len(text)
  IN  [line EXCEPT !.cursor = to,
                   !.left = SubSeq(text, 1, k), !.right = SubSeq(text, k + 1, Len(text))]
-----------------------------------------------------------------------------
\* The history: MaxHistory strings, <<>> for one not used.
NoHistory == [i \in 0 .. MaxHistory - 1 |-> <<>>]

AddHistory(history, s) ==
  LET free == {i \in 0 .. MaxHistory - 1 : history[i] = <<>>}
      i == Min(free)
  IN  IF free = {}
      THEN [j \in 0 .. MaxHistory - 1 |-> IF j < MaxHistory - 1 THEN history[j + 1] ELSE s]
      ELSE IF i > 0 /\ history[i - 1] = s THEN history ELSE [history EXCEPT ![i] = s]

\* Where ^P and ^N go: ^P past the first entry wraps to the last one used, ^N
\* past the last one used to the first.
HistoryAt(line, key, history) ==
  LET h == IF key = "^P" THEN line.in_history - 1 ELSE line.in_history + 1
  IN  IF key = "^P"
      THEN IF h >= 0 THEN h
           ELSE Max({i \in 0 .. MaxHistory - 1 : history[i] # <<>>} \union {-1})
      ELSE IF h >= MaxHistory THEN 0 ELSE IF history[h] = <<>> THEN 0 ELSE h

Recall(line, key, history) ==
  LET h == HistoryAt(line, key, history)
      moved == [line EXCEPT !.in_history = h]
  IN  IF h < 0 THEN moved
      ELSE IF history[h] = <<>> THEN moved
      ELSE WithString(moved, SubSeq(history[h], 1, Min({Len(history[h]), MaxLine - 1})))
-----------------------------------------------------------------------------
\* The words of a string.
Words(s) ==
  LET starts == {i \in DOMAIN s : s[i] # SP /\ (i > 1 => s[i - 1] = SP)}
      WordAt(i) == SubSeq(s, i, Max({j \in i .. Len(s) : \A k \in i .. j : s[k] # SP}))
      Nth(n) == CHOOSE i \in starts : Cardinality({j \in starts : j <= i}) = n
  IN  [n \in 1 .. Cardinality(starts) |-> WordAt(Nth(n))]

\* The tree of commands.  Its lists are in the order of registration.
Least(S) == CHOOSE i \in S : \A j \in S : i <= j
Greatest(S) == CHOOSE i \in S : \A j \in S : j <= i
Children(i) == {j \in DOMAIN Tree : Tree[j].under = i}
Nobody == -1

\* The letters two names share, without the one that tells them apart.
ShortestShared(c, list) ==
  LET Common(p) == LongestCommonPrefix({Tree[c].name, Tree[p].name})
  IN  Greatest({1} \union {Len(Common(p)) : p \in list \ {c}})

\* gw_cli_build_shortest for one list: as many letters as tell a name from
\* every other one in the list.
Shortest(c, list) ==
  LET Common(p) == LongestCommonPrefix({Tree[c].name, Tree[p].name})
  IN  Greatest({1} \union {1 + Len(Common(p)) : p \in list \ {c}})

\* A registration recomputes the lists at and below the one it is given: the
\* whole tree for a command at the root, else the parent and the siblings
\* registered after the parent.
AfterRegistration(unique, n) ==
  LET known == 1 .. n
      parent == Tree[n].under
      top == IF parent = 0 THEN Children(0) \intersect known
             ELSE {j \in Children(Tree[parent].under) \intersect known : j >= parent}
      below[j \in 0 .. n] == j \in top \/ (j > 0 /\ below[Tree[j].under])
  IN  [c \in known |->
         IF c \in top THEN Shortest(c, top)
         ELSE IF below[c] THEN Shortest(c, Children(Tree[c].under) \intersect known)
         ELSE unique[c]]

Registered[n \in 0 .. Len(Tree)] ==
  IF n = 0 THEN <<>> ELSE AfterRegistration(Registered[n - 1], n)

unique_len == Registered[Len(Tree)]

Allowed(vty, c) == vty.privilege >= Tree[c].priv

\* strncasecmp(command, word, n) = 0, and a word that begins a name.
SameUpTo(name, word, n) ==
  LET Cut(s) == IF n < Len(s) THEN SubSeq(s, 1, n) ELSE s IN Cut(name) = Cut(word)
Begins(word, c) == Len(word) <= Len(Tree[c].name) /\ SameUpTo(Tree[c].name, word, Len(word))
Names(word, c, unique) == Begins(word, c) /\ SameUpTo(Tree[c].name, word, unique[c])

\* gw_cli_find_command: what the words call.  The first command in the list that
\* the word names in this mode; failing that, below CONFIG, the last one of
\* CONFIG it names, and the shell has left its mode even if the rest of the
\* line is wrong.  A command whose next word is nobody's name takes it for its
\* argument.
Found(out, c, args, mode) == [out |-> out, command |-> c, args |-> args, mode |-> mode]

\* At the i-th word, in the list below parent and in a mode; find has the answers
\* for the words after it.
FindAt(find, unique, words, vty, i, parent, mode) ==
  LET named == {c \in Children(parent) : Allowed(vty, c) /\ Names(words[i], c, unique)}
      here == {c \in named : Tree[c].mode \in {mode, MODE_ANY}}
      other == IF mode > MODE_CONFIG
               THEN {c \in named : Tree[c].mode = MODE_CONFIG} ELSE {}
      c == IF here # {} THEN Least(here) ELSE Greatest(other)
      now == IF here # {} THEN mode ELSE MODE_CONFIG
      runs == Tree[c].does # "nothing"
      Run(m) == Found("run", c, SubSeq(words, i + 1, Len(words)), m)
      rest == find[<<i + 1, c, now>>]
  IN  IF Last(words[i]) = "?" THEN Found("help", 0, <<>>, mode)
      ELSE IF here = {} /\ other = {} THEN Found("argument", 0, <<>>, mode)
      ELSE IF Children(c) = {} \/ i = Len(words)
           THEN IF runs THEN Run(now) ELSE Found("error", 0, <<>>, now)
      ELSE IF rest.out = "argument" /\ runs THEN Run(rest.mode) ELSE rest

FindBy(unique, words, vty) ==
  LET Places == (1 .. Len(words)) \X (0 .. Len(Tree)) \X {vty.mode, MODE_CONFIG}
      find[p \in Places] == FindAt(find, unique, words, vty, p[1], p[2], p[3])
  IN  find[<<1, 0, vty.mode>>]

Find(words, vty) == FindBy(unique_len, words, vty)

\* gw_cli_get_completions: the commands the last word may stand for, in the list
\* below the commands the words before it name.
Completions(words, vty) ==
  LET n == Len(words)
      Open(i, parent) == {c \in Children(parent) : Allowed(vty, c)
                            /\ Tree[c].mode \in {vty.mode, MODE_ANY} /\ Begins(words[i], c)}
      Sure(i, parent) == {c \in Open(i, parent) : Len(words[i]) >= unique_len[c]}
      below[i \in 0 .. n - 1] ==
        IF i = 0 THEN 0
        ELSE IF Sure(i, below[i - 1]) = {} THEN Nobody ELSE Least(Sure(i, below[i - 1]))
  IN  IF n = 0 THEN {} ELSE Open(n, below[n - 1])

WordsToComplete(s) ==
  IF s = <<>> \/ Last(s) = SP THEN Append(Words(s), <<>>) ELSE Words(s)

\* TAB at the end of the line: a single completion replaces the last word, if
\* need be over the end of the buffer.
Completed(line, commands) ==
  LET name == Tree[CHOOSE c \in commands : TRUE].name
      start == Max({i \in 1 .. line.l : line.cmd[i - 1] = SP} \union {0})
      end == start + Len(name)
  IN  IF line.cursor # line.l \/ Cardinality(commands) # 1 THEN line
      ELSE [line EXCEPT
              !.cmd = [i \in 0 .. MaxLine - 1 |->
                         IF i < start THEN @[i] ELSE IF i < end THEN name[i - start + 1]
                         ELSE IF i = end THEN SP ELSE @[i]],
              !.l = end + 1, !.cursor = end + 1,
              !.left = SubSeq(@, 1, start) \o name \o <<SP>>,
              !.garbled = @ \/ end + 1 >= MaxLine]

Complete(line, vty) == Completed(line, Completions(WordsToComplete(String(line.cmd)), vty))
-----------------------------------------------------------------------------
\* A shell or an OAM session: [mode, privilege, quit], quit once its last
\* command has asked for the end.
Unprivileged == 0
Privileged == 15
NewVty == [mode |-> MODE_EXEC, privilege |-> Unprivileged, quit |-> FALSE]
ShellVty == [NewVty EXCEPT !.privilege = Privileged]

\* A quit that ends the session and leaves it in its mode.
QuitKeepsMode(vty) == [vty EXCEPT !.privilege = Unprivileged, !.quit = TRUE]

\* The callbacks of the commands of gw_cli_tree_init, and of one that enters the
\* mode of a switch.  A last argument that ends in '?' asks for help.
quit(vty) == [mode |-> MODE_EXEC, privilege |-> Unprivileged, quit |-> TRUE]
disable(vty) == [vty EXCEPT !.mode = MODE_EXEC, !.privilege = Unprivileged]
enable(vty) ==
  IF vty.privilege = Privileged THEN vty
  ELSE [vty EXCEPT !.mode = MODE_EXEC, !.privilege = Privileged]
exit(vty) ==
  IF vty.mode = MODE_EXEC THEN quit(vty)
  ELSE [vty EXCEPT !.mode = IF @ > MODE_CONFIG THEN MODE_CONFIG ELSE MODE_EXEC]
configure(vty) == [vty EXCEPT !.mode = MODE_CONFIG, !.privilege = Privileged]
debug(vty) == [vty EXCEPT !.mode = MODE_DEBUG, !.privilege = Privileged]
switch(vty) == [vty EXCEPT !.mode = MODE_SWITCH, !.privilege = Privileged]

Callback(vty, does, args) ==
  IF args # <<>> /\ Last(Last(args)) = "?" THEN vty
  ELSE CASE does = "enable"                          -> enable(vty)
         [] does = "disable"                         -> disable(vty)
         [] does = "switch" /\ Len(args) = 1         -> switch(vty)
         [] does = "quit" /\ args = <<>>             -> quit(vty)
         [] does = "exit" /\ args = <<>>             -> exit(vty)
         [] does = "configure" /\ args = <<>>        -> configure(vty)
         [] does = "debug" /\ args = <<>>            -> debug(vty)
         [] OTHER                                    -> vty

RunFound(f, vty) ==
  LET moved == [vty EXCEPT !.mode = f.mode, !.quit = FALSE]
  IN  IF f.out = "run" THEN Callback(moved, Tree[f.command].does, f.args) ELSE moved

RunWords(words, vty) == IF words = <<>> THEN vty ELSE RunFound(Find(words, vty), vty)
=============================================================================
