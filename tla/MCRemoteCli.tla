---------------------------- MODULE MCRemoteCli ----------------------------
EXTENDS RemoteCli

\* Names cut to a letter or two, in the order of gw_cli_tree_init, the switch
\* commands and the ONU commands: "interface switch" enters the mode of a switch,
\* and "port" is a command of that mode and, later, of every mode.
Command(name, under, mode, priv, does) ==
  [name |-> name, under |-> under, mode |-> mode, priv |-> priv, does |-> does]

MCTree == <<
  Command(<<"t", "e">>, 0, MODE_EXEC, 0, "enable"),
  Command(<<"t", "d">>, 0, MODE_EXEC, 15, "disable"),
  Command(<<"q">>, 0, MODE_ANY, 0, "quit"),
  Command(<<"e", "x">>, 0, MODE_ANY, 0, "exit"),
  Command(<<"e">>, 0, MODE_EXEC, 15, "configure"),
  Command(<<"a">>, 0, MODE_CONFIG, 15, "debug"),
  Command(<<"i">>, 0, MODE_CONFIG, 15, "nothing"),
  Command(<<"s">>, 7, MODE_CONFIG, 15, "switch"),
  Command(<<"p">>, 0, MODE_SWITCH, 15, "nothing"),
  Command(<<"s">>, 9, MODE_SWITCH, 15, "other"),
  Command(<<"p">>, 0, MODE_ANY, 0, "other"),
  Command(<<"s", "v">>, 11, MODE_ANY, 0, "other") >>

Line(keys) == keys \o <<"CR", "LF">>

\* Into the mode of a switch; editing, a question, the line before it again; keys
\* over the length of the line, ^Z over a line that is not empty; "quit".
MCTexts == {
  <<"LF", "e", "CR", "i", " ", "s", " ", "1", "CR", "LF">>,
  <<"p", " ", "^B", "x", "BS", "^E", "?", "IAC", "^W", "^A", "t", "^B", "a", "^K", "CR",
    "ESC", "[", "A", "TAB", "^U">>,
  <<"a", "TAB", "s", " ", "1", "^A", "^F", "x", "^N", "^Z", "p", "CR", "^D">> }

MCCommands == { <<"t", "e">>, <<"e">>, <<"q">> }
=============================================================================
