--------------------------- MODULE MCRcpSettings ---------------------------
(* Two sessions set a switch of two ports; two registers are saved. *)
EXTENDS RcpSettings

CONSTANTS s1, s2

C(cmd, ports, value) == [cmd |-> cmd, ports |-> ports, value |-> value]

SomeSessions == {s1, s2}

SomeCommands ==
  (s1 :> {C("loopback auto_detect", <<>>, 1), C("mgt reset", <<>>, 0), C("config-file", <<>>, "save"),
          C("rcpeeprom", <<>>, <<1, 1>>), C("get rcpphy", <<>>, <<1, 4>>),
          C("multicast flow_control", <<>>, 1)})
    @@ (s2 :> {C("port enable", <<2>>, 1), C("config-file", <<>>, "save"), C("config-file", <<>>, "clear"),
               C("rcpeeprom", <<>>, <<0, 2>>), C("storm filter", <<>>, 0)})

SavedRegisters == <<LoopDetect.addr, PortSpeedConfig(1).addr>>
=============================================================================
