-------------------------- MODULE MCRemoteServices --------------------------
(* One service of one device; every command, next to a list or a local       *)
(* removal; one removal of the device takes its epoch to the limit.          *)
EXTENDS RemoteServices, TLC

CONSTANTS c1, c2

Entries == [name : Name, published : BOOLEAN]

CommandsOf ==
  c1 :> {"apply", "start", "stop", "remove", "forget", "connect", "list"} @@ c2 :> {"forget", "list"}
=============================================================================
