------------------------------ MODULE MCXrayManager -----------------------------
(* Three attempts, as `proxy` makes, so that a retry follows a retry; two rounds of wait_ready, so that a   *)
(* child may crash or bind between two of them; a foreign program on the port.  *)
EXTENDS XrayManager

MCMaxRestarts == 3
MCPollRounds == 2
=============================================================================
