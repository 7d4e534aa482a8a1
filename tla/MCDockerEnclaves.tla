--------------------------- MODULE MCDockerEnclaves ---------------------------
(***************************************************************************)
(* One enclave, made, destroyed and made again under a new UUID.            *)
(***************************************************************************)
EXTENDS DockerEnclaves

\* Every Docker call may fail but the one that kills the engine.
MCFailingCalls ==
  {"create network", "create volume", "connect", "remove volume", "remove network", "start apic",
   "remove container", "disconnect", "kill container", "aggregator", "proxy", "start engine",
   "find helper", "stop container"}
=============================================================================
