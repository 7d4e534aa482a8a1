--------------------------- MODULE MCStarlarkLogs ---------------------------
(* StarlarkLogs for TLC: a handler whose client speaks plain HTTP, and may *)
(* wait for a run, and one whose client asks for a websocket.              *)
EXTENDS StarlarkLogs

CONSTANTS curl, browser

MCConsumers == {curl, browser}
MCSockets == {browser}
=============================================================================
