------------------------- MODULE MCServiceNetwork ---------------------------
(* Two services, so that a batch of both, of one, and an update next to an *)
(* addition occur.                                                         *)
EXTENDS ServiceNetwork

CONSTANTS db, web, small, large

MCNames == {db, web}
MCConfigs == {small, large}
=============================================================================
