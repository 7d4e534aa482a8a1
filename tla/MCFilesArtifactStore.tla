----------------------- MODULE MCFilesArtifactStore -------------------------
(* A run's instructions next to a client of the API container; the first   *)
(* two UUIDs share their shortened form.                                   *)
EXTENDS FilesArtifactStore, TLC

CONSTANTS plan, rpc, config, certs, old, new, short1, short2

MCClients == {plan, rpc}
MCKinds == (plan :> {"upload", "render", "copy"}) @@ (rpc :> {"send", "copy", "download"})
MCNames == {config, certs}
MCContents == {old, new}
MCShort == <<short1, short1, short2>>
=============================================================================
