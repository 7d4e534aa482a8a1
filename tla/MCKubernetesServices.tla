------------------------ MODULE MCKubernetesServices ------------------------
(* Two services, one of which may be broken while the other is used.       *)
EXTENDS KubernetesServices

CONSTANTS db, web, small, large

MCNames == {db, web}
MCConfigs == {small, large}
=============================================================================
