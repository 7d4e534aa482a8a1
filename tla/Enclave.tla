------------------------------ MODULE Enclave -------------------------------
(***************************************************************************)
(* What the service network promises to the Starlark instructions: one     *)
(* step begins an instruction, one ends it, and the enclave changes in the *)
(* second only.  ServiceNetwork with its calls of Docker, and              *)
(* KubernetesServices with its calls of Kubernetes, implement this.        *)
(***************************************************************************)
CONSTANTS Names, Configs, NoConfig, Absent

VARIABLES
  services,   \* by name: Absent, or its UUID, its config and whether it is up
  request,    \* the instruction: its kind, the names and the config it gives
  pending,    \* has it begun and not ended?
  result      \* how it ended: "success", "failure", or "none"

vars == <<services, request, pending, result>>

Request == [kind : {"add", "remove", "stop", "start"}, names : SUBSET Names,
            config : Configs \cup {NoConfig}]

Init ==
  /\ services = [n \in Names |-> Absent]
  /\ ~pending /\ result = "none"

(* add_service(s), remove_service, stop_service, start_service.            *)
Begin ==
  /\ ~pending /\ pending'
  /\ request' \in Request /\ result' = "none"
  /\ UNCHANGED services

-----------------------------------------------------------------------------
New == {n \in request.names : services[n] = Absent}
Keeps(n)   == services'[n] # Absent /\ services'[n].uuid = services[n].uuid
Deploys(n) == services'[n] # Absent /\ services'[n].up /\ services'[n].config = request.config
Sets(n, up) == services'[n] = [services[n] EXCEPT !.up = up]

Identified ==
  \A m, n \in Names : m # n /\ services[m] # Absent /\ services[n] # Absent
                        => services[m].uuid # services[n].uuid

(* Whatever the end, the services an instruction does not name stay as     *)
(* they are, and no two services have one UUID.                            *)
End ==
  /\ pending /\ ~pending' /\ UNCHANGED request
  /\ \A n \in Names \ request.names : services'[n] = services[n]
  /\ Identified'

(* A success has done what the instruction says, to all that it names: an  *)
(* add leaves the services that were there with their UUID.                *)
Succeed ==
  /\ End /\ result' = "success"
  /\ \A n \in request.names :
       \/ request.kind = "add" /\ Deploys(n) /\ (n \in New \/ Keeps(n))
       \/ request.kind = "remove" /\ services'[n] = Absent
       \/ request.kind = "stop" /\ Sets(n, FALSE)
       \/ request.kind = "start" /\ Sets(n, TRUE)

(* A failed add leaves all of its new services (a readiness check failed)  *)
(* or none of them.  An update that failed may have lost its container or  *)
(* its registration, and never has another UUID.  A failed stop, start or  *)
(* removal may leave the service up or down, and otherwise as it was.      *)
Fail ==
  /\ End /\ result' = "failure"
  /\ IF request.kind = "add"
       THEN /\ (\A n \in New : Deploys(n)) \/ (\A n \in New : services'[n] = Absent)
            /\ \A n \in request.names \ New : services'[n] = Absent \/ Keeps(n)
       ELSE \A n \in request.names : \E up \in BOOLEAN : Sets(n, up)

(* The API container died: the services named are anywhere in between.     *)
Break == End /\ result' = "none"

Next == Begin \/ Succeed \/ Fail \/ Break

Spec == Init /\ [][Next]_vars
=============================================================================
