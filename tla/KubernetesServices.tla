------------------------- MODULE KubernetesServices -------------------------
(***************************************************************************)
(* The services of one enclave on Kubernetes (kubernetes_kurtosis_backend/ *)
(* user_services_functions/) under DefaultServiceNetwork, an instruction   *)
(* on one service at a time.  A service is a Kubernetes Service, which is  *)
(* the registration's counterpart and has the service's name, a stateful   *)
(* set of the same name with one pod, and a claim for its persistent       *)
(* directory.  Each step is one call of Kubernetes that changes something, *)
(* with the reads before it, or one transaction of the enclave's database. *)
(***************************************************************************)
EXTENDS Naturals, FiniteSets

CONSTANTS
  Names, Configs, NoConfig,
  MaxUuid,     \* bound on the registrations ever made
  MaxOps,      \* bound on the instructions executed
  MaxFaults    \* bound on failed calls, lost pods and crashes together

ASSUME KubernetesAssumption ==
  /\ Names # {} /\ NoConfig \notin Configs
  /\ MaxUuid \in Nat /\ MaxOps \in Nat /\ MaxFaults \in Nat

VARIABLES
  reg,      \* the registrations of the enclave's database, by name
  minted,   \* the number of UUIDs generated
  svc,      \* the Kubernetes Services: UUID label, are the ports annotated?
  set,      \* the stateful sets: UUID label, config, pod, is it going away?
  claim,    \* the claims: their phase, and do they hold the service's data?
  op,       \* the phase of the instruction
  kind, name, want,   \* the instruction: "add", "remove", "stop" or "start"
  uuid,     \* the UUID it works with
  inRun,    \* is the run that was validated still going on?
  last,     \* how the last instruction ended
  before,   \* history: the enclave when the instruction began
  files,    \* history: what becomes of the files a service writes
  warned,   \* history: services whose stateful set the log says to remove
  ops, faults

clusterVars == <<svc, set, claim>>
dbVars      == <<reg, minted>>
jobVars     == <<kind, name, want, before, ops>>
runVars     == <<inRun, last>>
history     == <<files, warned>>
vars == <<clusterVars, dbVars, jobVars, op, uuid, runVars, history, faults>>

Uuid == 1 .. MaxUuid
None == [uuid |-> 0]       \* no registration, no object of that name
NoClaim == [phase |-> "none", data |-> FALSE]

Registered(n) == reg[n] # None

(* A service as a script sees it: it is up when its registration says so   *)
(* and the cluster has been told to run it with the registration's config. *)
Seen == [n \in Names |->
  IF ~Registered(n) THEN None
  ELSE [uuid |-> reg[n].uuid, config |-> reg[n].config,
        up |-> /\ reg[n].status = "started" /\ set[n] # None
               /\ set[n].uuid = reg[n].uuid /\ set[n].config = reg[n].config
               /\ ~set[n].leaving]]

Init ==
  /\ reg = [n \in Names |-> None] /\ minted = 0
  /\ svc = [n \in Names |-> None] /\ set = [n \in Names |-> None]
  /\ claim = [n \in Names |-> NoClaim]
  /\ op = "idle" /\ kind = "none" /\ name \in Names /\ want = NoConfig /\ uuid = 0
  /\ inRun = FALSE /\ last = "none"
  /\ before = Seen /\ files = [n \in Names |-> "none"] /\ warned = {}
  /\ ops = 0 /\ faults = 0

Fault   == faults < MaxFaults /\ faults' = faults + 1
NoFault == UNCHANGED faults
Ends(result) == op' = "idle" /\ last' = result /\ inRun' = (result = "success")
GoTo(phase)  == op' = phase /\ UNCHANGED runVars

-----------------------------------------------------------------------------
(* GetMatchingUserServiceObjectsAndKubernetesResources for one UUID: it is *)
(* an error when there is a stateful set without Kubernetes Service, and   *)
(* GetPod panics (pods[0]) when the set of a started service has no pod.   *)
HasService(n, u) == svc[n] # None /\ svc[n].uuid = u
HasSet(n, u)     == set[n] # None /\ set[n].uuid = u
ListingFails(n, u)  == HasSet(n, u) /\ ~HasService(n, u)
ListingPanics(n, u) == HasService(n, u) /\ svc[n].ports /\ HasSet(n, u) /\ set[n].pod = "none"
Listed(n, u) == ~ListingFails(n, u) /\ ~ListingPanics(n, u)

(* The validator gets every registered service before a run: one without   *)
(* Kubernetes Service, or never started, makes every run fail.             *)
Validated == \A n \in Names : Registered(n) =>
  HasService(n, reg[n].uuid) /\ svc[n].ports /\ Listed(n, reg[n].uuid)

Enter(k, n, c) ==
  /\ op = "idle" /\ ops < MaxOps
  /\ inRun \/ Validated
  /\ ops' = ops + 1
  /\ kind' = k /\ name' = n /\ want' = c /\ before' = Seen
  /\ uuid' = reg[n].uuid /\ last' = "none"
  /\ UNCHANGED <<clusterVars, dbVars, history, inRun, faults>>

RequestAdd ==
  \E n \in Names, c \in Configs :
    /\ Registered(n) \/ minted < MaxUuid
    /\ Enter("add", n, c)
    /\ op' = IF Registered(n) THEN "stop" ELSE "register"

RequestOther ==
  \E n \in Names, k \in {"remove", "stop", "start"} :
    /\ Registered(n)
    /\ Enter(k, n, reg[n].config)
    /\ op' = IF k = "start" THEN "list" ELSE "stop"

Updating == kind = "add" /\ before[name] # None

-----------------------------------------------------------------------------
(* registerService: the Kubernetes Service, without the ports, and then    *)
(* the registration.  The name may belong to a Service that was left.      *)
TakesWhatIsThere ==   \* mutant: "already exists" is taken for success
  /\ op = "register"
  /\ minted' = minted + 1 /\ uuid' = minted'
  /\ svc' = IF svc[name] = None THEN [svc EXCEPT ![name] = [uuid |-> minted', ports |-> FALSE]]
                                ELSE svc
  /\ GoTo("save")
  /\ UNCHANGED <<reg, set, claim, jobVars, history, faults>>

CreateService ==
  /\ op = "register" /\ svc[name] = None
  /\ minted' = minted + 1 /\ uuid' = minted'
  /\ svc' = [svc EXCEPT ![name] = [uuid |-> minted', ports |-> FALSE]]
  /\ GoTo("save")
  /\ UNCHANGED <<reg, set, claim, jobVars, history, faults>>

CreateServiceFails ==
  /\ op = "register"
  /\ (svc[name] # None /\ NoFault) \/ Fault
  /\ Ends("failure")
  /\ UNCHANGED <<clusterVars, dbVars, jobVars, uuid, history>>

Save ==
  /\ op = "save"
  /\ reg' = [reg EXCEPT ![name] = [uuid |-> uuid, status |-> "registered", config |-> NoConfig]]
  /\ GoTo("list")
  /\ UNCHANGED <<clusterVars, minted, jobVars, uuid, history, faults>>

-----------------------------------------------------------------------------
(* StartRegisteredUserServices.  A failure ends start_service, and an      *)
(* update; the services that an add registered are unregistered.           *)
NoRollback ==   \* mutant: a service whose start failed stays registered
  Ends("failure")

StartFails ==
  IF kind = "add" /\ ~Updating THEN GoTo("unregister") ELSE Ends("failure")

ListRegistered ==
  /\ op = "list" /\ want # NoConfig
  /\ Listed(name, uuid) /\ HasService(name, uuid)
  /\ GoTo("claim")
  /\ UNCHANGED <<clusterVars, dbVars, jobVars, uuid, history, faults>>

ListRegisteredFails ==
  /\ op = "list" /\ want # NoConfig
  /\ \/ NoFault /\ ~HasService(name, uuid)
     \/ Fault
  /\ StartFails
  /\ UNCHANGED <<clusterVars, dbVars, jobVars, uuid, history>>

(* preparePersistentDirectoriesResources uses the claim of that name or    *)
(* makes it; what fails here cleans nothing up.                            *)
ClaimDirectory ==
  /\ op = "claim" /\ claim[name].phase # "leaving"
  /\ claim' = [claim EXCEPT ![name].phase = "bound"]
  /\ files' = [files EXCEPT ![name] = IF @ = "given up" THEN "none" ELSE @]
  /\ GoTo("set")
  /\ UNCHANGED <<svc, set, dbVars, jobVars, uuid, warned, faults>>

ClaimDirectoryFails ==
  /\ op = "claim" /\ Fault
  /\ StartFails
  /\ UNCHANGED <<clusterVars, dbVars, jobVars, uuid, history>>

(* From here on the deferred functions of createStartServiceOperation run  *)
(* on a failure, last in first out: the stateful set, then the claim.      *)
Undo(phase) ==
  /\ GoTo(phase)
  /\ files' = [files EXCEPT ![name] = "given up"] /\ UNCHANGED warned

CreateStatefulSet ==
  /\ op = "set" /\ set[name] = None
  /\ set' = [set EXCEPT ![name] = [uuid |-> uuid, config |-> want, pod |-> "none",
                                   leaving |-> FALSE]]
  /\ GoTo("wait")
  /\ UNCHANGED <<svc, claim, dbVars, jobVars, uuid, history, faults>>

CreateStatefulSetFails ==
  /\ op = "set"
  /\ (set[name] # None /\ NoFault) \/ Fault
  /\ Undo("dropClaim")
  /\ UNCHANGED <<clusterVars, dbVars, jobVars, uuid>>

WaitForPod ==
  /\ op = "wait" /\ set[name].pod = "ready"
  /\ GoTo("annotate")
  /\ UNCHANGED <<clusterVars, dbVars, jobVars, uuid, history, faults>>

WaitForPodFails ==
  /\ op = "wait" /\ Fault
  /\ Undo("dropSet")
  /\ UNCHANGED <<clusterVars, dbVars, jobVars, uuid>>

(* updateServiceWhenContainerStarted; the service is read again then, and  *)
(* what its undoing does depends on what was there before.                 *)
AnnotatePorts ==
  /\ op = "annotate"
  /\ svc' = [svc EXCEPT ![name].ports = TRUE]
  /\ GoTo(IF svc[name].ports THEN "reread" ELSE "read")
  /\ UNCHANGED <<set, claim, dbVars, jobVars, uuid, history, faults>>

AnnotatePortsFails ==
  /\ op = "annotate" /\ Fault
  /\ Undo("dropSet")
  /\ UNCHANGED <<clusterVars, dbVars, jobVars, uuid>>

Reading == {"read", "reread"}

(* StartServices marks the service; startRegisteredService waits for its   *)
(* ports first.                                                            *)
ClaimFlagNotReset ==   \* mutant: the claim's flag is not cleared on success
  /\ op \in Reading /\ set[name].pod # "none"
  /\ GoTo("dropClaim")
  /\ UNCHANGED <<clusterVars, dbVars, jobVars, uuid, history, faults>>

ReadService ==
  /\ op \in Reading /\ set[name].pod # "none"
  /\ GoTo(IF kind = "start" THEN "mark" ELSE "ports")
  /\ UNCHANGED <<clusterVars, dbVars, jobVars, uuid, history, faults>>

(* A Kubernetes Service that had no annotations loses that of its ports    *)
(* again.  In one that had them the same map was changed: it is applied    *)
(* once more, with the new ports.                                          *)
UndoAnnotation == svc' = IF op = "read" THEN [svc EXCEPT ![name].ports = FALSE] ELSE svc

ReadServiceFails ==
  /\ op \in Reading /\ Fault
  /\ UndoAnnotation \/ UNCHANGED svc
  /\ Undo("dropSet")
  /\ UNCHANGED <<set, claim, dbVars, jobVars, uuid>>

(* GetPod panics here too; the deferred functions run before the API       *)
(* container dies.                                                         *)
ReadServicePanics ==
  /\ op \in Reading /\ set[name].pod = "none"
  /\ (UndoAnnotation /\ NoFault) \/ (UNCHANGED svc /\ Fault)
  /\ Undo("panicSet")
  /\ UNCHANGED <<set, claim, dbVars, jobVars, uuid>>

(* A stateful set's deletion is waited for; when that fails the request    *)
(* was refused, or the set goes away later.                                *)
RemoveStatefulSet == set' = [set EXCEPT ![name] = None]
RemoveStatefulSetFails ==
  UNCHANGED set \/ set' = [set EXCEPT ![name].leaving = TRUE]

DropSet ==
  /\ op \in {"dropSet", "panicSet"}
  /\ \/ RemoveStatefulSet /\ NoFault /\ UNCHANGED warned
     \/ RemoveStatefulSetFails /\ Fault /\ warned' = warned \cup {name}
  /\ GoTo(IF op = "dropSet" THEN "dropClaim" ELSE "panicClaim")
  /\ UNCHANGED <<svc, claim, dbVars, jobVars, uuid, files>>

(* Every claim of the service is removed, those it found as well.          *)
DropClaim ==
  /\ op \in {"dropClaim", "panicClaim"}
  /\ \/ claim' = [claim EXCEPT ![name].phase = "leaving"] /\ NoFault
     \/ UNCHANGED claim /\ Fault
  /\ IF op = "dropClaim" THEN StartFails ELSE Ends("none")
  /\ UNCHANGED <<svc, set, dbVars, jobVars, uuid, history>>

-----------------------------------------------------------------------------
(* startRegisteredService: the ports open and the config is saved, or the  *)
(* service is destroyed.  UpdateServices and AddServices mark it then, as  *)
(* StartServices does.                                                     *)
PortsOpen ==
  /\ op = "ports"
  /\ reg' = [reg EXCEPT ![name].config = want]
  /\ GoTo("mark")
  /\ UNCHANGED <<clusterVars, minted, jobVars, uuid, history, faults>>

PortsStayClosed ==
  /\ op = "ports" /\ Fault
  /\ GoTo("destroy")
  /\ UNCHANGED <<clusterVars, dbVars, jobVars, uuid, history>>

Mark ==
  /\ op = "mark"
  /\ reg' = [reg EXCEPT ![name].status = "started"]
  /\ IF kind = "start" THEN Ends("success") ELSE GoTo("finish")
  /\ UNCHANGED <<clusterVars, minted, jobVars, uuid, history, faults>>

(* The readiness checks of add_service.                                    *)
Finish ==
  /\ op = "finish"
  /\ \/ Ends("success") /\ NoFault
     \/ Ends("failure") /\ Fault
  /\ UNCHANGED <<clusterVars, dbVars, jobVars, uuid, history>>

(* unregisterService: the registration, and then DestroyUserServices.      *)
Unregister ==
  /\ op = "unregister"
  /\ reg' = [reg EXCEPT ![name] = None]
  /\ GoTo("destroy")
  /\ UNCHANGED <<clusterVars, minted, jobVars, uuid, history, faults>>

(* DestroyUserServices: the Kubernetes Service, then the stateful set.  It *)
(* is called for ports that stay closed and when a service is unregistered.*)
Destroyed == IF Registered(name) THEN StartFails ELSE Ends("failure")

DestroyService ==
  /\ op = "destroy" /\ HasService(name, uuid) /\ Listed(name, uuid)
  /\ svc' = [svc EXCEPT ![name] = None]
  /\ GoTo("destroySet")
  /\ UNCHANGED <<set, claim, dbVars, jobVars, uuid, history, faults>>

DestroyFails ==
  /\ op = "destroy"
  /\ \/ NoFault /\ ~ListingPanics(name, uuid) /\ ~HasService(name, uuid)
     \/ Fault
  /\ Destroyed
  /\ warned' = IF HasSet(name, uuid) THEN warned \cup {name} ELSE warned
  /\ UNCHANGED <<clusterVars, dbVars, jobVars, uuid, files>>

DestroySet ==
  /\ op = "destroySet"
  /\ \/ /\ set' = IF HasSet(name, uuid) THEN [set EXCEPT ![name] = None] ELSE set
        /\ NoFault /\ UNCHANGED warned
     \/ /\ HasSet(name, uuid) /\ RemoveStatefulSetFails
        /\ Fault /\ warned' = warned \cup {name}
  /\ Destroyed
  /\ UNCHANGED <<svc, claim, dbVars, jobVars, uuid, files>>

-----------------------------------------------------------------------------
(* StopUserServices: the stateful set goes, the Kubernetes Service stays.  *)
(* UpdateServices then resets the registration and starts the service,     *)
(* StopServices marks it, RemoveService deletes the registration.          *)
StopService ==
  /\ op = "stop" /\ Listed(name, uuid)
  /\ set' = IF HasSet(name, uuid) THEN [set EXCEPT ![name] = None] ELSE set
  /\ GoTo("stopped")
  /\ UNCHANGED <<svc, claim, dbVars, jobVars, uuid, history, faults>>

StopServiceFails ==
  /\ op = "stop" /\ Fault
  /\ IF HasSet(name, uuid) THEN RemoveStatefulSetFails ELSE UNCHANGED set
  /\ Ends("failure")
  /\ UNCHANGED <<svc, claim, dbVars, jobVars, uuid, history>>

Stopped ==
  /\ op = "stopped"
  /\ \/ /\ kind = "add"
        /\ reg' = [reg EXCEPT ![name].status = "registered", ![name].config = NoConfig]
        /\ GoTo("list")
     \/ /\ kind = "stop"
        /\ reg' = [reg EXCEPT ![name].status = "stopped"] /\ Ends("success")
     \/ /\ kind = "remove"
        /\ reg' = [reg EXCEPT ![name] = None] /\ Ends("success")
  /\ UNCHANGED <<clusterVars, minted, jobVars, uuid, history, faults>>

-----------------------------------------------------------------------------
(* The API container dies, and its deployment starts it again on the same  *)
(* database: killed, or by a panic where nothing is undone.                *)
Dies == Ends("none") /\ UNCHANGED <<clusterVars, dbVars, jobVars, uuid, history>>

Crash == op # "idle" /\ Fault /\ Dies

(* start_service with a nil config; a stateful set without pod; a claim    *)
(* that is being deleted, for which GetPersistentVolumeClaim returns nil   *)
(* and no error.                                                           *)
Panic ==
  /\ \/ op = "list" /\ want = NoConfig
     \/ op \in {"list", "stop", "destroy"} /\ ListingPanics(name, uuid)
     \/ op = "claim" /\ claim[name].phase = "leaving"
  /\ Dies /\ NoFault

Step ==
  \/ CreateService \/ CreateServiceFails \/ Save
  \/ ListRegistered \/ ListRegisteredFails \/ ClaimDirectory \/ ClaimDirectoryFails
  \/ CreateStatefulSet \/ CreateStatefulSetFails \/ WaitForPod \/ WaitForPodFails
  \/ AnnotatePorts \/ AnnotatePortsFails \/ ReadService \/ ReadServiceFails
  \/ ReadServicePanics
  \/ DropSet \/ DropClaim \/ PortsOpen \/ PortsStayClosed \/ Mark \/ Finish
  \/ Unregister \/ DestroyService \/ DestroyFails \/ DestroySet
  \/ StopService \/ StopServiceFails \/ Stopped \/ Crash \/ Panic

(* Kubernetes: a set's pod is made, becomes ready when its claim is bound  *)
(* (and the service writes to its directory), and is evicted; what is      *)
(* being deleted goes away, a claim not while a pod uses it.               *)
outside == <<svc, dbVars, jobVars, op, uuid, runVars, warned>>

PodMade(n) ==
  /\ set[n] # None /\ set[n].pod = "none" /\ ~set[n].leaving
  /\ set' = [set EXCEPT ![n].pod = "pending"]
  /\ UNCHANGED <<claim, files, faults, outside>>

PodReady(n) ==
  /\ set[n] # None /\ set[n].pod = "pending" /\ claim[n].phase = "bound"
  /\ set' = [set EXCEPT ![n].pod = "ready"]
  /\ claim' = [claim EXCEPT ![n].data = TRUE]
  /\ files' = [files EXCEPT ![n] = IF @ = "none" THEN "kept" ELSE @]
  /\ UNCHANGED <<faults, outside>>

PodLost(n) ==
  /\ set[n] # None /\ set[n].pod # "none" /\ Fault
  /\ set' = [set EXCEPT ![n].pod = "none"]
  /\ UNCHANGED <<claim, files, outside>>

SetGone(n) ==
  /\ set[n] # None /\ set[n].leaving
  /\ set' = [set EXCEPT ![n] = None]
  /\ UNCHANGED <<claim, files, faults, outside>>

InUse(n) == set[n] # None /\ set[n].pod # "none"

ClaimGone(n) ==
  /\ claim[n].phase = "leaving" /\ ~InUse(n)
  /\ claim' = [claim EXCEPT ![n] = NoClaim]
  /\ UNCHANGED <<set, files, faults, outside>>

Cluster(n) == PodMade(n) \/ PodReady(n) \/ PodLost(n) \/ SetGone(n) \/ ClaimGone(n)

Next == RequestAdd \/ RequestOther \/ Step \/ \E n \in Names : Cluster(n)

Spec == Init /\ [][Next]_vars

-----------------------------------------------------------------------------
Registration == [uuid : Uuid, status : {"registered", "started", "stopped"},
                 config : Configs \cup {NoConfig}]

TypeOK ==
  /\ reg \in [Names -> Registration \cup {None}] /\ minted \in 0 .. MaxUuid
  /\ svc \in [Names -> [uuid : Uuid, ports : BOOLEAN] \cup {None}]
  /\ set \in [Names -> [uuid : Uuid, config : Configs, pod : {"none", "pending", "ready"},
                        leaving : BOOLEAN] \cup {None}]
  /\ claim \in [Names -> [phase : {"none", "bound", "leaving"}, data : BOOLEAN]]
  /\ files \in [Names -> {"none", "kept", "given up"}] /\ warned \subseteq Names

(* Kubernetes runs no service that Kurtosis does not show: a stateful set  *)
(* is that of the service registered under its name, unless the log asked  *)
(* the user to remove it; nor does a registration take another service's   *)
(* Kubernetes Service, whatever was left under its name.                   *)
KubeOK ==
  /\ TypeOK
  /\ \A n \in Names :
       /\ set[n] # None => n \in warned \/ (Registered(n) /\ reg[n].uuid = set[n].uuid)
       /\ svc[n] # None /\ Registered(n) => reg[n].uuid = svc[n].uuid

(* "A persistent directory persists over service updates and restarts",    *)
(* and over removals, crashes and lost pods, as long as no start of the    *)
(* service fails after the directory was claimed.                          *)
DirectorySurvives == \A n \in Names : files[n] = "kept" => claim[n].phase = "bound" /\ claim[n].data

(* Seen from outside an instruction is one step, as on Docker: the same    *)
(* abstract enclave, with a service up when the cluster is to run it.      *)
E == INSTANCE Enclave WITH
       Absent   <- None,
       services <- IF op = "idle" THEN Seen ELSE before,
       request  <- [kind |-> kind, names |-> {name}, config |-> want],
       pending  <- op # "idle",
       result   <- last
ImplementsEnclave == E!Spec
=============================================================================
