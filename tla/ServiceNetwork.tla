--------------------------- MODULE ServiceNetwork ---------------------------
(***************************************************************************)
(* DefaultServiceNetwork (default_service_network.go), called by the       *)
(* instructions add_service(s), remove_service, stop_service and           *)
(* start_service.  The executor runs one instruction at a time and every   *)
(* call here holds the network's mutex, so there is one operation at a     *)
(* time, in the phase op; the goroutines of startRegisteredServices work   *)
(* inside it.  Each step is one call of the backend or one transaction,    *)
(* so that the API container may die between any two.                      *)
(***************************************************************************)
EXTENDS UserServices

CONSTANTS
  BatchSize,    \* the parallelism of the run
  MaxOps,       \* bound on the instructions executed
  MaxCrashes,   \* bound on the crashes of the API container
  Failures      \* the calls that may fail

ASSUME NetworkAssumption ==
  /\ BatchSize \in Nat \ {0} /\ MaxOps \in Nat /\ MaxCrashes \in Nat
  /\ Failures \subseteq {"remove", "volumes", "start", "create", "ports", "ready", "kill"}

VARIABLES
  op,        \* the phase of the operation
  kind,      \* the instruction: "add", "remove", "stop", "start"
  batch,     \* the services it names
  want,      \* the config it asks for
  updates,   \* the services of an add that were registered: UpdateServices'
  todo,      \* what is left of the loop of this phase
  good,      \* the services the last loop was successful with
  gor,       \* the goroutine that starts (or the call that destroys) a service
  started,   \* the services startRegisteredServices started
  gfailed,   \* the services it failed to start
  failed,    \* the services the instruction will report as failed
  inRun,     \* is the run that was validated still going on?
  last,      \* how the last instruction ended
  before,    \* history: the enclave when the instruction began
  leased,    \* history: the addresses taken then
  ops, crashes

opVars   == <<kind, batch, want, updates, before, leased, ops>>
loopVars == <<op, todo, good, failed>>
gorVars  == <<gor, started, gfailed>>
runVars  == <<inRun, last>>
vars == <<backendVars, opVars, loopVars, gorVars, runVars, crashes>>

Idle == [n \in Names |-> "none"]

(* A service as a script sees it: it is up when its registration says so   *)
(* and its container runs with the registration's config.                  *)
Seen == [n \in Names |->
  IF ~Registered(n) THEN NoReg
  ELSE [uuid |-> reg[n].uuid, config |-> reg[n].config,
        up |-> /\ reg[n].status = "started"
               /\ cont[reg[n].uuid] = [status |-> "running", config |-> reg[n].config]]]

Init ==
  /\ InitServices
  /\ op = "idle" /\ kind = "none" /\ batch = {} /\ want = NoConfig /\ updates = {}
  /\ todo = {} /\ good = {} /\ failed = {}
  /\ gor = Idle /\ started = {} /\ gfailed = {}
  /\ inRun = FALSE /\ last = "none"
  /\ before = Seen /\ leased = {}
  /\ ops = 0 /\ crashes = 0

adds == batch \ updates

-----------------------------------------------------------------------------
(* The validator looks up the container of every registered service before *)
(* a run's first instruction.                                              *)
Validated == \A n \in Names : Registered(n) => HasContainer(n)

(* UpdateServices returns at once when it is given nothing.                *)
HasUpdates(us) == us # {}

(* The instruction begins: ExistServiceRegistration splits an add into     *)
(* updates and additions.                                                  *)
Enter(k, ns, c) ==
  LET us == {n \in ns : Registered(n)} IN
  /\ op = "idle" /\ ops < MaxOps
  /\ inRun \/ Validated
  /\ ops' = ops + 1
  /\ kind' = k /\ batch' = ns /\ want' = c
  /\ before' = Seen /\ leased' = taken
  /\ failed' = {} /\ good' = {} /\ last' = "none"
  /\ updates' = us
  /\ UNCHANGED <<backendVars, gorVars, inRun, crashes>>

RequestAdd ==
  \E ns \in SUBSET Names \ {{}}, c \in Configs :
    /\ minted + Cardinality(ns) <= MaxUuid
    /\ Enter("add", ns, c)
    /\ IF HasUpdates(updates')
         THEN op' = "upRemove" /\ todo' = Matching(updates')
         ELSE op' = "register" /\ todo' = ns

RequestOther ==
  \E n \in Names, k \in {"remove", "stop", "start"} :
    /\ Registered(n)
    /\ Enter(k, {n}, NoConfig)
    /\ op' = (IF k = "start" THEN "start" ELSE "kill") /\ todo' = {n}

(* A step of the loop over todo, and the way on when the loop is over.     *)
Took(n) == todo' = todo \ {n}
Over(phase) == op = phase /\ todo = {}
GoTo(phase, ns) == op' = phase /\ todo' = ns /\ good' = {}
Ends(result) ==
  /\ op' = "idle" /\ todo' = {} /\ good' = {} /\ last' = result
  /\ inRun' = (result = "success")

-----------------------------------------------------------------------------
(* UpdateServices: remove the containers, reset the registrations, start   *)
(* the services again and mark them.  A service without container is       *)
(* neither removed nor failed.                                             *)
UpRemove(n) ==
  /\ op = "upRemove" /\ n \in todo
  /\ RemoveContainer(n)
  /\ Took(n) /\ good' = good \cup {n}
  /\ UNCHANGED <<op, failed, opVars, gorVars, runVars, crashes>>

UpRemoveFails(n) ==
  /\ op = "upRemove" /\ n \in todo /\ "remove" \in Failures
  /\ Took(n) /\ failed' = failed \cup {n}
  /\ UNCHANGED <<op, good, backendVars, opVars, gorVars, runVars, crashes>>

UpRemoveEnds ==
  /\ Over("upRemove")
  /\ GoTo("upReset", good)
  /\ UNCHANGED <<failed, backendVars, opVars, gorVars, runVars, crashes>>

UpReset(n) ==
  /\ op = "upReset" /\ n \in todo
  /\ UpdateStatusAndConfig(n, "registered", NoConfig)
  /\ Took(n) /\ good' = good \cup {n}
  /\ UNCHANGED <<op, failed, opVars, gorVars, runVars, crashes>>

UpResetEnds ==
  /\ Over("upReset")
  /\ GoTo("upStart", good)
  /\ UNCHANGED <<failed, backendVars, opVars, gorVars, runVars, crashes>>

(* Both UpdateServices and AddServices mark what was started.              *)
Mark(n) ==
  /\ op \in {"upMark", "addMark"} /\ n \in todo
  /\ UpdateStatus(n, "started")
  /\ Took(n)
  /\ UNCHANGED <<op, good, failed, opVars, gorVars, runVars, crashes>>

(* AddServices is called whether or not an update failed.                  *)
UpMarkEnds ==
  /\ Over("upMark")
  /\ IF adds = {} THEN GoTo("finish", {}) ELSE GoTo("register", adds)
  /\ UNCHANGED <<failed, backendVars, opVars, gorVars, runVars, crashes>>

-----------------------------------------------------------------------------
(* AddServices: register one by one, start, and roll back.                 *)
Register(n) ==
  /\ op = "register" /\ n \in todo
  /\ RegisterUserService(n)
  /\ Took(n) /\ good' = good \cup {n}
  /\ UNCHANGED <<op, failed, opVars, gorVars, runVars, crashes>>

RegisterFails(n) ==
  /\ op = "register" /\ n \in todo /\ taken = Ip
  /\ Took(n) /\ failed' = failed \cup {n}
  /\ UNCHANGED <<op, good, backendVars, opVars, gorVars, runVars, crashes>>

NoRollback ==   \* mutant: the deferred function is installed after this return
  /\ Over("register")
  /\ IF failed \cap adds # {} THEN GoTo("finish", {}) ELSE GoTo("addStart", good)
  /\ UNCHANGED <<failed, backendVars, opVars, gorVars, runVars, crashes>>

RegisterEnds ==
  /\ Over("register")
  /\ IF failed \cap adds # {} THEN GoTo("unregister", good) ELSE GoTo("addStart", good)
  /\ UNCHANGED <<failed, backendVars, opVars, gorVars, runVars, crashes>>

(* The deferred functions, last in first out: destroy what was started,    *)
(* then unregister what was registered.                                    *)
Destroy(n) ==
  /\ op = "destroy" /\ n \in todo /\ \A m \in Names : gor[m] = "none"
  /\ gor' = [gor EXCEPT ![n] = "destroy"]
  /\ Took(n)
  /\ UNCHANGED <<op, good, failed, started, gfailed, backendVars, opVars, runVars, crashes>>

DestroyEnds ==
  /\ Over("destroy") /\ gor = Idle
  /\ GoTo("unregister", adds)
  /\ gfailed' = {} /\ UNCHANGED <<gor, started>>
  /\ UNCHANGED <<failed, backendVars, opVars, runVars, crashes>>

(* unregisterService deletes the registration first; the backend then does *)
(* not find it and calls the service unregistered.                         *)
Unregister(n) ==
  /\ op = "unregister" /\ n \in todo
  /\ IF Registered(n) THEN DeleteRegistration(n) ELSE UNCHANGED backendVars
  /\ Took(n)
  /\ UNCHANGED <<op, good, failed, opVars, gorVars, runVars, crashes>>

AddEnds ==
  /\ Over("unregister") \/ Over("addMark")
  /\ GoTo("finish", {})
  /\ UNCHANGED <<failed, backendVars, opVars, gorVars, runVars, crashes>>

(* The result of the instruction: failures, then the readiness checks.     *)
Finish ==
  /\ op = "finish"
  /\ \/ failed = {} /\ Ends("success")
     \/ (failed # {} \/ "ready" \in Failures) /\ Ends("failure")
  /\ UNCHANGED <<failed, backendVars, opVars, gorVars, crashes>>

-----------------------------------------------------------------------------
(* startRegisteredServices: a goroutine per service, at most BatchSize of  *)
(* them; after a failure no more are started.  The length of the map of    *)
(* failures is read without its mutex, so the failure may be missed.       *)
Starting == op \in {"upStart", "addStart"}
Active == {n \in Names : gor[n] # "none"}

Schedule(n) ==
  /\ Starting /\ n \in todo
  /\ Cardinality(Active) < BatchSize
  /\ gor' = [gor EXCEPT ![n] = "create"]
  /\ Took(n)
  /\ UNCHANGED <<op, good, failed, started, gfailed, backendVars, opVars, runVars, crashes>>

StopScheduling ==
  /\ Starting /\ todo # {} /\ gfailed # {}
  /\ todo' = {}
  /\ UNCHANGED <<op, good, failed, gorVars, backendVars, opVars, runVars, crashes>>

Goes(n, step) == gor' = [gor EXCEPT ![n] = step] /\ UNCHANGED <<started, gfailed>>
Succeeds(n) == gor' = [gor EXCEPT ![n] = "none"] /\ started' = started \cup {n} /\ UNCHANGED gfailed
FailsWith(n) == gor' = [gor EXCEPT ![n] = "none"] /\ gfailed' = gfailed \cup {n} /\ UNCHANGED started

outerVars == <<loopVars, opVars, runVars, crashes>>

(* StartRegisteredUserServices on one service: create the container and    *)
(* mark the service.  A container that does not start, or whose ports are  *)
(* unknown, is killed and left behind; it runs on when the kill fails.     *)
Create(n) ==
  /\ gor[n] = "create"
  /\ CreateContainer(n, "running", want)
  /\ Goes(n, "mark")
  /\ UNCHANGED outerVars

HangsOnFailure(n) ==   \* mutant: a failing goroutine does not report back
  /\ gor[n] = "create"
  /\ \/ "start" \in Failures /\ UNCHANGED backendVars
     \/ "create" \in Failures /\ CreateContainer(n, "stopped", want)
  /\ Goes(n, "hung")
  /\ UNCHANGED outerVars

CreateFails(n) ==
  /\ gor[n] = "create"
  /\ \/ "start" \in Failures /\ UNCHANGED backendVars
     \/ "create" \in Failures /\ CreateContainer(n, "stopped", want)
     \/ {"create", "kill"} \subseteq Failures /\ CreateContainer(n, "abandoned", want)
  /\ FailsWith(n)
  /\ UNCHANGED outerVars

MarkStarted(n) ==
  /\ gor[n] = "mark"
  /\ UpdateStatus(n, "started")
  /\ Goes(n, "ports")
  /\ UNCHANGED outerVars

(* The ports open and the config is saved, or the service is destroyed.    *)
PortsOpen(n) ==
  /\ gor[n] = "ports"
  /\ UpdateConfig(n, want)
  /\ Succeeds(n)
  /\ UNCHANGED outerVars

PortsStayClosed(n) ==
  /\ gor[n] = "ports" /\ "ports" \in Failures
  /\ Goes(n, "destroy")
  /\ UNCHANGED <<backendVars, outerVars>>

(* DestroyUserServices: the container, the address, the registration.      *)
DestroyContainer(n) ==
  /\ gor[n] = "destroy"
  /\ RemoveContainer(n)
  /\ Goes(n, "release")
  /\ UNCHANGED outerVars

(* The container, or a volume of its files, cannot be removed: the address *)
(* and the registration are left to the caller.                            *)
DestroyContainerFails(n) ==
  /\ gor[n] = "destroy"
  /\ \/ "remove" \in Failures /\ AbandonContainer(n)
     \/ "volumes" \in Failures /\ RemoveContainer(n)
  /\ FailsWith(n)
  /\ UNCHANGED outerVars

DestroyRelease(n) ==
  /\ gor[n] = "release"
  /\ ReleaseIpAddr(n)
  /\ Goes(n, "delete")
  /\ UNCHANGED outerVars

DestroyRegistration(n) ==
  /\ gor[n] = "delete"
  /\ DeleteRegistration(n)
  /\ FailsWith(n)
  /\ UNCHANGED outerVars

(* The caller collects the results when every goroutine is done.           *)
UnregistersFirst ==   \* mutant: the rollback in the order of the code's text
  /\ Starting /\ todo = {} /\ gor = Idle
  /\ failed' = failed \cup gfailed
  /\ started' = {} /\ gfailed' = {} /\ UNCHANGED gor
  /\ \/ op = "upStart" /\ GoTo("upMark", started)
     \/ op = "addStart" /\ gfailed = {} /\ GoTo("addMark", started)
     \/ op = "addStart" /\ gfailed # {} /\ GoTo("unregister", adds)
  /\ UNCHANGED <<backendVars, opVars, runVars, crashes>>

StartEnds ==
  /\ Starting /\ todo = {} /\ gor = Idle
  /\ failed' = failed \cup gfailed
  /\ started' = {} /\ gfailed' = {} /\ UNCHANGED gor
  /\ \/ op = "upStart" /\ GoTo("upMark", started)
     \/ op = "addStart" /\ gfailed = {} /\ GoTo("addMark", started)
     \/ op = "addStart" /\ gfailed # {} /\ GoTo("destroy", started)
  /\ UNCHANGED <<backendVars, opVars, runVars, crashes>>

-----------------------------------------------------------------------------
(* RemoveService and StopServices: StopUserServices kills the container    *)
(* and marks the service; RemoveService then deletes the registration.     *)
Kill(n) ==
  /\ op = "kill" /\ n \in todo
  /\ KillContainer(n)
  /\ GoTo("stopped", todo)
  /\ UNCHANGED <<failed, opVars, gorVars, runVars, crashes>>

KillFails(n) ==
  /\ op = "kill" /\ n \in todo /\ "kill" \in Failures
  /\ Ends("failure")
  /\ UNCHANGED <<failed, backendVars, opVars, gorVars, crashes>>

MarkStopped(n) ==
  /\ op = "stopped" /\ n \in todo
  /\ UpdateStatus(n, "stopped")
  /\ IF kind = "remove" THEN GoTo("delete", todo) /\ UNCHANGED runVars ELSE Ends("success")
  /\ UNCHANGED <<failed, opVars, gorVars, crashes>>

Delete(n) ==
  /\ op = "delete" /\ n \in todo
  /\ DeleteRegistration(n)
  /\ Ends("success")
  /\ UNCHANGED <<failed, opVars, gorVars, crashes>>

(* StartServices passes the config of the registration: the backend        *)
(* dereferences it, restarts a stopped service, and fails to create a      *)
(* second container for one that has one.                                  *)
Restart(n) ==
  /\ op = "start" /\ n \in todo
  /\ reg[n].config # NoConfig /\ reg[n].status = "stopped"
  /\ StartContainer(n)
  /\ GoTo("restarted", todo)
  /\ UNCHANGED <<failed, opVars, gorVars, runVars, crashes>>

StartFails(n) ==
  /\ op = "start" /\ n \in todo
  /\ reg[n].config # NoConfig
  /\ reg[n].status # "stopped" \/ "start" \in Failures
  /\ Ends("failure")
  /\ UNCHANGED <<failed, backendVars, opVars, gorVars, crashes>>

MarkRestarted(n) ==
  /\ op = "restarted" /\ n \in todo
  /\ UpdateStatus(n, "started")
  /\ Ends("success")
  /\ UNCHANGED <<failed, opVars, gorVars, crashes>>

-----------------------------------------------------------------------------
(* The API container dies and is started again, with the same database.    *)
Dies ==
  /\ Ends("none")
  /\ gor' = Idle /\ started' = {} /\ gfailed' = {} /\ failed' = {}
  /\ UNCHANGED <<backendVars, opVars>>

Crash ==
  /\ op # "idle" /\ crashes < MaxCrashes
  /\ crashes' = crashes + 1
  /\ Dies

(* A nil config is dereferenced: the goroutine's panic ends the process.   *)
Panic(n) ==
  /\ op = "start" /\ n \in todo
  /\ reg[n].config = NoConfig
  /\ Dies
  /\ UNCHANGED crashes

Operation ==
  \/ UpRemoveEnds \/ UpResetEnds \/ UpMarkEnds \/ RegisterEnds
  \/ DestroyEnds \/ AddEnds \/ Finish \/ StopScheduling \/ StartEnds
  \/ \E n \in Names :
       \/ UpRemove(n) \/ UpRemoveFails(n) \/ UpReset(n) \/ Mark(n)
       \/ Register(n) \/ RegisterFails(n) \/ Destroy(n) \/ Unregister(n) \/ Schedule(n)
       \/ Kill(n) \/ KillFails(n) \/ MarkStopped(n) \/ Delete(n)
       \/ Restart(n) \/ StartFails(n) \/ MarkRestarted(n) \/ Panic(n)

Goroutine(n) ==
  \/ Create(n) \/ CreateFails(n) \/ MarkStarted(n) \/ PortsOpen(n) \/ PortsStayClosed(n)
  \/ DestroyContainer(n) \/ DestroyContainerFails(n)
  \/ DestroyRelease(n) \/ DestroyRegistration(n)

Next == RequestAdd \/ RequestOther \/ Operation \/ Crash \/ \E n \in Names : Goroutine(n)

Spec == Init /\ [][Next]_vars

(* The executor's goroutine and those it starts are scheduled, and the     *)
(* calls of the backend return.                                            *)
Fairness == WF_vars(Operation) /\ \A n \in Names : WF_vars(Goroutine(n))

FairSpec == Spec /\ Fairness

-----------------------------------------------------------------------------
TypeOK ==
  /\ reg \in [Names -> Registration \cup {NoReg}]
  /\ cont \in [Uuid -> Container \cup {NoCont}]
  /\ taken \subseteq Ip /\ minted \in 0 .. MaxUuid
  /\ op \in {"idle", "upRemove", "upReset", "upStart", "upMark", "register", "addStart",
             "addMark", "destroy", "unregister", "finish", "kill", "stopped", "delete",
             "start", "restarted"}
  /\ gor \in [Names -> {"none", "create", "mark", "ports", "destroy", "release", "delete"}]
  /\ updates \subseteq batch /\ todo \cup good \cup failed \subseteq batch
  /\ started \cup gfailed \subseteq batch
  /\ \A n \in Names : gor[n] # "none" => Registered(n)

(* Wherever the API container dies and whatever fails, a container that    *)
(* runs belongs to a registered service, unless it is abandoned: removing  *)
(* or killing it is what failed, the log asks the user to stop it, and its *)
(* registration may be deleted all the same.  Registrations are saved      *)
(* before their container is made and deleted after its removal was tried, *)
(* so nothing runs that Kurtosis neither shows nor speaks of.              *)
RunningIsRegistered ==
  \A u \in Uuid : cont[u].status = "running" => \E n \in Names : Registered(n) /\ reg[n].uuid = u

(* The registry is well-typed; no two registered services share an address, *)
(* whatever an interrupted registration or removal left taken; and between *)
(* instructions, unless one was cut by a crash, the status in a            *)
(* registration, which a call of its own writes, is that of the container, *)
(* but for a service without config, which an update that failed leaves.   *)
AddressesDistinct ==
  \A m, n \in Names : m # n /\ Registered(m) /\ Registered(n) => reg[m].ip # reg[n].ip

StatusIsTrue ==
  op = "idle" /\ crashes = 0 =>
    \A n \in Names : Registered(n) /\ reg[n].config # NoConfig =>
                      (reg[n].status = "started" <=> Running(n))

RegistryOK == TypeOK /\ AddressesDistinct /\ StatusIsTrue

(* Seen from outside, an instruction is one step.  An add that reports     *)
(* success has every service it names running with the config it asks for, *)
(* those it updated with the UUID they had; "if a single service fails to  *)
(* start, the entire batch is rolled back"; no instruction touches the     *)
(* services it does not name, whatever fails.                              *)
E == INSTANCE Enclave WITH
       Absent   <- NoReg,
       services <- IF op = "idle" THEN Seen ELSE before,
       request  <- [kind |-> kind, names |-> batch, config |-> want],
       pending  <- op # "idle",
       result   <- last
ImplementsEnclave == E!Spec

(* Every instruction comes to its end.                                     *)
InstructionsEnd == op # "idle" ~> op = "idle"

(* Not so: unregisterService "is the opposite of register service", so an  *)
(* AddServices that failed gives back the addresses it took (the backend   *)
(* no longer finds the registration that holds the address).               *)
AddressesGivenBack ==
  op = "finish" /\ failed \cap adds # {} => taken \subseteq leased
=============================================================================
