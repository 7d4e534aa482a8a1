---------------------------- MODULE DockerEnclaves ----------------------------
(***************************************************************************)
(* Enclaves on Docker from the command line down: the CLI starts and stops *)
(* the engine with its logs aggregator and reverse proxy; the engine       *)
(* creates, stops and destroys enclaves, each a sequence of Docker calls   *)
(* with the deferred functions that undo it; the API container hands the   *)
(* addresses of its enclave's subnet to services.  A call of Docker may    *)
(* fail, the engine, an API container or the CLI may die between two.      *)
(***************************************************************************)
EXTENDS DockerHost

CONSTANTS
  Pooled,       \* the enclaves the pool creates, without the manager's mutex
  Serving,      \* the enclaves whose scripts start services
  MaxTries,     \* maxNumNetworkAllocationRetries
  MaxCommands   \* bound on the commands given to the CLI

ASSUME EnclavesAssumption ==
  Pooled \cup Serving \subseteq Enclaves /\ MaxTries \in Nat \ {0} /\ MaxCommands \in Nat

VARIABLES
  task,        \* what the engine is doing with the enclave
  at,          \* where it is in it
  pick,        \* the subnet and the gateway it chose
  tries,       \* how often it found the subnet taken
  seen,        \* the containers it listed
  outcome,     \* what became of the enclave: "new", "running", "failed", "left", "manual" or "gone"
  gateways,    \* emptyIpSet: how many gateways of a subnet this engine has chosen
  taken,       \* the addresses in the bucket of the enclave's database
  engine,      \* "none", "starting", "relaunching", "up" or "down"
  relaunch,    \* the API containers the engine still has to launch again
  aggregator,  \* the logs aggregator: "none", "up" or "stopped"
  cli,         \* where the CLI is
  goal,        \* the command it runs
  commands,    \* how many it was given
  moved        \* has the proxy been connected again since there are containers?

taskVars   == <<task, at, pick, tries, seen, outcome>>
engineVars == <<engine, relaunch, gateways>>
cliVars    == <<cli, goal, commands, aggregator>>
vars == <<hostVars, taskVars, engineVars, cliVars, taken, moved>>

Init ==
  /\ InitHost
  /\ task = [u \in Enclaves |-> "none"] /\ at = [u \in Enclaves |-> "idle"]
  /\ pick = [u \in Enclaves |-> <<None, None>>] /\ tries = [u \in Enclaves |-> 0]
  /\ seen = [u \in Enclaves |-> {}] /\ outcome = [u \in Enclaves |-> "new"]
  /\ gateways = [s \in Subnet |-> 0]
  /\ taken = [u \in Enclaves |-> {}] /\ moved = [u \in Enclaves |-> FALSE]
  /\ engine = "none" /\ relaunch = {} /\ aggregator = "none"
  /\ cli = "idle" /\ goal = "none" /\ commands = 0

Idle(u) == task[u] = "none"
Goes(u, where) == at' = [at EXCEPT ![u] = where]

(* u's task is over; ended is what became of the enclave.                  *)
Ends(u, ended) ==
  /\ task' = [task EXCEPT ![u] = "none"]
  /\ at' = [at EXCEPT ![u] = "idle"]
  /\ pick' = [pick EXCEPT ![u] = <<None, None>>] /\ tries' = [tries EXCEPT ![u] = 0]
  /\ seen' = [seen EXCEPT ![u] = {}]
  /\ outcome' = [outcome EXCEPT ![u] = ended]

(* The engine's process is gone, and what it was doing with it.            *)
EngineDies(becomes) ==
  /\ engine' = becomes /\ relaunch' = {}
  /\ gateways' = [s \in Subnet |-> 0]
  /\ task' = [u \in Enclaves |-> "none"] /\ at' = [u \in Enclaves |-> "idle"]
  /\ pick' = [u \in Enclaves |-> <<None, None>>] /\ tries' = [u \in Enclaves |-> 0]
  /\ seen' = [u \in Enclaves |-> {}]
  /\ outcome' = [u \in Enclaves |-> IF task[u] = "create" THEN "left" ELSE outcome[u]]

(* The manager's mutex, which the pool's subroutine does not take.         *)
MutexFree == \A v \in Enclaves : Idle(v) \/ (v \in Pooled /\ task[v] = "create")

-----------------------------------------------------------------------------
(* CreateEnclave, under a new UUID: nothing exists with it, neither a      *)
(* network nor a volume.                                                   *)
BeginCreate(u) ==
  /\ engine = "up" /\ Idle(u) /\ outcome[u] \in {"new", "failed", "gone"}
  /\ network[u] = None /\ ~volume[u] /\ Containers(u) = {}
  /\ u \in Pooled \/ MutexFree
  /\ task' = [task EXCEPT ![u] = "create"] /\ Goes(u, "list")
  /\ outcome' = [outcome EXCEPT ![u] = "new"] /\ moved' = [moved EXCEPT ![u] = FALSE]
  /\ UNCHANGED <<pick, tries, seen, hostVars, engineVars, cliVars, taken>>

(* ListNetworks, findRandomFreeNetwork, which takes the first that no      *)
(* network overlaps, and the gateway, the first address of the subnet that *)
(* the process-wide set does not have yet.                                 *)
FreeSubnets == {s \in Subnet : \A v \in Enclaves : network[v] # s}

ListNetworks(u) ==
  /\ at[u] = "list"
  /\ IF FreeSubnets # {} /\ gateways[Least(FreeSubnets)] < NumAddresses
     THEN LET s == Least(FreeSubnets)
          IN  /\ gateways' = [gateways EXCEPT ![s] = @ + 1]
              /\ pick' = [pick EXCEPT ![u] = <<s, gateways[s] + 1>>]
              /\ Goes(u, "make")
              /\ UNCHANGED <<task, tries, seen, outcome>>
     ELSE Ends(u, "failed") /\ UNCHANGED gateways
  /\ UNCHANGED <<hostVars, engine, relaunch, cliVars, taken, moved>>

SubnetTaken(u) ==
  /\ at[u] = "make" /\ Overlaps(pick[u][1])
  /\ IF tries[u] + 1 < MaxTries
     THEN Goes(u, "list") /\ tries' = [tries EXCEPT ![u] = @ + 1] /\ UNCHANGED <<task, pick, seen, outcome>>
     ELSE Ends(u, "failed")
  /\ UNCHANGED <<hostVars, engineVars, cliVars, taken, moved>>

NetworkMade(u) ==
  /\ at[u] = "make" /\ ~Overlaps(pick[u][1])
  /\ CreateNetwork(u, pick[u][1], pick[u][2])
  /\ Goes(u, "volume")
  /\ UNCHANGED <<task, pick, tries, seen, outcome, engineVars, cliVars, taken, moved>>
  /\ UNCHANGED <<lingering, volume, apic, apicIp, service, serviceIp, proxy, faults>>

(* The call fails; cancelled, it may have made the network all the same.   *)
NetworkFails(u) ==
  /\ at[u] = "make" /\ Fails("create network")
  /\ \/ Ends(u, "failed") /\ UNCHANGED <<network, holder>>
     \/ ~Overlaps(pick[u][1]) /\ CreateNetwork(u, pick[u][1], pick[u][2]) /\ Ends(u, "left")
  /\ UNCHANGED <<engineVars, cliVars, taken, moved>>
  /\ UNCHANGED <<lingering, volume, apic, apicIp, service, serviceIp, proxy>>

CreateVolume(u) ==
  /\ at[u] = "volume"
  /\ \/ volume' = [volume EXCEPT ![u] = TRUE] /\ Goes(u, "plug") /\ UNCHANGED faults
     \/ Fails("create volume") /\ Goes(u, "dropNetwork") /\ UNCHANGED volume
  /\ UNCHANGED <<task, pick, tries, seen, outcome, engineVars, cliVars, taken, moved>>
  /\ UNCHANGED <<network, holder, lingering, apic, apicIp, service, serviceIp, proxy>>

(* ConnectReverseProxyToNetwork, the last step of the backend's            *)
(* CreateEnclave.                                                          *)
PlugProxy(u) ==
  /\ at[u] = "plug"
  /\ \/ /\ Connectable(u) /\ Connect(u)
        /\ Goes(u, "launch") /\ UNCHANGED faults
     \/ /\ \/ (proxy = "none" \/ ~Connectable(u)) /\ UNCHANGED faults
           \/ Fails("connect")
        /\ Goes(u, "dropVolume") /\ UNCHANGED holder
  /\ UNCHANGED <<task, pick, tries, seen, outcome, engineVars, cliVars, taken, moved>>
  /\ UNCHANGED <<network, lingering, volume, apic, apicIp, service, serviceIp, proxy>>

(* The deferred functions, last in first out; their errors are logged, and *)
(* the user is told what to remove by hand.                                *)
UndoVolume(u) ==
  /\ at[u] = "dropVolume" /\ Goes(u, "dropNetwork")
  /\ \/ volume' = [volume EXCEPT ![u] = FALSE] /\ UNCHANGED <<faults, outcome>>
     \/ Fails("remove volume") /\ outcome' = [outcome EXCEPT ![u] = "left"] /\ UNCHANGED volume
  /\ UNCHANGED <<task, pick, tries, seen, engineVars, cliVars, taken, moved>>
  /\ UNCHANGED <<network, holder, lingering, apic, apicIp, service, serviceIp, proxy>>

UndoNetwork(u) ==
  /\ at[u] = "dropNetwork"
  /\ \/ /\ RemoveNetwork(u) /\ UNCHANGED faults
        /\ Ends(u, IF outcome[u] = "left" THEN "manual" ELSE "failed")
     \/ Fails("remove network") /\ Ends(u, "left") /\ UNCHANGED <<network, holder, lingering>>
  /\ UNCHANGED <<engineVars, cliVars, taken, moved>>
  /\ UNCHANGED <<volume, apic, apicIp, service, serviceIp, proxy>>

-----------------------------------------------------------------------------
(* LaunchApiContainer, for a new enclave or again when the engine starts:  *)
(* a failure destroys the new enclave, or ends the engine.                 *)
LaunchFails(u) ==
  \/ /\ task[u] = "create" /\ Goes(u, "gather")
     /\ UNCHANGED <<task, pick, tries, seen, outcome, engineVars>>
  \/ task[u] = "relaunch" /\ EngineDies("down")

(* CreateAPIContainer: the first address that neither the gateway nor the  *)
(* proxy has, which someone else may hold.  A stopped proxy has none in    *)
(* the network, an error; without a proxy it returns no error but a nil    *)
(* container, and using it panics: a failure all the same.                 *)
ApicAddresses(u) == Address \ (Has(u, "gateway") \cup Has(u, "proxy"))

Launchable(u) ==
  /\ apic[u] = "none" /\ volume[u] /\ network[u] # None
  /\ proxy = "up" /\ Has(u, "proxy") # {} /\ ApicAddresses(u) # {}

LaunchApic(u) ==
  /\ at[u] = "launch"
  /\ IF Launchable(u)
     THEN LET a == Least(ApicAddresses(u))
          IN  /\ apicIp' = [apicIp EXCEPT ![u] = a]
              /\ \/ /\ holder[u][a] = "free"
                    /\ holder' = [holder EXCEPT ![u] = With(u, "apic", a)]
                    /\ apic' = [apic EXCEPT ![u] = "boot"]
                    /\ Goes(u, "await") /\ UNCHANGED <<task, pick, tries, seen, outcome, engineVars, faults>>
                 \/ /\ \/ holder[u][a] # "free" /\ UNCHANGED faults
                       \/ Fails("start apic")
                    /\ apic' = [apic EXCEPT ![u] = "stopped"]
                    /\ LaunchFails(u) /\ UNCHANGED holder
     ELSE LaunchFails(u) /\ UNCHANGED <<apic, apicIp, holder, faults>>
  /\ UNCHANGED <<network, lingering, volume, service, serviceIp, proxy, cliVars, taken, moved>>

(* WaitForPortAvailabilityUsingNetstat; when it gives up, the container is *)
(* killed.                                                                 *)
ApicAnswers(u) ==
  /\ at[u] = "await" /\ apic[u] = "up"
  /\ Ends(u, IF task[u] = "create" THEN "running" ELSE outcome[u])
  /\ relaunch' = relaunch \ {u}
  /\ UNCHANGED <<hostVars, engine, gateways, cliVars, taken, moved>>

(* mutant: the wait has no end when the container has died                 *)
WaitsForTheDead(u) ==
  /\ at[u] = "await" /\ apic[u] = "boot"
  /\ KillContainers(u, {"apic"}) /\ LaunchFails(u)
  /\ UNCHANGED <<network, lingering, volume, apicIp, serviceIp, proxy, faults, cliVars, taken, moved>>

ApicIsGivenUp(u) ==
  /\ at[u] = "await" /\ apic[u] # "up"
  /\ KillContainers(u, {"apic"}) /\ LaunchFails(u)
  /\ UNCHANGED <<network, lingering, volume, apicIp, serviceIp, proxy, faults, cliVars, taken, moved>>

-----------------------------------------------------------------------------
(* DestroyEnclaves of one enclave: a request, or the deferred function of  *)
(* a creation whose API container failed.  A stage that fails is the last. *)
BeginDestroy(u) ==
  /\ engine = "up" /\ Idle(u) /\ MutexFree
  /\ network[u] # None /\ outcome[u] \in {"running", "left"}
  /\ task' = [task EXCEPT ![u] = "destroy"] /\ Goes(u, "gather")
  /\ UNCHANGED <<pick, tries, seen, outcome, hostVars, engineVars, cliVars, taken, moved>>

Gather(u) ==
  /\ at[u] = "gather"
  /\ seen' = [seen EXCEPT ![u] = Containers(u)] /\ Goes(u, "containers")
  /\ UNCHANGED <<task, pick, tries, outcome, hostVars, engineVars, cliVars, taken, moved>>

(* What is left when a destruction does not get to its end.                *)
StageFails(u) == Ends(u, IF task[u] = "create" THEN "left" ELSE outcome[u])

(* mutant: the stage of the volumes is left out                            *)
SkipsVolumes(u) ==
  /\ at[u] = "containers"
  /\ RemoveContainers(u, seen[u]) /\ Goes(u, "unplug")
  /\ UNCHANGED <<task, pick, tries, seen, outcome, faults>>
  /\ UNCHANGED <<network, lingering, volume, proxy, engineVars, cliVars, taken, moved>>

DestroyContainers(u) ==
  /\ at[u] = "containers"
  /\ \/ /\ RemoveContainers(u, seen[u]) /\ UNCHANGED faults
        /\ Goes(u, "volumes") /\ UNCHANGED <<task, pick, tries, seen, outcome>>
     \/ /\ seen[u] # {} /\ Fails("remove container") /\ StageFails(u)
        /\ \E gone \in SUBSET seen[u] : gone # seen[u] /\ RemoveContainers(u, gone)
  /\ UNCHANGED <<network, lingering, volume, proxy, engineVars, cliVars, taken, moved>>

DestroyVolumes(u) ==
  /\ at[u] = "volumes"
  /\ \/ /\ apic[u] = "none"
        /\ volume' = [volume EXCEPT ![u] = FALSE] /\ taken' = [taken EXCEPT ![u] = {}]
        /\ Goes(u, "unplug") /\ UNCHANGED <<faults, task, pick, tries, seen, outcome>>
     \/ /\ StageFails(u) /\ UNCHANGED <<volume, taken>>
        /\ \/ apic[u] # "none" /\ UNCHANGED faults
           \/ Fails("remove volume")
  /\ UNCHANGED <<network, holder, lingering, apic, apicIp, service, serviceIp, proxy, engineVars, cliVars, moved>>

(* mutant: the containers that are not the enclave's stay connected        *)
LeavesThemConnected(u) ==
  /\ at[u] = "unplug"
  /\ Goes(u, "remove") /\ UNCHANGED <<hostVars, task, pick, tries, seen, outcome>>
  /\ UNCHANGED <<engineVars, cliVars, taken, moved>>

(* disconnectExternalContainersFromEnclaveNetworks: whatever runs there.   *)
DisconnectContainers(u) ==
  /\ at[u] = "unplug"
  /\ \/ /\ holder' = [holder EXCEPT ![u] = Without(u, {"proxy", "service", "apic"})]
        /\ Goes(u, "remove") /\ UNCHANGED <<faults, task, pick, tries, seen, outcome>>
     \/ Fails("disconnect") /\ StageFails(u) /\ UNCHANGED holder
  /\ UNCHANGED <<network, lingering, volume, apic, apicIp, service, serviceIp, proxy, engineVars, cliVars, taken, moved>>

DestroyNetwork(u) ==
  /\ at[u] = "remove"
  /\ \/ /\ Removable(u) /\ RemoveNetwork(u) /\ UNCHANGED faults
        /\ Ends(u, IF task[u] = "create" THEN "failed" ELSE "gone")
     \/ /\ ~Removable(u) /\ UNCHANGED <<network, holder, lingering, faults>>
        /\ Ends(u, IF task[u] = "create" THEN "failed" ELSE outcome[u])
     \/ Fails("remove network") /\ StageFails(u) /\ UNCHANGED <<network, holder, lingering>>
  /\ UNCHANGED <<volume, apic, apicIp, service, serviceIp, proxy, engineVars, cliVars, taken, moved>>

(* StopEnclaves: the containers listed are killed.                         *)
BeginStop(u) ==
  /\ engine = "up" /\ Idle(u) /\ MutexFree
  /\ network[u] # None /\ outcome[u] = "running"
  /\ task' = [task EXCEPT ![u] = "stop"] /\ Goes(u, "kill")
  /\ seen' = [seen EXCEPT ![u] = Containers(u)]
  /\ UNCHANGED <<pick, tries, outcome, hostVars, engineVars, cliVars, taken, moved>>

StopContainers(u) ==
  /\ at[u] = "kill" /\ Ends(u, outcome[u])
  /\ \/ KillContainers(u, seen[u]) /\ UNCHANGED faults
     \/ Fails("kill container") /\ \E gone \in SUBSET seen[u] : KillContainers(u, gone)
  /\ UNCHANGED <<network, lingering, volume, apicIp, serviceIp, proxy, engineVars, cliVars, taken, moved>>

-----------------------------------------------------------------------------
(* mutant: the tracker is not told of the proxy's address                  *)
ForgetsTheProxy(u) ==
  /\ apic[u] = "boot" /\ Has(u, "proxy") # {}
  /\ apic' = [apic EXCEPT ![u] = "up"]
  /\ taken' = IF taken[u] # {} THEN taken ELSE [taken EXCEPT ![u] = Has(u, "gateway") \cup {apicIp[u]}]
  /\ UNCHANGED <<holder, network, lingering, volume, apicIp, service, serviceIp, proxy, faults>>
  /\ UNCHANGED <<taskVars, engineVars, cliVars, moved>>

(* The API container's process: GetLocalDockerKurtosisBackend reads the    *)
(* proxy's address and fills the tracker of a new database, then the       *)
(* server opens its port.                                                  *)
ApicBoots(u) ==
  /\ apic[u] = "boot"
  /\ IF Has(u, "proxy") # {}
     THEN /\ apic' = [apic EXCEPT ![u] = "up"]
          /\ taken' = IF taken[u] # {} THEN taken
                      ELSE [taken EXCEPT ![u] = Has(u, "gateway") \cup Has(u, "proxy") \cup {apicIp[u]}]
          /\ UNCHANGED holder
     ELSE /\ apic' = [apic EXCEPT ![u] = "dead"]
          /\ holder' = [holder EXCEPT ![u] = Without(u, {"apic"})]
          /\ UNCHANGED taken
  /\ UNCHANGED <<network, lingering, volume, apicIp, service, serviceIp, proxy, faults>>
  /\ UNCHANGED <<taskVars, engineVars, cliVars, moved>>

ApicDies(u) ==
  /\ apic[u] = "up" /\ Fault
  /\ apic' = [apic EXCEPT ![u] = "dead"]
  /\ holder' = [holder EXCEPT ![u] = Without(u, {"apic"})]
  /\ UNCHANGED <<network, lingering, volume, apicIp, service, serviceIp, proxy>>
  /\ UNCHANGED <<taskVars, engineVars, cliVars, taken, moved>>

(* RestartOnFailure: Docker starts it again, if its address is free.       *)
ApicRestarts(u) ==
  /\ apic[u] = "dead" /\ network[u] # None /\ holder[u][apicIp[u]] = "free"
  /\ apic' = [apic EXCEPT ![u] = "boot"]
  /\ holder' = [holder EXCEPT ![u] = With(u, "apic", apicIp[u])]
  /\ UNCHANGED <<network, lingering, volume, apicIp, service, serviceIp, proxy, faults>>
  /\ UNCHANGED <<taskVars, engineVars, cliVars, taken, moved>>

(* GetFreeIpAddr and the start of a service with that static address; when *)
(* it is held, Docker refuses and the address is given back.               *)
Untaken(u) == Address \ taken[u]

StartService(u) ==
  /\ u \in Serving /\ apic[u] = "up" /\ service[u] = "none" /\ Untaken(u) # {}
  /\ LET a == Least(Untaken(u))
     IN  /\ network[u] # None /\ holder[u][a] = "free"
         /\ holder' = [holder EXCEPT ![u] = With(u, "service", a)]
         /\ taken' = [taken EXCEPT ![u] = @ \cup {a}]
         /\ serviceIp' = [serviceIp EXCEPT ![u] = a]
  /\ service' = [service EXCEPT ![u] = "up"]
  /\ UNCHANGED <<network, lingering, volume, apic, apicIp, proxy, faults>>
  /\ UNCHANGED <<taskVars, engineVars, cliVars, moved>>

StopService(u) ==
  /\ apic[u] = "up" /\ service[u] = "up"
  /\ KillContainers(u, {"service"})
  /\ UNCHANGED <<network, lingering, volume, apicIp, serviceIp, proxy, faults>>
  /\ UNCHANGED <<taskVars, engineVars, cliVars, taken, moved>>

StartAgain(u) ==
  /\ apic[u] = "up" /\ service[u] = "stopped" /\ network[u] # None
  /\ holder[u][serviceIp[u]] = "free"
  /\ service' = [service EXCEPT ![u] = "up"]
  /\ holder' = [holder EXCEPT ![u] = With(u, "service", serviceIp[u])]
  /\ UNCHANGED <<network, lingering, volume, apic, apicIp, serviceIp, proxy, faults>>
  /\ UNCHANGED <<taskVars, engineVars, cliVars, taken, moved>>

-----------------------------------------------------------------------------
(* The engine's process.  RestartAllEnclaveAPIContainers, when it is asked *)
(* for: remove those that run, then launch them again one by one; a        *)
(* failure ends the engine.                                                *)
Starting == {u \in Enclaves : Running(u, "apic")}

RemoveApics(S) ==
  /\ apic' = [u \in Enclaves |-> IF u \in S THEN "none" ELSE apic[u]]
  /\ apicIp' = [u \in Enclaves |-> IF u \in S THEN None ELSE apicIp[u]]
  /\ holder' = [u \in Enclaves |-> IF u \in S THEN Without(u, {"apic"}) ELSE holder[u]]

EngineBoots ==
  /\ engine = "starting"
  /\ \/ engine' = "up" /\ UNCHANGED <<taskVars, relaunch, gateways, apic, apicIp, holder, faults>>
     \/ /\ RemoveApics(Starting) /\ engine' = "relaunching" /\ relaunch' = Starting
        /\ UNCHANGED <<taskVars, gateways, faults>>
     \/ /\ Fails("remove container") /\ EngineDies("down")
        /\ \E gone \in SUBSET Starting : gone # Starting /\ RemoveApics(gone)
  /\ UNCHANGED <<network, lingering, volume, service, serviceIp, proxy, cliVars, taken, moved>>

Relaunch(u) ==
  /\ engine = "relaunching" /\ u \in relaunch /\ \A v \in Enclaves : Idle(v)
  /\ task' = [task EXCEPT ![u] = "relaunch"] /\ Goes(u, "launch")
  /\ UNCHANGED <<pick, tries, seen, outcome, hostVars, engineVars, cliVars, taken, moved>>

Relaunched ==
  /\ engine = "relaunching" /\ relaunch = {}
  /\ engine' = "up"
  /\ UNCHANGED <<hostVars, taskVars, relaunch, gateways, cliVars, taken, moved>>

EngineRuns == engine \in {"starting", "relaunching", "up"}

EngineCrashes ==
  /\ EngineRuns /\ Fault /\ EngineDies("down")
  /\ UNCHANGED <<network, holder, lingering, volume, apic, apicIp, service, serviceIp, proxy>>
  /\ UNCHANGED <<cliVars, taken, moved>>

-----------------------------------------------------------------------------
(* The CLI: start, stop or restart the engine.                             *)
Command ==
  /\ cli = "idle" /\ commands < MaxCommands
  /\ commands' = commands + 1
  /\ \E g \in {"start", "stop", "restart"} :
        goal' = g /\ cli' = IF g = "start" THEN "status" ELSE "kill"
  /\ UNCHANGED <<hostVars, taskVars, engineVars, aggregator, taken, moved>>

CliGoes(where) == cli' = where /\ goal' = IF where = "idle" THEN "none" ELSE goal

(* GetEngineStatus: an engine that runs is left alone, whether it answers  *)
(* or not.                                                                 *)
Status ==
  /\ cli = "status"
  /\ CliGoes(IF EngineRuns THEN "idle" ELSE "aggregator")
  /\ UNCHANGED <<hostVars, taskVars, engineVars, commands, aggregator, taken, moved>>

(* CreateEngine: the aggregator and the proxy, each kept when it exists    *)
(* already, and not started when it is stopped.  What a failing start      *)
(* leaves is such a container.                                             *)
Kept(helper) == IF helper = "none" THEN "up" ELSE helper
LeftBy(helper) == IF helper = "none" THEN {"none", "stopped"} ELSE {helper}

MakeAggregator ==
  /\ cli = "aggregator"
  /\ \/ aggregator' = Kept(aggregator) /\ CliGoes("proxy") /\ UNCHANGED faults
     \/ Fails("aggregator") /\ aggregator' \in LeftBy(aggregator) /\ CliGoes("idle")
  /\ UNCHANGED <<network, holder, lingering, volume, apic, apicIp, service, serviceIp, proxy>>
  /\ UNCHANGED <<taskVars, engineVars, commands, taken, moved>>

MakeProxy ==
  /\ cli = "proxy"
  /\ \/ proxy' = Kept(proxy) /\ CliGoes("connect") /\ UNCHANGED faults
     \/ Fails("proxy") /\ proxy' \in LeftBy(proxy) /\ CliGoes("undoAggregator")
     \/ proxy # "none" /\ Fails("find helper") /\ CliGoes("replaceProxy") /\ UNCHANGED proxy
  /\ UNCHANGED <<network, holder, lingering, volume, apic, apicIp, service, serviceIp>>
  /\ UNCHANGED <<taskVars, engineVars, commands, aggregator, taken, moved>>

(* One whose addresses cannot be read is stopped and removed first.        *)
ReplaceProxy ==
  /\ cli = "replaceProxy"
  /\ \/ proxy = "up" /\ StopProxyContainer /\ UNCHANGED <<cli, goal, faults>>
     \/ proxy = "stopped" /\ RemoveProxyContainer /\ CliGoes("proxy") /\ UNCHANGED faults
     \/ Fails("stop container") /\ CliGoes("undoAggregator") /\ UNCHANGED <<proxy, holder>>
  /\ UNCHANGED <<network, lingering, volume, apic, apicIp, service, serviceIp>>
  /\ UNCHANGED <<taskVars, engineVars, commands, aggregator, taken, moved>>

(* ... the proxy connected to every enclave's network, one by one ...      *)
Unconnected == {u \in Enclaves : network[u] # None /\ Has(u, "proxy") = {}}
AllConnected == Unconnected = {} \/ proxy = "stopped"

(* mutant: only the networks made from now on get the proxy                *)
ConnectsNone ==
  /\ cli = "connect" /\ CliGoes("container")
  /\ UNCHANGED <<hostVars, taskVars, engineVars, commands, aggregator, taken, moved>>

ConnectProxy ==
  /\ cli = "connect"
  /\ \/ /\ AllConnected /\ CliGoes("container") /\ UNCHANGED <<holder, moved, faults>>
     \/ \E u \in Unconnected :
          \/ /\ proxy = "up" /\ Connectable(u) /\ Connect(u)
             /\ moved' = [moved EXCEPT ![u] = @ \/ Containers(u) # {}]
             /\ UNCHANGED <<cli, goal, faults>>
          \/ /\ \/ ~Connectable(u) /\ UNCHANGED faults
                \/ Fails("connect")
             /\ CliGoes("undoProxy") /\ UNCHANGED <<holder, moved>>
  /\ UNCHANGED <<network, lingering, volume, apic, apicIp, service, serviceIp, proxy>>
  /\ UNCHANGED <<taskVars, engineVars, commands, aggregator, taken>>

(* ... and the engine's container.                                         *)
StartEngine ==
  /\ cli = "container"
  /\ \/ engine' = "starting" /\ CliGoes("await") /\ UNCHANGED faults
     \/ Fails("start engine") /\ CliGoes("undoProxy") /\ engine' \in {engine, "down"}
  /\ UNCHANGED <<network, holder, lingering, volume, apic, apicIp, service, serviceIp, proxy>>
  /\ UNCHANGED <<taskVars, relaunch, gateways, commands, aggregator, taken, moved>>

EngineAnswers ==
  /\ cli = "await" /\ engine = "up" /\ CliGoes("idle")
  /\ UNCHANGED <<hostVars, taskVars, engineVars, commands, aggregator, taken, moved>>

(* It has not answered in time, and is killed.                             *)
EngineIsGivenUp ==
  /\ cli = "await" /\ engine # "up" /\ CliGoes("undoProxy")
  /\ \/ EngineDies("down") /\ UNCHANGED faults
     \/ EngineRuns /\ Fails("kill engine") /\ UNCHANGED <<taskVars, engineVars>>
  /\ UNCHANGED <<network, holder, lingering, volume, apic, apicIp, service, serviceIp, proxy>>
  /\ UNCHANGED <<commands, aggregator, taken, moved>>

(* The deferred functions remove the proxy and the aggregator also when    *)
(* they were there before.                                                 *)
UndoProxy ==
  /\ cli = "undoProxy" /\ CliGoes("undoAggregator")
  /\ \/ RemoveProxyContainer /\ UNCHANGED faults
     \/ Fails("remove container") /\ UNCHANGED <<proxy, holder>>
  /\ UNCHANGED <<network, lingering, volume, apic, apicIp, service, serviceIp>>
  /\ UNCHANGED <<taskVars, engineVars, commands, aggregator, taken, moved>>

UndoAggregator ==
  /\ cli = "undoAggregator" /\ CliGoes("idle")
  /\ \/ aggregator' = "none" /\ UNCHANGED faults
     \/ Fails("remove container") /\ UNCHANGED aggregator
  /\ UNCHANGED <<network, holder, lingering, volume, apic, apicIp, service, serviceIp, proxy>>
  /\ UNCHANGED <<taskVars, engineVars, commands, taken, moved>>

(* StopEngines: the engine, and then, whether it was killed or not, the    *)
(* aggregator and the proxy.                                               *)
KillEngine ==
  /\ cli = "kill" /\ cli' = "stopAggregator"
  /\ \/ /\ \/ EngineRuns /\ EngineDies("down")
           \/ ~EngineRuns /\ UNCHANGED <<taskVars, engineVars>>
        /\ UNCHANGED <<goal, faults>>
     \/ EngineRuns /\ Fails("kill engine") /\ goal' = "none" /\ UNCHANGED <<taskVars, engineVars>>
  /\ UNCHANGED <<network, holder, lingering, volume, apic, apicIp, service, serviceIp, proxy>>
  /\ UNCHANGED <<commands, aggregator, taken, moved>>

(* Each helper is stopped and then removed, unless it is not found; when a *)
(* call fails the command ends there.                                      *)
StopAggregator ==
  /\ cli = "stopAggregator"
  /\ \/ /\ (aggregator = "none" /\ UNCHANGED faults) \/ Fails("find helper")
        /\ CliGoes("stopProxy") /\ UNCHANGED aggregator
     \/ aggregator # "none" /\ aggregator' = "stopped" /\ CliGoes("dropAggregator") /\ UNCHANGED faults
     \/ aggregator # "none" /\ Fails("stop container") /\ CliGoes("idle") /\ UNCHANGED aggregator
  /\ UNCHANGED <<network, holder, lingering, volume, apic, apicIp, service, serviceIp, proxy>>
  /\ UNCHANGED <<taskVars, engineVars, commands, taken, moved>>

(* The aggregator goes with the volume of its configuration.               *)
DropAggregator ==
  /\ cli = "dropAggregator"
  /\ \/ aggregator' = "none" /\ CliGoes("stopProxy") /\ UNCHANGED faults
     \/ aggregator' = "none" /\ Fails("remove volume") /\ CliGoes("idle")
     \/ Fails("remove container") /\ CliGoes("idle") /\ UNCHANGED aggregator
  /\ UNCHANGED <<network, holder, lingering, volume, apic, apicIp, service, serviceIp, proxy>>
  /\ UNCHANGED <<taskVars, engineVars, commands, taken, moved>>

HelpersGone == CliGoes(IF goal = "none" THEN "idle" ELSE "remove")

StopProxy ==
  /\ cli = "stopProxy"
  /\ \/ /\ (proxy = "none" /\ UNCHANGED faults) \/ Fails("find helper")
        /\ HelpersGone /\ UNCHANGED <<proxy, holder>>
     \/ proxy # "none" /\ StopProxyContainer /\ CliGoes("dropProxy") /\ UNCHANGED faults
     \/ proxy # "none" /\ Fails("stop container") /\ CliGoes("idle") /\ UNCHANGED <<proxy, holder>>
  /\ UNCHANGED <<network, lingering, volume, apic, apicIp, service, serviceIp>>
  /\ UNCHANGED <<taskVars, engineVars, commands, aggregator, taken, moved>>

DropProxy ==
  /\ cli = "dropProxy"
  /\ \/ RemoveProxyContainer /\ HelpersGone /\ UNCHANGED faults
     \/ Fails("remove container") /\ CliGoes("idle") /\ UNCHANGED <<proxy, holder>>
  /\ UNCHANGED <<network, lingering, volume, apic, apicIp, service, serviceIp>>
  /\ UNCHANGED <<taskVars, engineVars, commands, aggregator, taken, moved>>

(* waitUntilEngineStoppedOrError and DestroyEngines; restart goes on to    *)
(* start.                                                                  *)
RemoveEngine ==
  /\ cli = "remove" /\ ~EngineRuns
  /\ \/ engine' = "none" /\ CliGoes(IF goal = "restart" THEN "status" ELSE "idle") /\ UNCHANGED faults
     \/ engine # "none" /\ Fails("remove container") /\ CliGoes("idle") /\ UNCHANGED engine
  /\ UNCHANGED <<network, holder, lingering, volume, apic, apicIp, service, serviceIp, proxy>>
  /\ UNCHANGED <<taskVars, relaunch, gateways, commands, aggregator, taken, moved>>

CliDies ==
  /\ cli # "idle" /\ Fault /\ CliGoes("idle")
  /\ UNCHANGED <<network, holder, lingering, volume, apic, apicIp, service, serviceIp, proxy>>
  /\ UNCHANGED <<taskVars, engineVars, commands, aggregator, taken, moved>>

-----------------------------------------------------------------------------
TaskStep(u) ==
  \/ ListNetworks(u) \/ SubnetTaken(u) \/ NetworkMade(u) \/ NetworkFails(u)
  \/ CreateVolume(u) \/ PlugProxy(u) \/ UndoVolume(u) \/ UndoNetwork(u)
  \/ LaunchApic(u) \/ ApicAnswers(u) \/ ApicIsGivenUp(u)
  \/ Gather(u) \/ DestroyContainers(u) \/ DestroyVolumes(u)
  \/ DisconnectContainers(u) \/ DestroyNetwork(u) \/ StopContainers(u)

EngineStep == EngineBoots \/ Relaunched \/ \E u \in Enclaves : Relaunch(u)

CliStep ==
  \/ Status \/ MakeAggregator \/ MakeProxy \/ ReplaceProxy \/ ConnectProxy \/ StartEngine
  \/ EngineAnswers \/ EngineIsGivenUp \/ UndoProxy \/ UndoAggregator
  \/ KillEngine \/ StopAggregator \/ DropAggregator \/ StopProxy \/ DropProxy \/ RemoveEngine

DockerStep(u) == ApicBoots(u) \/ ApicDies(u) \/ ApicRestarts(u)

ScriptStep(u) == StartService(u) \/ StopService(u) \/ StartAgain(u)

Request(u) == BeginCreate(u) \/ BeginDestroy(u) \/ BeginStop(u)

SubnetsFreed ==
  /\ \E s \in Subnet : SubnetIsFreed(s)
  /\ UNCHANGED <<taskVars, engineVars, cliVars, taken, moved>>

Next ==
  \/ \E u \in Enclaves : TaskStep(u) \/ DockerStep(u) \/ ScriptStep(u) \/ Request(u)
  \/ EngineStep \/ EngineCrashes \/ CliStep \/ Command \/ CliDies \/ SubnetsFreed

Spec == Init /\ [][Next]_vars

(* The engine and the CLI go on with what they have begun; nothing is      *)
(* assumed of users, of containers or of when Docker frees a subnet.       *)
FairSpec ==
  /\ Spec
  /\ WF_vars(EngineStep) /\ WF_vars(CliStep)
  /\ \A u \in Enclaves : WF_vars(TaskStep(u))

-----------------------------------------------------------------------------
TypeOK ==
  /\ HostTypeOK
  /\ task \in [Enclaves -> {"none", "create", "destroy", "stop", "relaunch"}]
  /\ at \in [Enclaves -> {"idle", "list", "make", "volume", "plug", "launch", "await", "dropVolume",
                          "dropNetwork", "gather", "containers", "volumes", "unplug", "remove", "kill"}]
  /\ pick \in [Enclaves -> (Subnet \cup {None}) \X (Address \cup {None})]
  /\ tries \in [Enclaves -> 0 .. MaxTries - 1]
  /\ seen \in [Enclaves -> SUBSET {"apic", "service"}]
  /\ outcome \in [Enclaves -> {"new", "running", "failed", "left", "manual", "gone"}]
  /\ gateways \in [Subnet -> 0 .. NumAddresses]
  /\ taken \in [Enclaves -> SUBSET Address] /\ moved \in [Enclaves -> BOOLEAN]
  /\ engine \in {"none", "starting", "relaunching", "up", "down"} /\ relaunch \subseteq Enclaves
  /\ cli \in {"idle", "status", "aggregator", "proxy", "replaceProxy", "connect", "container", "await",
              "undoProxy", "undoAggregator", "kill", "stopAggregator", "dropAggregator", "stopProxy",
              "dropProxy", "remove"}
  /\ goal \in {"none", "start", "stop", "restart"}
  /\ commands \in 0 .. MaxCommands /\ aggregator \in Helper

(* An enclave is found by its network: whatever a crash, a failed call or  *)
(* a failed creation leaves, an API container never outlives it, nor does  *)
(* a data volume unless the user was told to remove that by hand, so that  *)
(* what is left can still be destroyed.                                    *)
NothingLost ==
  \A u \in Enclaves :
    /\ apic[u] # "none" => network[u] # None
    /\ volume[u] => network[u] # None \/ outcome[u] = "manual"

(* A creation that failed, none of its undoing calls having failed, has    *)
(* left nothing behind.                                                    *)
CreationAllOrNothing ==
  \A u \in Enclaves :
    outcome[u] = "failed" /\ Idle(u) => network[u] = None /\ ~volume[u] /\ apic[u] = "none"

(* As long as the engine can be used its logs aggregator and its reverse   *)
(* proxy exist, and run if nothing has failed yet; and a proxy that runs   *)
(* is in front of each API container, also one made for an earlier engine  *)
(* and an earlier proxy.                                                   *)
EnclavesReachable ==
  engine = "up" /\ cli = "idle" =>
    /\ proxy # "none" /\ aggregator # "none"
    /\ faults = 0 => proxy = "up" /\ aggregator = "up"
    /\ proxy = "up" => \A u \in Enclaves : apic[u] # "none" => Has(u, "proxy") # {}

(* Not so: the proxy and the aggregator run.  One that a failed command    *)
(* has stopped and not removed, or created and not started, is kept by the *)
(* next start and never started; and no enclave is reachable then.         *)
HelpersRun ==
  engine = "up" /\ cli = "idle" => proxy = "up" /\ aggregator = "up"

(* As long as the proxy has kept its address, no container waits for an    *)
(* address that another one holds: the API container and a stopped service *)
(* can come back, and the next service can start.                          *)
IsFor(u, who, a) == a = None \/ holder[u][a] \in {"free", who}

NoAddressHeldTwice ==
  \A u \in Enclaves : ~moved[u] /\ volume[u] =>
    /\ apic[u] # "none" => IsFor(u, "apic", apicIp[u])
    /\ service[u] # "none" => IsFor(u, "service", serviceIp[u])
    /\ apic[u] = "up" /\ Untaken(u) # {} => holder[u][Least(Untaken(u))] = "free"
HostOK == TypeOK /\ NoAddressHeldTwice

(* "Destroys an enclave, deleting all objects associated with it in the    *)
(* container engine (containers, volumes, networks, etc.)".  It does not   *)
(* hold: a service the API container starts after the containers have been *)
(* listed is disconnected from the network and left.                       *)
DestroyDeletesEverything ==
  \A u \in Enclaves : outcome[u] = "gone" => Containers(u) = {}

(* Each operation of the engine and each command of the CLI ends, however  *)
(* long Docker takes to free a subnet and whatever fails.                  *)
OperationsEnd ==
  /\ \A u \in Enclaves : task[u] # "none" ~> task[u] = "none"
  /\ cli # "idle" ~> cli = "idle"
=============================================================================
