------------------------- MODULE DockerEnclavesProofs -------------------------
(***************************************************************************)
(* Proofs about DockerEnclaves, for every number of enclaves, subnets,     *)
(* addresses, faults and commands: types, that no container waits for an   *)
(* address another one holds, that nothing is lost and that a creation is  *)
(* all or nothing hold whatever calls fail; that enclaves stay reachable   *)
(* holds as long as a running engine can be killed.                        *)
(*                                                                         *)
(* The invariant speaks of one enclave at a time (EnclaveInv), of the CLI  *)
(* (CliInv) and of types (Typed).  The engine's and the container's steps  *)
(* change one enclave and leave every other alone (Alone), which keeps     *)
(* what is said of those (Frame); the CLI's steps and the engine's own     *)
(* fall into a few kinds: nothing moves, the engine moves, the engine      *)
(* dies, the proxy goes, API containers go.                                *)
(***************************************************************************)
EXTENDS DockerEnclaves, WellFoundedInduction, NaturalsInduction, TLAPS

USE EnclavesAssumption, HostAssumption DEF None, Address, Subnet

-----------------------------------------------------------------------------
(* The inductive invariant.  Where an operation is: the places before      *)
(* there is an API container, and those of a destruction, also the one     *)
(* that a failed launch begins.                                            *)
Making == {"list", "make", "volume", "plug", "dropVolume", "dropNetwork"}
Removing == {"gather", "containers", "volumes", "unplug", "remove"}

(* An operation is where its kind can be, and ends with the engine.        *)
TaskInv(u) ==
  /\ task[u] = "none" <=> at[u] = "idle"
  /\ task[u] = "create" => at[u] \in Making \cup {"launch", "await"} \cup Removing
  /\ task[u] = "destroy" => at[u] \in Removing
  /\ task[u] = "stop" => at[u] = "kill"
  /\ task[u] = "relaunch" => at[u] \in {"launch", "await"} /\ u \in relaunch /\ engine = "relaunching"
  /\ task[u] \in {"create", "destroy", "stop"} => engine = "up"
  /\ u \in relaunch => engine = "relaunching"

(* "left" during a creation is what the failed removal of the volume has   *)
(* noted for the last of the deferred functions.                           *)
OutcomeInv(u) ==
  /\ task[u] = "create" => outcome[u] = "new" \/ (outcome[u] = "left" /\ at[u] = "dropNetwork")
  /\ at[u] = "dropNetwork" /\ volume[u] => outcome[u] = "left"
  /\ task[u] \in {"destroy", "stop"} => outcome[u] \in {"running", "left"}
  /\ outcome[u] = "failed" => network[u] = None /\ ~volume[u] /\ apic[u] = "none"

(* What each place has behind it.  Nobody makes objects of the enclave     *)
(* while another task is on it: a destruction that has removed the API     *)
(* container does not meet it again.                                       *)
StageInv(u) ==
  /\ at[u] \in Making => apic[u] = "none" /\ service[u] = "none" /\ taken[u] = {}
  /\ at[u] \in {"list", "make"} => network[u] = None
  /\ at[u] = "make" => pick[u][1] # None
  /\ at[u] \in Making \ {"list", "make"} => network[u] # None
  /\ at[u] \in {"list", "make", "volume", "unplug", "remove"} => ~volume[u]
  /\ at[u] = "plug" => volume[u]
  /\ at[u] = "launch" /\ task[u] = "create" => apic[u] = "none" /\ service[u] = "none" /\ taken[u] = {}
  /\ at[u] \in {"unplug", "remove"} => apic[u] = "none"
  /\ at[u] = "remove" => Removable(u)

(* An API container has its volume and its network.                        *)
LostInv(u) ==
  /\ apic[u] # "none" => network[u] # None /\ volume[u]
  /\ volume[u] => network[u] # None \/ outcome[u] = "manual"

(* An endpoint belongs to a container that runs with that address.         *)
HolderInv(u) ==
  /\ \A a \in Has(u, "apic") : a = apicIp[u] /\ Running(u, "apic")
  /\ \A a \in Has(u, "service") : a = serviceIp[u] /\ service[u] = "up"
  /\ apic[u] # "none" => apicIp[u] \in Address \ Has(u, "gateway")
  /\ service[u] # "none" => serviceIp[u] \in Address

(* The tracker of an enclave's database, once it is filled, has the        *)
(* gateway's address and the service's, and lives as long as the volume.   *)
TrackerInv(u) ==
  /\ ~volume[u] => taken[u] = {}
  /\ taken[u] # {} => Has(u, "gateway") \subseteq taken[u]
  /\ apic[u] = "up" => taken[u] # {}
  /\ volume[u] /\ service[u] # "none" => serviceIp[u] \in taken[u] \ Has(u, "gateway")

(* As long as the proxy has kept its address, the API container always     *)
(* gets the same one, the first that neither the gateway nor the proxy     *)
(* has; the tracker has it from the first launch on, also while the        *)
(* container is away to be launched again, so that no service gets it.     *)
Lives(u) == apic[u] # "none" \/ service[u] # "none" \/ u \in relaunch
First(u) == Least(ApicAddresses(u))

AddressInv(u) == volume[u] /\ ~moved[u] =>
  /\ apic[u] # "none" => apicIp[u] \notin Has(u, "proxy") /\ (taken[u] # {} => apicIp[u] \in taken[u])
  /\ apic[u] # "none" /\ Has(u, "proxy") # {} => apicIp[u] = First(u)
  /\ service[u] # "none" => serviceIp[u] \notin Has(u, "proxy")
  /\ service[u] # "none" /\ apic[u] # "none" => serviceIp[u] # apicIp[u]
  /\ service[u] # "none" /\ Has(u, "proxy") # {} => serviceIp[u] # First(u)
  /\ taken[u] # {} /\ Lives(u) => Has(u, "proxy") \subseteq taken[u]
  /\ taken[u] # {} /\ Lives(u) /\ Has(u, "proxy") # {} => First(u) \in taken[u]

EnclaveInv(u) ==
  /\ TaskInv(u) /\ OutcomeInv(u) /\ StageInv(u) /\ LostInv(u)
  /\ HolderInv(u) /\ TrackerInv(u) /\ AddressInv(u)

(* The CLI goes towards an engine only when none runs.                     *)
CliInv == cli \in {"aggregator", "proxy", "replaceProxy", "connect", "container"} => ~EngineRuns

(* The types, in parts that change together.                               *)
Holders == [Address -> {"free", "gateway", "proxy", "apic", "service"}]
Tasks == {"none", "create", "destroy", "stop", "relaunch"}
Places == {"idle", "list", "make", "volume", "plug", "launch", "await", "dropVolume",
           "dropNetwork", "gather", "containers", "volumes", "unplug", "remove", "kill"}
Outcomes == {"new", "running", "failed", "left", "manual", "gone"}
Picks == (Subnet \cup {None}) \X (Address \cup {None})

HolderT == holder \in [Enclaves -> Holders]
HostT ==
  /\ network \in [Enclaves -> Subnet \cup {None}]
  /\ lingering \subseteq Subnet
  /\ volume \in [Enclaves -> BOOLEAN] /\ proxy \in Helper
ContT ==
  /\ apic \in [Enclaves -> {"none", "boot", "up", "dead", "stopped"}]
  /\ service \in [Enclaves -> {"none", "up", "stopped"}]
  /\ apicIp \in [Enclaves -> Address \cup {None}] /\ serviceIp \in [Enclaves -> Address \cup {None}]
FaultT == faults \in 0 .. MaxFaults
PickT == pick \in [Enclaves -> Picks]
TaskT ==
  /\ task \in [Enclaves -> Tasks] /\ at \in [Enclaves -> Places] /\ outcome \in [Enclaves -> Outcomes]
TriesT == tries \in [Enclaves -> 0 .. MaxTries - 1]
SeenT == seen \in [Enclaves -> SUBSET {"apic", "service"}]
GateT == gateways \in [Subnet -> 0 .. NumAddresses]
TakenT == taken \in [Enclaves -> SUBSET Address] /\ moved \in [Enclaves -> BOOLEAN]
EngineT == engine \in {"none", "starting", "relaunching", "up", "down"} /\ relaunch \in SUBSET Enclaves
CliT ==
  /\ cli \in {"idle", "status", "aggregator", "proxy", "replaceProxy", "connect", "container", "await",
              "undoProxy", "undoAggregator", "kill", "stopAggregator", "dropAggregator", "stopProxy",
              "dropProxy", "remove"}
  /\ goal \in {"none", "start", "stop", "restart"}
  /\ commands \in 0 .. MaxCommands /\ aggregator \in Helper

Typed == /\ HolderT /\ HostT /\ ContT /\ FaultT /\ PickT /\ TaskT
         /\ TriesT /\ SeenT /\ GateT /\ TakenT /\ EngineT /\ CliT

All == Typed /\ CliInv /\ \A v \in Enclaves : EnclaveInv(v)

(* For the reachability of enclaves: while an engine runs its helpers are  *)
(* there, whoever takes one of them away does it when no engine runs, and  *)
(* one that is stopped is about to be removed or a call has failed.        *)
Dropping == {"replaceProxy", "stopAggregator", "dropAggregator", "stopProxy", "dropProxy", "remove",
             "undoProxy", "undoAggregator"}

HelperInv ==
  /\ cli \in Dropping => ~EngineRuns
  /\ cli \in {"proxy", "replaceProxy", "connect", "container"} => aggregator # "none"
  /\ cli \in {"connect", "container"} \/ EngineRuns => proxy # "none" /\ aggregator # "none"
  /\ faults = 0 =>
       /\ cli # "replaceProxy"
       /\ proxy = "stopped" => cli = "dropProxy"
       /\ aggregator = "stopped" => cli = "dropAggregator"
  /\ (EngineRuns \/ cli = "container") /\ proxy = "up" =>
       \A u \in Enclaves : apic[u] # "none" => Has(u, "proxy") # {}

-----------------------------------------------------------------------------
(* Least returns the least element of a set of numbers that is not empty.  *)
LEMMA LeastIsIn ==
  ASSUME NEW S \in SUBSET Nat, S # {}
  PROVE  Least(S) \in S /\ \A b \in S : Least(S) <= b
<1> DEFINE R == OpToRel(<, Nat)
<1>1. IsWellFoundedOn(R, Nat)
  BY NatLessThanWellFounded
<1>2. \A x, y \in Nat : y < x => <<y, x>> \in R
  BY DEF OpToRel
<1> HIDE DEF R
<1>3. PICK x \in S : \A y \in S : ~(<<y, x>> \in R)
  BY <1>1, WFMin
<1>4. \A y \in S : y \in Nat /\ x \in Nat /\ ~(y < x)
  BY <1>2, <1>3
<1>5. \A y \in S : x <= y
  BY <1>4
<1> QED
  BY <1>5 DEF Least

-----------------------------------------------------------------------------
(* Typing: what the parts of steps do to the types ...                     *)
LEMMA Faults == ASSUME FaultT, Fault PROVE FaultT'
  BY DEF Fault, FaultT

LEMMA FaultsCount == ASSUME FaultT PROVE faults \in Nat /\ (Fault => faults' # 0)
<1>1. MaxFaults \in Nat
  BY HostAssumption
<1> QED
  BY <1>1, SMT DEF Fault, FaultT

LEMMA WithoutTyped == ASSUME HolderT PROVE \A u \in Enclaves : \A S : Without(u, S) \in Holders
  BY DEF Without, HolderT, Holders

LEMMA WithTyped ==
  ASSUME HolderT
  PROVE  \A u \in Enclaves : \A a : \A w \in {"apic", "service", "proxy"} : With(u, w, a) \in Holders
  BY DEF With, HolderT, Holders

LEMMA DiesTyped ==
  ASSUME TaskT, EngineDies("down")
  PROVE  PickT' /\ TaskT' /\ TriesT' /\ SeenT' /\ GateT' /\ EngineT'
<1>1. PickT'
  BY DEF EngineDies, PickT, Picks
<1>2. TaskT'
  BY DEF EngineDies, TaskT, Tasks, Places, Outcomes
<1>3. TriesT' /\ SeenT' /\ GateT' /\ EngineT'
  BY DEF EngineDies, TriesT, SeenT, GateT, EngineT
<1> QED
  BY <1>1, <1>2, <1>3

LEMMA EndsTyped ==
  ASSUME PickT, TaskT, TriesT, SeenT, NEW u \in Enclaves, NEW o \in Outcomes, Ends(u, o)
  PROVE  PickT' /\ TaskT' /\ TriesT' /\ SeenT'
<1>1. PickT'
  BY DEF Ends, PickT, Picks
<1>2. TaskT'
  BY DEF Ends, TaskT, Tasks, Places
<1>3. TriesT' /\ SeenT'
  BY DEF Ends, TriesT, SeenT
<1> QED
  BY <1>1, <1>2, <1>3

LEMMA LaunchFailsTyped ==
  ASSUME PickT, TaskT, TriesT, SeenT, GateT, EngineT, NEW u \in Enclaves, LaunchFails(u)
  PROVE  PickT' /\ TaskT' /\ TriesT' /\ SeenT' /\ GateT' /\ EngineT'
<1>1. CASE EngineDies("down")
  BY <1>1, DiesTyped
<1>2. CASE ~EngineDies("down")
  <2>1. TaskT'
    BY <1>2 DEF LaunchFails, Goes, TaskT, Places
  <2>2. PickT' /\ TriesT' /\ SeenT' /\ GateT' /\ EngineT'
    BY <1>2 DEF LaunchFails, engineVars, PickT, TriesT, SeenT, GateT, EngineT
  <2> QED
    BY <2>1, <2>2
<1> QED
  BY <1>1, <1>2

LEMMA UnplugProxyTyped == ASSUME HolderT, UnplugProxy PROVE HolderT'
  BY WithoutTyped DEF UnplugProxy, HolderT

LEMMA NetworkRemovedTyped ==
  ASSUME HolderT, HostT, NEW u \in Enclaves, RemoveNetwork(u)
  PROVE  HolderT' /\ network' \in [Enclaves -> Subnet \cup {None}] /\ lingering' \subseteq Subnet
<1>1. HolderT'
  BY DEF RemoveNetwork, HolderT, Holders
<1>2. network' \in [Enclaves -> Subnet \cup {None}] /\ lingering' \subseteq Subnet
  BY DEF RemoveNetwork, HostT
<1> QED
  BY <1>1, <1>2

LEMMA NetworkCreatedTyped ==
  ASSUME HolderT, HostT, NEW u \in Enclaves, NEW s \in Subnet \cup {None}, NEW g, CreateNetwork(u, s, g)
  PROVE  HolderT' /\ network' \in [Enclaves -> Subnet \cup {None}]
<1> DEFINE h == [a \in Address |-> IF a = g THEN "gateway" ELSE "free"]
<1>1. h \in Holders
  BY DEF Holders
<1> HIDE DEF h
<1>2. HolderT'
  BY <1>1 DEF CreateNetwork, HolderT, h
<1>3. network' \in [Enclaves -> Subnet \cup {None}]
  BY DEF CreateNetwork, HostT
<1> QED
  BY <1>2, <1>3

LEMMA ContainersRemovedTyped ==
  ASSUME HolderT, ContT, NEW u \in Enclaves, NEW S, RemoveContainers(u, S)
  PROVE  HolderT' /\ ContT'
<1>1. HolderT'
  BY WithoutTyped DEF RemoveContainers, HolderT
<1>2. ContT'
  BY DEF RemoveContainers, ContT
<1> QED
  BY <1>1, <1>2

LEMMA ContainersKilledTyped ==
  ASSUME HolderT, ContT, NEW u \in Enclaves, NEW S, KillContainers(u, S), UNCHANGED <<apicIp, serviceIp>>
  PROVE  HolderT' /\ ContT'
<1>1. HolderT'
  BY WithoutTyped DEF KillContainers, HolderT
<1>2. ContT'
  BY DEF KillContainers, ContT
<1> QED
  BY <1>1, <1>2

LEMMA ApicsRemovedTyped ==
  ASSUME HolderT, ContT, NEW S, RemoveApics(S), UNCHANGED <<service, serviceIp>>
  PROVE  HolderT' /\ ContT'
<1>1. HolderT'
  BY WithoutTyped DEF RemoveApics, HolderT
<1>2. ContT'
  BY DEF RemoveApics, ContT
<1> QED
  BY <1>1, <1>2

LEMMA ConnectedTyped ==
  ASSUME HolderT, NEW u \in Enclaves, Connect(u)
  PROVE  HolderT'
  BY WithTyped DEF Connect, HolderT

LEMMA StageFailsTyped ==
  ASSUME PickT, TaskT, TriesT, SeenT, NEW u \in Enclaves, StageFails(u)
  PROVE  PickT' /\ TaskT' /\ TriesT' /\ SeenT'
  BY EndsTyped DEF StageFails, TaskT, Outcomes

(* ... and each step, the ones about an enclave first.                     *)
LEMMA ListNetworksTyped == ASSUME Typed, NEW u \in Enclaves, ListNetworks(u) PROVE Typed'
<1>1. GateT' /\ PickT'
  <2>1. CASE Ends(u, "failed") /\ UNCHANGED gateways
    BY <2>1, EndsTyped DEF Typed, GateT, Outcomes
  <2>2. ASSUME FreeSubnets # {}, NEW s, s = Least(FreeSubnets), gateways[s] < NumAddresses,
               gateways' = [gateways EXCEPT ![s] = @ + 1],
               pick' = [pick EXCEPT ![u] = <<s, gateways[s] + 1>>]
        PROVE  GateT' /\ PickT'
    <3>1. s \in Subnet
      BY <2>2, LeastIsIn DEF FreeSubnets
    <3>2. gateways[s] + 1 \in Address
      BY <2>2, <3>1 DEF Typed, GateT
    <3>3. GateT'
      BY <2>2, <3>1, <3>2 DEF Typed, GateT
    <3>4. PickT'
      BY <2>2, <3>1, <3>2 DEF Typed, PickT, Picks
    <3> QED
      BY <3>3, <3>4
  <2> QED
    BY <2>1, <2>2 DEF ListNetworks
<1>2. TaskT'
  BY EndsTyped DEF ListNetworks, Goes, hostVars, cliVars, FreeSubnets, Typed, TaskT, Tasks,
     Places, Outcomes
<1>3. HolderT' /\ HostT' /\ ContT' /\ FaultT' /\ TakenT' /\ EngineT' /\ CliT'
  BY DEF ListNetworks, Ends, Goes, hostVars, cliVars, FreeSubnets, Typed, HolderT, Holders,
     HostT, ContT, FaultT, TakenT, EngineT, CliT
<1>4. TriesT' /\ SeenT'
  BY EndsTyped DEF ListNetworks, Goes, hostVars, cliVars, FreeSubnets, Typed, TriesT, TaskT,
     Tasks, Places, Outcomes, SeenT
<1> QED
  BY <1>1, <1>2, <1>3, <1>4 DEF Typed

LEMMA SubnetTakenTyped == ASSUME Typed, NEW u \in Enclaves, SubnetTaken(u) PROVE Typed'
<1>1. HolderT' /\ HostT' /\ ContT' /\ FaultT' /\ GateT' /\ TakenT' /\ EngineT' /\ CliT'
  BY DEF SubnetTaken, Ends, Goes, hostVars, engineVars, cliVars, Overlaps, Typed, HolderT,
     Holders, HostT, ContT, FaultT, GateT, TakenT, EngineT, CliT
<1>2. PickT' /\ TaskT' /\ TriesT' /\ SeenT'
  BY EndsTyped DEF SubnetTaken, Goes, hostVars, engineVars, cliVars, Overlaps, Typed, PickT,
     Picks, TaskT, Tasks, Places, Outcomes, TriesT, SeenT
<1> QED
  BY <1>1, <1>2 DEF Typed

LEMMA NetworkMadeTyped == ASSUME Typed, NEW u \in Enclaves, NetworkMade(u) PROVE Typed'
<1>1. HolderT' /\ HostT'
  BY NetworkCreatedTyped DEF NetworkMade, Goes, engineVars, cliVars, Overlaps, Typed, HolderT,
     Holders, PickT, Picks, HostT
<1>2. /\ ContT' /\ FaultT' /\ PickT' /\ TaskT' /\ TriesT' /\ SeenT' /\ GateT' /\ TakenT'
      /\ EngineT' /\ CliT'
  BY DEF NetworkMade, CreateNetwork, Goes, engineVars, cliVars, Overlaps, Typed, ContT, FaultT,
     PickT, Picks, TaskT, Tasks, Places, Outcomes, TriesT, SeenT, GateT, TakenT, EngineT, CliT
<1> QED
  BY <1>1, <1>2 DEF Typed

LEMMA NetworkFailsTyped == ASSUME Typed, NEW u \in Enclaves, NetworkFails(u) PROVE Typed'
<1>1. HolderT' /\ HostT'
  BY NetworkCreatedTyped DEF NetworkFails, Ends, Fails, Fault, engineVars, cliVars, Overlaps,
     Typed, HolderT, Holders, PickT, Picks, HostT
<1>2. ContT' /\ GateT' /\ TakenT' /\ EngineT' /\ CliT'
  BY DEF NetworkFails, CreateNetwork, Ends, Fails, Fault, engineVars, cliVars, Overlaps, Typed,
     ContT, GateT, TakenT, EngineT, CliT
<1>3. FaultT'
  BY Faults DEF NetworkFails, CreateNetwork, Ends, Fails, engineVars, cliVars, Overlaps, Typed,
     FaultT
<1>4. PickT' /\ TaskT' /\ TriesT' /\ SeenT'
  BY EndsTyped DEF NetworkFails, CreateNetwork, Fails, Fault, engineVars, cliVars, Overlaps,
     Typed, PickT, Picks, TaskT, Tasks, Places, Outcomes, TriesT, SeenT
<1> QED
  BY <1>1, <1>2, <1>3, <1>4 DEF Typed

LEMMA CreateVolumeTyped == ASSUME Typed, NEW u \in Enclaves, CreateVolume(u) PROVE Typed'
<1>1. HostT'
  BY DEF CreateVolume, Goes, Fails, Fault, engineVars, cliVars, Typed, HostT
<1>2. TaskT'
  BY DEF CreateVolume, Goes, Fails, Fault, engineVars, cliVars, Typed, TaskT, Tasks, Places,
     Outcomes
<1>3. HolderT' /\ ContT' /\ PickT' /\ TriesT' /\ SeenT' /\ GateT' /\ TakenT' /\ EngineT' /\ CliT'
  BY DEF CreateVolume, Goes, Fails, Fault, engineVars, cliVars, Typed, HolderT, Holders, ContT,
     PickT, Picks, TriesT, SeenT, GateT, TakenT, EngineT, CliT
<1>4. FaultT'
  BY Faults DEF CreateVolume, Goes, Fails, engineVars, cliVars, Typed, FaultT
<1> QED
  BY <1>1, <1>2, <1>3, <1>4 DEF Typed

LEMMA PlugProxyTyped == ASSUME Typed, NEW u \in Enclaves, PlugProxy(u) PROVE Typed'
<1>1. TaskT'
  BY DEF PlugProxy, Connect, Goes, Fails, Fault, With, engineVars, cliVars, Has, Connectable,
     Typed, TaskT, Tasks, Places, Outcomes
<1>2. HolderT'
  BY ConnectedTyped DEF PlugProxy, Goes, Fails, Fault, engineVars, cliVars, Has, Connectable,
     Typed, HolderT, Holders
<1>3. HostT' /\ ContT' /\ PickT' /\ TriesT' /\ SeenT' /\ GateT' /\ TakenT' /\ EngineT' /\ CliT'
  BY DEF PlugProxy, Connect, Goes, Fails, Fault, With, engineVars, cliVars, Has, Connectable,
     Typed, HostT, ContT, PickT, Picks, TriesT, SeenT, GateT, TakenT, EngineT, CliT
<1>4. FaultT'
  BY Faults DEF PlugProxy, Connect, Goes, Fails, With, engineVars, cliVars, Has, Connectable,
     Typed, FaultT
<1> QED
  BY <1>1, <1>2, <1>3, <1>4 DEF Typed

LEMMA UndoVolumeTyped == ASSUME Typed, NEW u \in Enclaves, UndoVolume(u) PROVE Typed'
<1>1. HostT'
  BY DEF UndoVolume, Goes, Fails, Fault, engineVars, cliVars, Typed, HostT
<1>2. TaskT'
  BY DEF UndoVolume, Goes, Fails, Fault, engineVars, cliVars, Typed, TaskT, Tasks, Places,
     Outcomes
<1>3. HolderT' /\ ContT' /\ PickT' /\ TriesT' /\ SeenT' /\ GateT' /\ TakenT' /\ EngineT' /\ CliT'
  BY DEF UndoVolume, Goes, Fails, Fault, engineVars, cliVars, Typed, HolderT, Holders, ContT,
     PickT, Picks, TriesT, SeenT, GateT, TakenT, EngineT, CliT
<1>4. FaultT'
  BY Faults DEF UndoVolume, Goes, Fails, engineVars, cliVars, Typed, FaultT
<1> QED
  BY <1>1, <1>2, <1>3, <1>4 DEF Typed

LEMMA UndoNetworkTyped == ASSUME Typed, NEW u \in Enclaves, UndoNetwork(u) PROVE Typed'
<1>1. HolderT' /\ HostT'
  BY NetworkRemovedTyped DEF UndoNetwork, Ends, Fails, Fault, engineVars, cliVars, Typed,
     HolderT, Holders, HostT
<1>2. ContT' /\ GateT' /\ TakenT' /\ EngineT' /\ CliT'
  BY DEF UndoNetwork, RemoveNetwork, Ends, Fails, Fault, engineVars, cliVars, Typed, ContT,
     GateT, TakenT, EngineT, CliT
<1>3. FaultT'
  BY Faults DEF UndoNetwork, RemoveNetwork, Ends, Fails, engineVars, cliVars, Typed, FaultT
<1>4. PickT' /\ TaskT' /\ TriesT' /\ SeenT'
  BY EndsTyped DEF UndoNetwork, RemoveNetwork, Fails, Fault, engineVars, cliVars, Typed, PickT,
     Picks, TaskT, Tasks, Places, Outcomes, TriesT, SeenT
<1> QED
  BY <1>1, <1>2, <1>3, <1>4 DEF Typed

LEMMA LaunchApicTyped == ASSUME Typed, NEW u \in Enclaves, LaunchApic(u) PROVE Typed'
<1>1. ContT'
  <2>1. UNCHANGED <<service, serviceIp>> /\ (UNCHANGED <<apic, apicIp>> \/ Launchable(u))
    BY DEF LaunchApic
  <2>2. CASE UNCHANGED <<apic, apicIp>>
    BY <2>1, <2>2 DEF Typed, ContT
  <2>3. CASE Launchable(u)
    <3>1. Least(ApicAddresses(u)) \in Address
      BY <2>3, LeastIsIn DEF Launchable, ApicAddresses
    <3>2. /\ apicIp' = [apicIp EXCEPT ![u] = Least(ApicAddresses(u))]
          /\ \E s \in {"boot", "stopped"} : apic' = [apic EXCEPT ![u] = s]
      BY <2>3 DEF LaunchApic
    <3> QED
      BY <2>1, <3>1, <3>2 DEF Typed, ContT
  <2> QED
    BY <2>1, <2>2, <2>3
<1>2. HolderT'
  <2>1. UNCHANGED holder \/ \E a : holder' = [holder EXCEPT ![u] = With(u, "apic", a)]
    BY DEF LaunchApic
  <2> QED
    BY <2>1, WithTyped DEF Typed, HolderT
<1>3. HostT' /\ TakenT' /\ CliT'
  BY DEF LaunchApic, EngineDies, LaunchFails, Goes, Fails, Fault, With, engineVars, cliVars,
     Has, ApicAddresses, Launchable, Typed, HostT, TakenT, CliT
<1>4. FaultT'
  BY Faults DEF LaunchApic, EngineDies, LaunchFails, Goes, Fails, With, engineVars, cliVars,
     Has, ApicAddresses, Launchable, Typed, FaultT
<1>5. PickT' /\ TaskT' /\ TriesT' /\ SeenT' /\ GateT' /\ EngineT'
  BY LaunchFailsTyped DEF LaunchApic, Goes, Fails, Fault, With, engineVars, cliVars, Has,
     ApicAddresses, Launchable, Typed, PickT, Picks, TaskT, Tasks, Places, Outcomes, TriesT,
     SeenT, GateT, EngineT
<1> QED
  BY <1>1, <1>2, <1>3, <1>4, <1>5 DEF Typed

LEMMA ApicAnswersTyped == ASSUME Typed, NEW u \in Enclaves, ApicAnswers(u) PROVE Typed'
<1>1. HolderT' /\ HostT' /\ ContT' /\ FaultT' /\ GateT' /\ TakenT' /\ EngineT' /\ CliT'
  BY DEF ApicAnswers, Ends, hostVars, cliVars, Typed, HolderT, Holders, HostT, ContT, FaultT,
     GateT, TakenT, EngineT, CliT
<1>2. PickT' /\ TaskT' /\ TriesT' /\ SeenT'
  BY EndsTyped DEF ApicAnswers, hostVars, cliVars, Typed, PickT, Picks, TaskT, Tasks, Places,
     Outcomes, TriesT, SeenT
<1> QED
  BY <1>1, <1>2 DEF Typed

LEMMA ApicIsGivenUpTyped == ASSUME Typed, NEW u \in Enclaves, ApicIsGivenUp(u) PROVE Typed'
<1>1. HolderT' /\ ContT'
  BY ContainersKilledTyped DEF ApicIsGivenUp, EngineDies, LaunchFails, Goes, engineVars,
     cliVars, Typed, HolderT, Holders, ContT
<1>2. HostT' /\ FaultT' /\ TakenT' /\ CliT'
  BY DEF ApicIsGivenUp, KillContainers, EngineDies, LaunchFails, Goes, Without, engineVars,
     cliVars, Typed, HostT, FaultT, TakenT, CliT
<1>3. PickT' /\ TaskT' /\ TriesT' /\ SeenT' /\ GateT' /\ EngineT'
  BY LaunchFailsTyped DEF ApicIsGivenUp, KillContainers, Without, cliVars, Typed, PickT, Picks,
     TaskT, Tasks, Places, Outcomes, TriesT, SeenT, GateT, EngineT
<1> QED
  BY <1>1, <1>2, <1>3 DEF Typed

LEMMA GatherTyped == ASSUME Typed, NEW u \in Enclaves, Gather(u) PROVE Typed'
<1>1. /\ HolderT' /\ HostT' /\ ContT' /\ FaultT' /\ PickT' /\ TaskT' /\ TriesT' /\ SeenT'
      /\ GateT' /\ TakenT' /\ EngineT' /\ CliT'
  BY DEF Gather, Goes, hostVars, engineVars, cliVars, Containers, Typed, HolderT, Holders,
     HostT, ContT, FaultT, PickT, Picks, TaskT, Tasks, Places, Outcomes, TriesT, SeenT, GateT,
     TakenT, EngineT, CliT
<1> QED
  BY <1>1 DEF Typed

LEMMA DestroyContainersTyped ==
  ASSUME Typed, NEW u \in Enclaves, DestroyContainers(u)
  PROVE Typed'
<1>1. HolderT' /\ ContT'
  BY ContainersRemovedTyped DEF DestroyContainers, Ends, StageFails, Goes, Fails, Fault,
     engineVars, cliVars, Typed, HolderT, Holders, ContT
<1>2. HostT' /\ GateT' /\ TakenT' /\ EngineT' /\ CliT'
  BY DEF DestroyContainers, RemoveContainers, Ends, StageFails, Goes, Fails, Fault, Without,
     engineVars, cliVars, Typed, HostT, GateT, TakenT, EngineT, CliT
<1>3. FaultT'
  BY Faults DEF DestroyContainers, RemoveContainers, Ends, StageFails, Goes, Fails, Without,
     engineVars, cliVars, Typed, FaultT
<1>4. PickT' /\ TaskT' /\ TriesT' /\ SeenT'
  BY StageFailsTyped DEF DestroyContainers, RemoveContainers, Goes, Fails, Fault, Without,
     engineVars, cliVars, Typed, PickT, Picks, TaskT, Tasks, Places, Outcomes, TriesT, SeenT
<1> QED
  BY <1>1, <1>2, <1>3, <1>4 DEF Typed

LEMMA DestroyVolumesTyped == ASSUME Typed, NEW u \in Enclaves, DestroyVolumes(u) PROVE Typed'
<1>1. HostT'
  BY DEF DestroyVolumes, Ends, StageFails, Goes, Fails, Fault, engineVars, cliVars, Typed, HostT
<1>2. TakenT'
  BY DEF DestroyVolumes, Ends, StageFails, Goes, Fails, Fault, engineVars, cliVars, Typed, TakenT
<1>3. HolderT' /\ ContT' /\ GateT' /\ EngineT' /\ CliT'
  BY DEF DestroyVolumes, Ends, StageFails, Goes, Fails, Fault, engineVars, cliVars, Typed,
     HolderT, Holders, ContT, GateT, EngineT, CliT
<1>4. FaultT'
  BY Faults DEF DestroyVolumes, Ends, StageFails, Goes, Fails, engineVars, cliVars, Typed, FaultT
<1>5. PickT' /\ TaskT' /\ TriesT' /\ SeenT'
  BY StageFailsTyped DEF DestroyVolumes, Goes, Fails, Fault, engineVars, cliVars, Typed, PickT,
     Picks, TaskT, Tasks, Places, Outcomes, TriesT, SeenT
<1> QED
  BY <1>1, <1>2, <1>3, <1>4, <1>5 DEF Typed

LEMMA DisconnectContainersTyped ==
  ASSUME Typed, NEW u \in Enclaves, DisconnectContainers(u)
  PROVE Typed'
<1>1. PickT'
  BY StageFailsTyped DEF DisconnectContainers, Goes, Fails, Fault, Without, engineVars, cliVars,
     Typed, PickT, Picks, TaskT, Tasks, Places, Outcomes
<1>2. TaskT'
  BY StageFailsTyped DEF DisconnectContainers, Goes, Fails, Fault, Without, engineVars, cliVars,
     Typed, TaskT, Tasks, Places, Outcomes
<1>3. HolderT'
  BY WithoutTyped DEF DisconnectContainers, Ends, StageFails, Goes, Fails, Fault, engineVars,
     cliVars, Typed, HolderT, Holders
<1>4. HostT' /\ ContT' /\ GateT' /\ TakenT' /\ EngineT' /\ CliT'
  BY DEF DisconnectContainers, Ends, StageFails, Goes, Fails, Fault, Without, engineVars,
     cliVars, Typed, HostT, ContT, GateT, TakenT, EngineT, CliT
<1>5. FaultT'
  BY Faults DEF DisconnectContainers, Ends, StageFails, Goes, Fails, Without, engineVars,
     cliVars, Typed, FaultT
<1>6. TriesT' /\ SeenT'
  BY StageFailsTyped DEF DisconnectContainers, Goes, Fails, Fault, Without, engineVars, cliVars,
     Typed, TriesT, TaskT, Tasks, Places, Outcomes, SeenT
<1> QED
  BY <1>1, <1>2, <1>3, <1>4, <1>5, <1>6 DEF Typed

LEMMA DestroyNetworkTyped == ASSUME Typed, NEW u \in Enclaves, DestroyNetwork(u) PROVE Typed'
<1>1. HolderT' /\ HostT'
  BY NetworkRemovedTyped DEF DestroyNetwork, Ends, StageFails, Fails, Fault, engineVars,
     cliVars, Has, Removable, Typed, HolderT, Holders, HostT
<1>2. ContT' /\ GateT' /\ TakenT' /\ EngineT' /\ CliT'
  BY DEF DestroyNetwork, RemoveNetwork, Ends, StageFails, Fails, Fault, engineVars, cliVars,
     Has, Removable, Typed, ContT, GateT, TakenT, EngineT, CliT
<1>3. FaultT'
  BY Faults DEF DestroyNetwork, RemoveNetwork, Ends, StageFails, Fails, engineVars, cliVars,
     Has, Removable, Typed, FaultT
<1>4. PickT' /\ TaskT' /\ TriesT' /\ SeenT'
  BY EndsTyped, StageFailsTyped DEF DestroyNetwork, RemoveNetwork, Fails, Fault, engineVars,
     cliVars, Has, Removable, Typed, PickT, Picks, TaskT, Tasks, Places, Outcomes, TriesT,
     SeenT
<1> QED
  BY <1>1, <1>2, <1>3, <1>4 DEF Typed

LEMMA StopContainersTyped == ASSUME Typed, NEW u \in Enclaves, StopContainers(u) PROVE Typed'
<1>1. PickT'
  BY EndsTyped DEF StopContainers, KillContainers, Fails, Fault, Without, engineVars, cliVars,
     Typed, PickT, Picks, TaskT, Tasks, Places, Outcomes
<1>2. TaskT'
  BY EndsTyped DEF StopContainers, KillContainers, Fails, Fault, Without, engineVars, cliVars,
     Typed, TaskT, Tasks, Places, Outcomes
<1>3. HolderT' /\ ContT'
  BY ContainersKilledTyped DEF StopContainers, Ends, Fails, Fault, engineVars, cliVars, Typed,
     HolderT, Holders, ContT
<1>4. HostT' /\ GateT' /\ TakenT' /\ EngineT' /\ CliT'
  BY DEF StopContainers, KillContainers, Ends, Fails, Fault, Without, engineVars, cliVars,
     Typed, HostT, GateT, TakenT, EngineT, CliT
<1>5. FaultT'
  BY Faults DEF StopContainers, KillContainers, Ends, Fails, Without, engineVars, cliVars,
     Typed, FaultT
<1>6. TriesT'
  BY EndsTyped DEF StopContainers, KillContainers, Fails, Fault, Without, engineVars, cliVars,
     Typed, TriesT, TaskT, Tasks, Places, Outcomes
<1>7. SeenT'
  BY EndsTyped DEF StopContainers, KillContainers, Fails, Fault, Without, engineVars, cliVars,
     Typed, SeenT, TaskT, Tasks, Places, Outcomes
<1> QED
  BY <1>1, <1>2, <1>3, <1>4, <1>5, <1>6, <1>7 DEF Typed

LEMMA RelaunchTyped == ASSUME Typed, NEW u \in Enclaves, Relaunch(u) PROVE Typed'
<1>1. /\ HolderT' /\ HostT' /\ ContT' /\ FaultT' /\ PickT' /\ TaskT' /\ TriesT' /\ SeenT'
      /\ GateT' /\ TakenT' /\ EngineT' /\ CliT'
  BY DEF Relaunch, Goes, hostVars, engineVars, cliVars, Idle, Typed, HolderT, Holders, HostT,
     ContT, FaultT, PickT, Picks, TaskT, Tasks, Places, Outcomes, TriesT, SeenT, GateT, TakenT,
     EngineT, CliT
<1> QED
  BY <1>1 DEF Typed

LEMMA ApicBootsTyped == ASSUME Typed, NEW u \in Enclaves, HolderInv(u), ApicBoots(u) PROVE Typed'
<1>1. ContT'
  BY DEF ApicBoots, Without, taskVars, engineVars, cliVars, Has, Typed, ContT
<1>2. TakenT'
  BY DEF ApicBoots, HolderInv, Has, Typed, TakenT
<1>3. HolderT'
  BY WithoutTyped DEF ApicBoots, taskVars, engineVars, cliVars, Has, Typed, HolderT, Holders
<1>4. HostT' /\ FaultT' /\ PickT' /\ TaskT' /\ TriesT' /\ SeenT' /\ GateT' /\ EngineT' /\ CliT'
  BY DEF ApicBoots, Without, taskVars, engineVars, cliVars, Has, Typed, HostT, FaultT, PickT,
     Picks, TaskT, Tasks, Places, Outcomes, TriesT, SeenT, GateT, EngineT, CliT
<1> QED
  BY <1>1, <1>2, <1>3, <1>4 DEF Typed

LEMMA ApicDiesTyped == ASSUME Typed, NEW u \in Enclaves, ApicDies(u) PROVE Typed'
<1>1. HolderT'
  BY WithoutTyped DEF ApicDies, Fault, taskVars, engineVars, cliVars, Typed, HolderT, Holders
<1>2. /\ HostT' /\ ContT' /\ PickT' /\ TaskT' /\ TriesT' /\ SeenT' /\ GateT' /\ TakenT'
      /\ EngineT' /\ CliT'
  BY DEF ApicDies, Fault, Without, taskVars, engineVars, cliVars, Typed, HostT, ContT, PickT,
     Picks, TaskT, Tasks, Places, Outcomes, TriesT, SeenT, GateT, TakenT, EngineT, CliT
<1>3. FaultT'
  BY Faults DEF ApicDies, Without, taskVars, engineVars, cliVars, Typed, FaultT
<1> QED
  BY <1>1, <1>2, <1>3 DEF Typed

LEMMA ApicRestartsTyped == ASSUME Typed, NEW u \in Enclaves, ApicRestarts(u) PROVE Typed'
<1>1. HolderT'
  BY WithTyped DEF ApicRestarts, taskVars, engineVars, cliVars, Typed, HolderT, Holders
<1>2. /\ HostT' /\ ContT' /\ FaultT' /\ PickT' /\ TaskT' /\ TriesT' /\ SeenT' /\ GateT'
      /\ TakenT' /\ EngineT' /\ CliT'
  BY DEF ApicRestarts, With, taskVars, engineVars, cliVars, Typed, HostT, ContT, FaultT, PickT,
     Picks, TaskT, Tasks, Places, Outcomes, TriesT, SeenT, GateT, TakenT, EngineT, CliT
<1> QED
  BY <1>1, <1>2 DEF Typed

LEMMA StartServiceTyped == ASSUME Typed, NEW u \in Enclaves, StartService(u) PROVE Typed'
<1>1. ContT' /\ TakenT'
  <2>1. Least(Untaken(u)) \in Address
    BY LeastIsIn DEF StartService, Untaken
  <2>2. ContT'
    BY <2>1 DEF StartService, Typed, ContT
  <2>3. TakenT'
    BY <2>1 DEF StartService, Typed, TakenT
  <2> QED
    BY <2>2, <2>3
<1>2. HolderT'
  BY WithTyped DEF StartService, taskVars, engineVars, cliVars, Untaken, Typed, HolderT, Holders
<1>3. HostT' /\ FaultT' /\ PickT' /\ TaskT' /\ TriesT' /\ SeenT' /\ GateT' /\ EngineT' /\ CliT'
  BY DEF StartService, With, taskVars, engineVars, cliVars, Untaken, Typed, HostT, FaultT,
     PickT, Picks, TaskT, Tasks, Places, Outcomes, TriesT, SeenT, GateT, EngineT, CliT
<1> QED
  BY <1>1, <1>2, <1>3 DEF Typed

LEMMA StopServiceTyped == ASSUME Typed, NEW u \in Enclaves, StopService(u) PROVE Typed'
<1>1. HolderT' /\ ContT'
  BY ContainersKilledTyped DEF StopService, taskVars, engineVars, cliVars, Typed, HolderT,
     Holders, ContT
<1>2. /\ HostT' /\ FaultT' /\ PickT' /\ TaskT' /\ TriesT' /\ SeenT' /\ GateT' /\ TakenT'
      /\ EngineT' /\ CliT'
  BY DEF StopService, KillContainers, Without, taskVars, engineVars, cliVars, Typed, HostT,
     FaultT, PickT, Picks, TaskT, Tasks, Places, Outcomes, TriesT, SeenT, GateT, TakenT,
     EngineT, CliT
<1> QED
  BY <1>1, <1>2 DEF Typed

LEMMA StartAgainTyped == ASSUME Typed, NEW u \in Enclaves, StartAgain(u) PROVE Typed'
<1>1. HolderT'
  BY WithTyped DEF StartAgain, taskVars, engineVars, cliVars, Typed, HolderT, Holders
<1>2. HostT' /\ ContT'
  BY DEF StartAgain, With, taskVars, engineVars, cliVars, Typed, HostT, ContT
<1>3. FaultT' /\ PickT' /\ TaskT' /\ TriesT' /\ SeenT' /\ GateT' /\ TakenT' /\ EngineT' /\ CliT'
  BY DEF StartAgain, With, taskVars, engineVars, cliVars, Typed, FaultT, PickT, Picks, TaskT,
     Tasks, Places, Outcomes, TriesT, SeenT, GateT, TakenT, EngineT, CliT
<1> QED
  BY <1>1, <1>2, <1>3 DEF Typed

LEMMA BeginCreateTyped == ASSUME Typed, NEW u \in Enclaves, BeginCreate(u) PROVE Typed'
<1>1. /\ HolderT' /\ HostT' /\ ContT' /\ FaultT' /\ PickT' /\ TaskT' /\ TriesT' /\ SeenT'
      /\ GateT' /\ TakenT' /\ EngineT' /\ CliT'
  BY DEF BeginCreate, Goes, hostVars, engineVars, cliVars, Containers, Idle, Typed, HolderT,
     Holders, HostT, ContT, FaultT, PickT, Picks, TaskT, Tasks, Places, Outcomes, TriesT, SeenT,
     GateT, TakenT, EngineT, CliT
<1> QED
  BY <1>1 DEF Typed

LEMMA BeginDestroyTyped == ASSUME Typed, NEW u \in Enclaves, BeginDestroy(u) PROVE Typed'
<1>1. /\ HolderT' /\ HostT' /\ ContT' /\ FaultT' /\ PickT' /\ TaskT' /\ TriesT' /\ SeenT'
      /\ GateT' /\ TakenT' /\ EngineT' /\ CliT'
  BY DEF BeginDestroy, Goes, hostVars, engineVars, cliVars, Idle, Typed, HolderT, Holders,
     HostT, ContT, FaultT, PickT, Picks, TaskT, Tasks, Places, Outcomes, TriesT, SeenT, GateT,
     TakenT, EngineT, CliT
<1> QED
  BY <1>1 DEF Typed

LEMMA BeginStopTyped == ASSUME Typed, NEW u \in Enclaves, BeginStop(u) PROVE Typed'
<1>1. /\ HolderT' /\ HostT' /\ ContT' /\ FaultT' /\ PickT' /\ TaskT' /\ TriesT' /\ SeenT'
      /\ GateT' /\ TakenT' /\ EngineT' /\ CliT'
  BY DEF BeginStop, Goes, hostVars, engineVars, cliVars, Containers, Idle, Typed, HolderT,
     Holders, HostT, ContT, FaultT, PickT, Picks, TaskT, Tasks, Places, Outcomes, TriesT, SeenT,
     GateT, TakenT, EngineT, CliT
<1> QED
  BY <1>1 DEF Typed

LEMMA EngineBootsTyped == ASSUME Typed, EngineBoots PROVE Typed'
<1>1. HolderT' /\ ContT'
  BY ApicsRemovedTyped DEF EngineBoots, EngineDies, Fails, Fault, taskVars, cliVars, Starting,
     Running, Typed, HolderT, Holders, ContT
<1>2. HostT' /\ TakenT' /\ CliT'
  BY DEF EngineBoots, RemoveApics, EngineDies, Fails, Fault, Without, taskVars, cliVars,
     Starting, Running, Typed, HostT, TakenT, CliT
<1>3. FaultT'
  BY Faults DEF EngineBoots, RemoveApics, EngineDies, Fails, Without, taskVars, cliVars,
     Starting, Running, Typed, FaultT
<1>4. PickT' /\ TaskT' /\ TriesT' /\ SeenT' /\ GateT' /\ EngineT'
  BY DiesTyped DEF EngineBoots, RemoveApics, Fails, Fault, Without, taskVars, cliVars, Starting,
     Running, Typed, PickT, Picks, TaskT, Tasks, Places, Outcomes, TriesT, SeenT, GateT,
     EngineT
<1> QED
  BY <1>1, <1>2, <1>3, <1>4 DEF Typed

LEMMA RelaunchedTyped == ASSUME Typed, Relaunched PROVE Typed'
<1>1. /\ HolderT' /\ HostT' /\ ContT' /\ FaultT' /\ PickT' /\ TaskT' /\ TriesT' /\ SeenT'
      /\ GateT' /\ TakenT' /\ EngineT' /\ CliT'
  BY DEF Relaunched, hostVars, taskVars, cliVars, Typed, HolderT, Holders, HostT, ContT, FaultT,
     PickT, Picks, TaskT, Tasks, Places, Outcomes, TriesT, SeenT, GateT, TakenT, EngineT, CliT
<1> QED
  BY <1>1 DEF Typed

LEMMA EngineCrashesTyped == ASSUME Typed, EngineCrashes PROVE Typed'
<1>1. HolderT' /\ HostT' /\ ContT' /\ TakenT' /\ CliT'
  BY DEF EngineCrashes, EngineDies, Fault, cliVars, EngineRuns, Typed, HolderT, Holders, HostT,
     ContT, TakenT, CliT
<1>2. FaultT'
  BY Faults DEF EngineCrashes, EngineDies, cliVars, EngineRuns, Typed, FaultT
<1>3. PickT' /\ TaskT' /\ TriesT' /\ SeenT' /\ GateT' /\ EngineT'
  BY DiesTyped DEF EngineCrashes, Fault, cliVars, EngineRuns, Typed, PickT, Picks, TaskT, Tasks,
     Places, Outcomes, TriesT, SeenT, GateT, EngineT
<1> QED
  BY <1>1, <1>2, <1>3 DEF Typed

LEMMA CommandTyped == ASSUME Typed, Command PROVE Typed'
<1>1. /\ HolderT' /\ HostT' /\ ContT' /\ FaultT' /\ PickT' /\ TaskT' /\ TriesT' /\ SeenT'
      /\ GateT' /\ TakenT' /\ EngineT' /\ CliT'
  BY DEF Command, hostVars, taskVars, engineVars, Typed, HolderT, Holders, HostT, ContT, FaultT,
     PickT, Picks, TaskT, Tasks, Places, Outcomes, TriesT, SeenT, GateT, TakenT, EngineT, CliT
<1> QED
  BY <1>1 DEF Typed

LEMMA StatusTyped == ASSUME Typed, Status PROVE Typed'
<1>1. /\ HolderT' /\ HostT' /\ ContT' /\ FaultT' /\ PickT' /\ TaskT' /\ TriesT' /\ SeenT'
      /\ GateT' /\ TakenT' /\ EngineT' /\ CliT'
  BY DEF Status, CliGoes, hostVars, taskVars, engineVars, EngineRuns, Typed, HolderT, Holders,
     HostT, ContT, FaultT, PickT, Picks, TaskT, Tasks, Places, Outcomes, TriesT, SeenT, GateT,
     TakenT, EngineT, CliT
<1> QED
  BY <1>1 DEF Typed

LEMMA MakeAggregatorTyped == ASSUME Typed, MakeAggregator PROVE Typed'
<1>1. /\ HolderT' /\ HostT' /\ ContT' /\ PickT' /\ TaskT' /\ TriesT' /\ SeenT' /\ GateT'
      /\ TakenT' /\ EngineT' /\ CliT'
  BY DEF MakeAggregator, Helper, Kept, LeftBy, CliGoes, Fails, Fault, taskVars, engineVars,
     Typed, HolderT, Holders,
     HostT, ContT, PickT, Picks, TaskT, Tasks, Places, Outcomes, TriesT, SeenT, GateT, TakenT,
     EngineT, CliT
<1>2. FaultT'
  BY Faults DEF MakeAggregator, CliGoes, Fails, taskVars, engineVars, Typed, FaultT
<1> QED
  BY <1>1, <1>2 DEF Typed

LEMMA MakeProxyTyped == ASSUME Typed, MakeProxy PROVE Typed'
<1>1. /\ HolderT' /\ HostT' /\ ContT' /\ PickT' /\ TaskT' /\ TriesT' /\ SeenT' /\ GateT'
      /\ TakenT' /\ EngineT' /\ CliT'
  BY DEF MakeProxy, Helper, Kept, LeftBy, CliGoes, Fails, Fault, taskVars, engineVars, Typed,
     HolderT, Holders, HostT,
     ContT, PickT, Picks, TaskT, Tasks, Places, Outcomes, TriesT, SeenT, GateT, TakenT, EngineT,
     CliT
<1>2. FaultT'
  BY Faults DEF MakeProxy, CliGoes, Fails, taskVars, engineVars, Typed, FaultT
<1> QED
  BY <1>1, <1>2 DEF Typed

LEMMA ConnectProxyTyped == ASSUME Typed, ConnectProxy PROVE Typed'
<1>1. HolderT'
  BY ConnectedTyped DEF ConnectProxy, CliGoes, Fails, Fault, taskVars, engineVars, Containers,
     Has, Unconnected, Connectable, Typed, HolderT, Holders
<1>2. /\ HostT' /\ ContT' /\ PickT' /\ TaskT' /\ TriesT' /\ SeenT' /\ GateT' /\ TakenT'
      /\ EngineT' /\ CliT'
  BY DEF ConnectProxy, Connect, CliGoes, Fails, Fault, With, taskVars, engineVars, Containers,
     Has, Unconnected, Connectable, Typed, HostT, ContT, PickT, Picks, TaskT, Tasks, Places,
     Outcomes, TriesT, SeenT, GateT, TakenT, EngineT, CliT
<1>3. FaultT'
  BY Faults DEF ConnectProxy, Connect, CliGoes, Fails, With, taskVars, engineVars, Containers,
     Has, Unconnected, Connectable, Typed, FaultT
<1> QED
  BY <1>1, <1>2, <1>3 DEF Typed

LEMMA StartEngineTyped == ASSUME Typed, StartEngine PROVE Typed'
<1>1. /\ HolderT' /\ HostT' /\ ContT' /\ PickT' /\ TaskT' /\ TriesT' /\ SeenT' /\ GateT'
      /\ TakenT' /\ EngineT' /\ CliT'
  BY DEF StartEngine, CliGoes, Fails, Fault, taskVars, Typed, HolderT, Holders, HostT, ContT,
     PickT, Picks, TaskT, Tasks, Places, Outcomes, TriesT, SeenT, GateT, TakenT, EngineT, CliT
<1>2. FaultT'
  BY Faults DEF StartEngine, CliGoes, Fails, taskVars, Typed, FaultT
<1> QED
  BY <1>1, <1>2 DEF Typed

LEMMA EngineAnswersTyped == ASSUME Typed, EngineAnswers PROVE Typed'
<1>1. /\ HolderT' /\ HostT' /\ ContT' /\ FaultT' /\ PickT' /\ TaskT' /\ TriesT' /\ SeenT'
      /\ GateT' /\ TakenT' /\ EngineT' /\ CliT'
  BY DEF EngineAnswers, CliGoes, hostVars, taskVars, engineVars, Typed, HolderT, Holders, HostT,
     ContT, FaultT, PickT, Picks, TaskT, Tasks, Places, Outcomes, TriesT, SeenT, GateT, TakenT,
     EngineT, CliT
<1> QED
  BY <1>1 DEF Typed

LEMMA EngineIsGivenUpTyped == ASSUME Typed, EngineIsGivenUp PROVE Typed'
<1>1. HolderT' /\ HostT' /\ ContT' /\ TakenT' /\ CliT'
  BY DEF EngineIsGivenUp, EngineDies, CliGoes, Fails, Fault, taskVars, engineVars, EngineRuns,
     Typed, HolderT, Holders, HostT, ContT, TakenT, CliT
<1>2. FaultT'
  BY Faults DEF EngineIsGivenUp, EngineDies, CliGoes, Fails, taskVars, engineVars, EngineRuns,
     Typed, FaultT
<1>3. PickT' /\ TaskT' /\ TriesT' /\ SeenT' /\ GateT' /\ EngineT'
  BY DiesTyped DEF EngineIsGivenUp, CliGoes, Fails, Fault, taskVars, engineVars, EngineRuns,
     Typed, PickT, Picks, TaskT, Tasks, Places, Outcomes, TriesT, SeenT, GateT, EngineT
<1> QED
  BY <1>1, <1>2, <1>3 DEF Typed

LEMMA UndoProxyTyped == ASSUME Typed, UndoProxy PROVE Typed'
<1>1. HolderT'
  BY UnplugProxyTyped DEF UndoProxy, RemoveProxyContainer, CliGoes, Fails, Fault, taskVars,
     engineVars, Typed,
     HolderT, Holders
<1>2. /\ HostT' /\ ContT' /\ PickT' /\ TaskT' /\ TriesT' /\ SeenT' /\ GateT' /\ TakenT'
      /\ EngineT' /\ CliT'
  BY DEF UndoProxy, RemoveProxyContainer, CliGoes, Fails, Fault, taskVars, engineVars, Typed,
     HostT, Helper,
     ContT, PickT, Picks, TaskT, Tasks, Places, Outcomes, TriesT, SeenT, GateT, TakenT, EngineT,
     CliT
<1>3. FaultT'
  BY Faults DEF UndoProxy, CliGoes, Fails, taskVars, engineVars, Typed, FaultT
<1> QED
  BY <1>1, <1>2, <1>3 DEF Typed

LEMMA UndoAggregatorTyped == ASSUME Typed, UndoAggregator PROVE Typed'
<1>1. /\ HolderT' /\ HostT' /\ ContT' /\ PickT' /\ TaskT' /\ TriesT' /\ SeenT' /\ GateT'
      /\ TakenT' /\ EngineT' /\ CliT'
  BY DEF UndoAggregator, Helper, CliGoes, Fails, Fault, taskVars, engineVars, Typed, HolderT,
     Holders,
     HostT, ContT, PickT, Picks, TaskT, Tasks, Places, Outcomes, TriesT, SeenT, GateT, TakenT,
     EngineT, CliT
<1>2. FaultT'
  BY Faults DEF UndoAggregator, CliGoes, Fails, taskVars, engineVars, Typed, FaultT
<1> QED
  BY <1>1, <1>2 DEF Typed

LEMMA KillEngineTyped == ASSUME Typed, KillEngine PROVE Typed'
<1>1. HolderT' /\ HostT' /\ ContT' /\ TakenT' /\ CliT'
  BY DEF KillEngine, EngineDies, Fails, Fault, taskVars, engineVars, EngineRuns, Typed, HolderT,
     Holders, HostT, ContT, TakenT, CliT
<1>2. FaultT'
  BY Faults DEF KillEngine, EngineDies, Fails, taskVars, engineVars, EngineRuns, Typed, FaultT
<1>3. PickT' /\ TaskT' /\ TriesT' /\ SeenT' /\ GateT' /\ EngineT'
  BY DiesTyped DEF KillEngine, Fails, Fault, taskVars, engineVars, EngineRuns, Typed, PickT,
     Picks, TaskT, Tasks, Places, Outcomes, TriesT, SeenT, GateT, EngineT
<1> QED
  BY <1>1, <1>2, <1>3 DEF Typed

LEMMA StopAggregatorTyped == ASSUME Typed, StopAggregator PROVE Typed'
<1>1. /\ HolderT' /\ HostT' /\ ContT' /\ PickT' /\ TaskT' /\ TriesT' /\ SeenT' /\ GateT'
      /\ TakenT' /\ EngineT' /\ CliT'
  BY DEF StopAggregator, Helper, CliGoes, Fails, Fault, taskVars, engineVars, Typed, HolderT,
     Holders,
     HostT, ContT, PickT, Picks, TaskT, Tasks, Places, Outcomes, TriesT, SeenT, GateT, TakenT,
     EngineT, CliT
<1>2. FaultT'
  BY Faults DEF StopAggregator, CliGoes, Fails, taskVars, engineVars, Typed, FaultT
<1> QED
  BY <1>1, <1>2 DEF Typed

LEMMA DropAggregatorTyped == ASSUME Typed, DropAggregator PROVE Typed'
<1>1. /\ HolderT' /\ HostT' /\ ContT' /\ PickT' /\ TaskT' /\ TriesT' /\ SeenT' /\ GateT'
      /\ TakenT' /\ EngineT' /\ CliT'
  BY DEF DropAggregator, Helper, CliGoes, Fails, Fault, taskVars, engineVars, Typed, HolderT,
     Holders,
     HostT, ContT, PickT, Picks, TaskT, Tasks, Places, Outcomes, TriesT, SeenT, GateT, TakenT,
     EngineT, CliT
<1>2. FaultT'
  BY Faults DEF DropAggregator, CliGoes, Fails, taskVars, engineVars, Typed, FaultT
<1> QED
  BY <1>1, <1>2 DEF Typed

LEMMA StopProxyTyped == ASSUME Typed, StopProxy PROVE Typed'
<1>1. HolderT'
  BY UnplugProxyTyped DEF StopProxy, StopProxyContainer, HelpersGone, CliGoes, Fails, Fault,
     taskVars, engineVars, Typed,
     HolderT, Holders
<1>2. /\ HostT' /\ ContT' /\ PickT' /\ TaskT' /\ TriesT' /\ SeenT' /\ GateT' /\ TakenT'
      /\ EngineT' /\ CliT'
  BY DEF StopProxy, StopProxyContainer, HelpersGone, CliGoes, Fails, Fault, taskVars,
     engineVars, Typed, HostT, Helper,
     ContT, PickT, Picks, TaskT, Tasks, Places, Outcomes, TriesT, SeenT, GateT, TakenT, EngineT,
     CliT
<1>3. FaultT'
  BY Faults DEF StopProxy, HelpersGone, CliGoes, Fails, taskVars, engineVars, Typed, FaultT
<1> QED
  BY <1>1, <1>2, <1>3 DEF Typed

LEMMA DropProxyTyped == ASSUME Typed, DropProxy PROVE Typed'
<1>1. HolderT'
  BY UnplugProxyTyped DEF DropProxy, RemoveProxyContainer, HelpersGone, CliGoes, Fails, Fault,
     taskVars, engineVars, Typed,
     HolderT, Holders
<1>2. /\ HostT' /\ ContT' /\ PickT' /\ TaskT' /\ TriesT' /\ SeenT' /\ GateT' /\ TakenT'
      /\ EngineT' /\ CliT'
  BY DEF DropProxy, RemoveProxyContainer, HelpersGone, CliGoes, Fails, Fault, taskVars,
     engineVars, Typed, HostT, Helper,
     ContT, PickT, Picks, TaskT, Tasks, Places, Outcomes, TriesT, SeenT, GateT, TakenT, EngineT,
     CliT
<1>3. FaultT'
  BY Faults DEF DropProxy, HelpersGone, CliGoes, Fails, taskVars, engineVars, Typed, FaultT
<1> QED
  BY <1>1, <1>2, <1>3 DEF Typed

LEMMA ReplaceProxyTyped == ASSUME Typed, ReplaceProxy PROVE Typed'
<1>1. HolderT'
  BY UnplugProxyTyped DEF ReplaceProxy, StopProxyContainer, RemoveProxyContainer, CliGoes,
     Fails, Fault, taskVars, engineVars, Typed,
     HolderT, Holders
<1>2. /\ HostT' /\ ContT' /\ PickT' /\ TaskT' /\ TriesT' /\ SeenT' /\ GateT' /\ TakenT'
      /\ EngineT' /\ CliT'
  BY DEF ReplaceProxy, StopProxyContainer, RemoveProxyContainer, CliGoes, Fails, Fault,
     taskVars, engineVars, Typed, HostT, Helper,
     ContT, PickT, Picks, TaskT, Tasks, Places, Outcomes, TriesT, SeenT, GateT, TakenT, EngineT,
     CliT
<1>3. FaultT'
  BY Faults DEF ReplaceProxy, CliGoes, Fails, taskVars, engineVars, Typed, FaultT
<1> QED
  BY <1>1, <1>2, <1>3 DEF Typed

LEMMA RemoveEngineTyped == ASSUME Typed, RemoveEngine PROVE Typed'
<1>1. /\ HolderT' /\ HostT' /\ ContT' /\ PickT' /\ TaskT' /\ TriesT' /\ SeenT' /\ GateT'
      /\ TakenT' /\ EngineT' /\ CliT'
  BY DEF RemoveEngine, CliGoes, Fails, Fault, taskVars, EngineRuns, Typed, HolderT, Holders,
     HostT, ContT, PickT, Picks, TaskT, Tasks, Places, Outcomes, TriesT, SeenT, GateT, TakenT,
     EngineT, CliT
<1>2. FaultT'
  BY Faults DEF RemoveEngine, CliGoes, Fails, taskVars, EngineRuns, Typed, FaultT
<1> QED
  BY <1>1, <1>2 DEF Typed

LEMMA CliDiesTyped == ASSUME Typed, CliDies PROVE Typed'
<1>1. /\ HolderT' /\ HostT' /\ ContT' /\ PickT' /\ TaskT' /\ TriesT' /\ SeenT' /\ GateT'
      /\ TakenT' /\ EngineT' /\ CliT'
  BY DEF CliDies, CliGoes, Fault, taskVars, engineVars, Typed, HolderT, Holders, HostT, ContT,
     PickT, Picks, TaskT, Tasks, Places, Outcomes, TriesT, SeenT, GateT, TakenT, EngineT, CliT
<1>2. FaultT'
  BY Faults DEF CliDies, CliGoes, taskVars, engineVars, Typed, FaultT
<1> QED
  BY <1>1, <1>2 DEF Typed

LEMMA SubnetsFreedTyped == ASSUME Typed, SubnetsFreed PROVE Typed'
<1>1. /\ HolderT' /\ HostT' /\ ContT' /\ FaultT' /\ PickT' /\ TaskT' /\ TriesT' /\ SeenT'
      /\ GateT' /\ TakenT' /\ EngineT' /\ CliT'
  BY DEF SubnetsFreed, taskVars, engineVars, cliVars, SubnetIsFreed, Typed, HolderT, Holders,
     HostT, ContT, FaultT, PickT, Picks, TaskT, Tasks, Places, Outcomes, TriesT, SeenT, GateT,
     TakenT, EngineT, CliT
<1> QED
  BY <1>1 DEF Typed

-----------------------------------------------------------------------------
(* What is kept of an enclave that a step leaves alone, or that only loses *)
(* its task to the end of the engine.  Behind is for HelperInv.            *)
SameHost(v) ==
  /\ network'[v] = network[v] /\ holder'[v] = holder[v] /\ volume'[v] = volume[v]
  /\ apic'[v] = apic[v] /\ apicIp'[v] = apicIp[v] /\ service'[v] = service[v] /\ serviceIp'[v] = serviceIp[v]
  /\ taken'[v] = taken[v] /\ moved'[v] = moved[v]
SameTask(v) ==
  /\ task'[v] = task[v] /\ at'[v] = at[v] /\ pick'[v] = pick[v] /\ outcome'[v] = outcome[v]

Behind(v) == apic[v] # "none" => Has(v, "proxy") # {}
Holds(v) == EnclaveInv(v)' /\ (Behind(v) => Behind(v)')

LEMMA HostFrame ==
  ASSUME NEW v \in Enclaves, SameHost(v), v \in relaunch' => v \in relaunch
  PROVE  /\ HolderInv(v) => HolderInv(v)'
         /\ TrackerInv(v) => TrackerInv(v)'
         /\ AddressInv(v) => AddressInv(v)'
<1>1. \A w : Has(v, w)' = Has(v, w)
  BY DEF SameHost, Has
<1>2. First(v)' = First(v)
  BY <1>1 DEF First, ApicAddresses
<1>3. HolderInv(v) => HolderInv(v)'
  BY <1>1 DEF SameHost, HolderInv, Running
<1>4. TrackerInv(v) => TrackerInv(v)'
  BY <1>1 DEF SameHost, TrackerInv
<1>5. AddressInv(v) => AddressInv(v)'
  BY <1>1, <1>2 DEF SameHost, AddressInv, Lives
<1> QED
  BY <1>3, <1>4, <1>5

LEMMA Frame ==
  ASSUME NEW v \in Enclaves, EnclaveInv(v), SameHost(v), SameTask(v), engine' = engine,
         v \in relaunch' <=> v \in relaunch
  PROVE  Holds(v)
<1>1. HolderInv(v)' /\ TrackerInv(v)' /\ AddressInv(v)'
  BY HostFrame DEF EnclaveInv
<1>2. Behind(v) => Behind(v)'
  BY DEF Behind, SameHost, Has
<1>3. TaskInv(v)' /\ OutcomeInv(v)' /\ LostInv(v)'
  BY DEF EnclaveInv, SameHost, SameTask, TaskInv, OutcomeInv, LostInv
<1>4. Removable(v)' = Removable(v)
  BY DEF Removable, Has, SameHost
<1>5. StageInv(v)'
  BY <1>4 DEF EnclaveInv, SameHost, SameTask, StageInv
<1> QED
  BY <1>1, <1>3, <1>5, <1>2 DEF EnclaveInv, Holds

LEMMA DiesFrame ==
  ASSUME NEW v \in Enclaves, EnclaveInv(v), TaskT, SameHost(v), EngineDies("down")
  PROVE  Holds(v)
<1>1. Behind(v) => Behind(v)'
  BY DEF Behind, SameHost, Has
<1>2. HolderInv(v)' /\ TrackerInv(v)' /\ AddressInv(v)'
  BY HostFrame DEF EnclaveInv, EngineDies
<1>3. TaskInv(v)' /\ OutcomeInv(v)' /\ LostInv(v)'
  BY DEF EnclaveInv, SameHost, EngineDies, TaskInv, OutcomeInv, LostInv
<1>4. StageInv(v)'
  BY DEF EnclaveInv, SameHost, EngineDies, StageInv, Making
<1> QED
  BY <1>2, <1>3, <1>4, <1>1 DEF EnclaveInv, Holds
(* The effects of a step on one enclave: its task, its objects, who has    *)
(* come to its network or left it, and what the step is to the other       *)
(* enclaves.                                                               *)
Moves(u, t, w, o)    == task'[u] = t /\ at'[u] = w /\ outcome'[u] = o
Net(u, n, v)         == network'[u] = n /\ volume'[u] = v
Apic(u, s, ip)       == apic'[u] = s /\ apicIp'[u] = ip
Serves(u, s, ip)     == service'[u] = s /\ serviceIp'[u] = ip
Tracks(u, k)         == taken'[u] = k /\ moved'[u] = moved[u]
Leave(u, S)          == \A a \in Address : holder'[u][a] = IF holder[u][a] \in S THEN "free" ELSE holder[u][a]
Comes(u, w, a)       == \A b \in Address : holder'[u][b] = IF b = a THEN w ELSE holder[u][b]
Made(u)              == \A a \in Address : holder'[u][a] \in {"gateway", "free"}
Bare(u)              == \A a \in Address : holder'[u][a] = "free"
OthersMove(u)        == \A v \in Enclaves \ {u} : SameTask(v)
OthersHold(u)        == \A v \in Enclaves \ {u} : holder'[v] = holder[v]
OthersNet(u)         == \A v \in Enclaves \ {u} : network'[v] = network[v] /\ holder'[v] = holder[v]
OthersCont(u)        == \A v \in Enclaves \ {u} : /\ holder'[v] = holder[v] /\ Apic(v, apic[v], apicIp[v])
                                                 /\ Serves(v, service[v], serviceIp[v])
SameDoors(u)         == Has(u, "gateway")' = Has(u, "gateway") /\ Has(u, "proxy")' = Has(u, "proxy")
Engine(u)            == engine' = engine /\ (u \in relaunch' <=> u \in relaunch)
Alone(u)             == \A v \in Enclaves \ {u} : SameHost(v) /\ SameTask(v) /\ Engine(v)

LEMMA EndsEffect ==
  ASSUME TaskT, PickT, NEW u \in Enclaves, NEW o, Ends(u, o)
  PROVE  /\ Moves(u, "none", "idle", o)
         /\ OthersMove(u)
  BY DEF TaskT, PickT, Ends, Moves, OthersMove, SameTask

LEMMA StageFailsEffect ==
  ASSUME TaskT, PickT, NEW u \in Enclaves, StageFails(u)
  PROVE  /\ Moves(u, "none", "idle", IF task[u] = "create" THEN "left" ELSE outcome[u])
         /\ OthersMove(u)
  BY EndsEffect DEF StageFails

LEMMA RemovedEffect ==
  ASSUME HolderT, ContT, NEW u \in Enclaves, NEW S, RemoveContainers(u, S)
  PROVE  /\ Leave(u, S)
         /\ Apic(u, IF "apic" \in S THEN "none" ELSE apic[u], IF "apic" \in S THEN None ELSE apicIp[u])
         /\ Serves(u, IF "service" \in S THEN "none" ELSE service[u], IF "service" \in S THEN None ELSE serviceIp[u])
         /\ OthersCont(u)
<1>1. Leave(u, S) /\ \A v \in Enclaves \ {u} : holder'[v] = holder[v]
  BY DEF RemoveContainers, Leave, Without, HolderT
<1>2. /\ Apic(u, IF "apic" \in S THEN "none" ELSE apic[u], IF "apic" \in S THEN None ELSE apicIp[u])
      /\ \A v \in Enclaves \ {u} : Apic(v, apic[v], apicIp[v])
  BY DEF RemoveContainers, ContT, Apic
<1>3. /\ Serves(u, IF "service" \in S THEN "none" ELSE service[u], IF "service" \in S THEN None ELSE serviceIp[u])
      /\ \A v \in Enclaves \ {u} : Serves(v, service[v], serviceIp[v])
  BY DEF RemoveContainers, ContT, Serves
<1> QED
  BY <1>1, <1>2, <1>3 DEF OthersCont

LEMMA KilledEffect ==
  ASSUME HolderT, ContT, NEW u \in Enclaves, NEW S, KillContainers(u, S), UNCHANGED <<apicIp, serviceIp>>
  PROVE  /\ Leave(u, S)
         /\ Apic(u, IF "apic" \in S /\ apic[u] # "none" THEN "stopped" ELSE apic[u], apicIp[u])
         /\ Serves(u, IF "service" \in S /\ service[u] = "up" THEN "stopped" ELSE service[u], serviceIp[u])
         /\ OthersCont(u)
<1>1. Leave(u, S) /\ \A v \in Enclaves \ {u} : holder'[v] = holder[v]
  BY DEF KillContainers, Leave, Without, HolderT
<1>2. /\ Apic(u, IF "apic" \in S /\ apic[u] # "none" THEN "stopped" ELSE apic[u], apicIp[u])
      /\ \A v \in Enclaves \ {u} : Apic(v, apic[v], apicIp[v])
  BY DEF KillContainers, ContT, Apic
<1>3. /\ Serves(u, IF "service" \in S /\ service[u] = "up" THEN "stopped" ELSE service[u], serviceIp[u])
      /\ \A v \in Enclaves \ {u} : Serves(v, service[v], serviceIp[v])
  BY DEF KillContainers, ContT, Serves
<1> QED
  BY <1>1, <1>2, <1>3 DEF OthersCont

LEMMA NetworkRemovedEffect ==
  ASSUME HolderT, HostT, NEW u \in Enclaves, RemoveNetwork(u)
  PROVE  /\ network'[u] = None /\ Bare(u)
         /\ OthersNet(u)
  BY DEF RemoveNetwork, HolderT, HostT, Bare, OthersNet

LEMMA NetworkCreatedEffect ==
  ASSUME HolderT, HostT, NEW u \in Enclaves, NEW s, NEW g, CreateNetwork(u, s, g)
  PROVE  /\ network'[u] = s /\ Made(u)
         /\ OthersNet(u)
  BY DEF CreateNetwork, HolderT, HostT, Made, OthersNet

LEMMA WithEffect ==
  ASSUME HolderT, NEW u \in Enclaves, NEW w, NEW a \in Address,
         holder' = [holder EXCEPT ![u] = With(u, w, a)]
  PROVE  Comes(u, w, a) /\ OthersHold(u)
  BY DEF With, OthersHold, Comes, HolderT, Holders

LEMMA WithoutEffect ==
  ASSUME HolderT, NEW u \in Enclaves, NEW S, holder' = [holder EXCEPT ![u] = Without(u, S)]
  PROVE  Leave(u, S) /\ OthersHold(u)
  BY DEF Without, OthersHold, Leave, HolderT

LEMMA Doors == ASSUME NEW u \in Enclaves, SameDoors(u) PROVE First(u)' = First(u)
  BY DEF SameDoors, First, ApicAddresses

LEMMA LeaveDoors ==
  ASSUME NEW u \in Enclaves, NEW S, Leave(u, S), "gateway" \notin S, "proxy" \notin S, "free" \notin S
  PROVE  SameDoors(u)
  BY DEF Leave, SameDoors, Has

LEMMA ComesDoors ==
  ASSUME NEW u \in Enclaves, NEW w \in {"apic", "service"}, NEW a \in Address, holder[u][a] = "free", Comes(u, w, a)
  PROVE  SameDoors(u)
  BY DEF Comes, SameDoors, Has

LEMMA TaskMoves ==
  ASSUME NEW u \in Enclaves, EnclaveInv(u), SameHost(u), u \in relaunch' => u \in relaunch,
         TaskInv(u)', OutcomeInv(u)', StageInv(u)', LostInv(u)'
  PROVE  Holds(u)
<1>1. HolderInv(u)' /\ TrackerInv(u)' /\ AddressInv(u)'
  BY HostFrame DEF EnclaveInv
<1>2. Behind(u) => Behind(u)'
  BY DEF Behind, SameHost, Has
<1> QED
  BY <1>1, <1>2 DEF EnclaveInv, Holds

LEMMA AloneHolds ==
  ASSUME All, NEW u \in Enclaves, Alone(u) /\ Holds(u), NEW v \in Enclaves
  PROVE  Holds(v)
<1>1. CASE v = u
  BY <1>1
<1>2. CASE v # u
  BY <1>2, Frame DEF Alone, All, Engine
<1> QED
  BY <1>1, <1>2

-----------------------------------------------------------------------------
(* CreateEnclave, up to the launch, and its deferred functions.            *)
LEMMA BeginCreateKeeps ==
  ASSUME All, NEW u \in Enclaves, BeginCreate(u)
  PROVE  Alone(u) /\ Holds(u)
<1>1. /\ TaskT /\ PickT /\ HolderT /\ HostT /\ ContT /\ TakenT /\ EngineT /\ SeenT
      /\ EnclaveInv(u) /\ task[u] \in Tasks
  BY DEF All, Typed, TaskT
<1>2. /\ task[u] = "none" /\ engine = "up" /\ network[u] = None /\ ~volume[u]
      /\ apic[u] = "none" /\ service[u] = "none"
  BY DEF BeginCreate, Containers, Idle
<1>3. Alone(u)
  BY <1>1 DEF BeginCreate, Goes, hostVars, engineVars, cliVars, Containers, Idle, Engine, Alone,
     SameHost, SameTask, HolderT, HostT, ContT, PickT, TaskT, TakenT, EngineT
<1>4. /\ Moves(u, "create", "list", "new") /\ Net(u, network[u], volume[u])
      /\ Apic(u, apic[u], apicIp[u]) /\ Serves(u, service[u], serviceIp[u])
      /\ taken'[u] = taken[u] /\ holder'[u] = holder[u] /\ Engine(u)
  BY <1>1 DEF BeginCreate, Goes, hostVars, engineVars, cliVars, Containers, Idle, Moves, Net,
     Apic, Serves, Engine, Alone, SameHost, SameTask, HolderT, HostT, ContT, PickT, TaskT,
     TakenT, EngineT
<1>5. SameDoors(u)
  BY <1>4 DEF SameDoors, Has
<1>6. First(u)' = First(u)
  BY <1>5, Doors
<1>7. TaskInv(u)' /\ OutcomeInv(u)' /\ StageInv(u)' /\ LostInv(u)'
  BY <1>1, <1>2, <1>4 DEF EnclaveInv, Moves, Net, Apic, Serves, Engine, TaskInv, Making,
     Removing, Tasks, OutcomeInv, StageInv, LostInv, TrackerInv, Removable, Has
<1>8. HolderInv(u)'
  BY <1>1, <1>2, <1>4, <1>5, <1>6 DEF EnclaveInv, Moves, Net, Apic, Serves, Engine, HolderInv,
     TaskInv, StageInv, LostInv, Making, Has, Running, SameDoors
<1>9. TrackerInv(u)' /\ AddressInv(u)'
  BY <1>1, <1>2, <1>4, <1>5, <1>6 DEF EnclaveInv, Moves, Net, Apic, Serves, Engine, TrackerInv,
     TaskInv, StageInv, LostInv, HolderInv, Making, AddressInv, Running, Lives, SameDoors
<1>10. Behind(u) => Behind(u)'
  BY <1>1, <1>2, <1>4, <1>5 DEF EnclaveInv, Behind, Moves, Net, Apic, Serves, Engine, SameDoors,
     StageInv, Making
<1> QED
  BY <1>7, <1>8, <1>9, <1>10, <1>3 DEF EnclaveInv, Holds

LEMMA ListNetworksKeeps ==
  ASSUME All, NEW u \in Enclaves, ListNetworks(u)
  PROVE  Alone(u) /\ Holds(u)
<1>1. /\ TaskT /\ PickT /\ HolderT /\ HostT /\ ContT /\ TakenT /\ EngineT /\ SeenT
      /\ EnclaveInv(u) /\ task[u] \in Tasks
  BY DEF All, Typed, TaskT
<1>2. at[u] = "list"
  BY DEF ListNetworks
<1>3. UNCHANGED <<hostVars, engine, relaunch, cliVars, taken, moved>>
  BY DEF ListNetworks
<1>4. FreeSubnets # {} => Least(FreeSubnets) \in Subnet
  BY LeastIsIn DEF FreeSubnets
<1>5. \/ /\ Goes(u, "make") /\ UNCHANGED <<task, outcome>> /\ Least(FreeSubnets) \in Subnet
         /\ pick' = [pick EXCEPT ![u] = <<Least(FreeSubnets), gateways[Least(FreeSubnets)] + 1>>]
      \/ Ends(u, "failed")
  BY <1>4 DEF ListNetworks
<1>6. CASE /\ Goes(u, "make") /\ UNCHANGED <<task, outcome>> /\ Least(FreeSubnets) \in Subnet
           /\ pick' = [pick EXCEPT ![u] = <<Least(FreeSubnets), gateways[Least(FreeSubnets)] + 1>>]
  <2>1. Moves(u, task[u], "make", outcome[u]) /\ OthersMove(u) /\ pick'[u][1] # None
    BY <1>1, <1>6 DEF Goes, Moves, OthersMove, SameTask, TaskT, PickT
  <2>2. Alone(u)
    BY <1>1, <1>3, <1>6, <2>1 DEF Alone, SameHost, SameTask, OthersMove, Moves, Engine, Goes,
       hostVars, HolderT, HostT, ContT, PickT, TaskT, TakenT, EngineT
  <2>3. /\ Moves(u, task[u], "make", outcome[u]) /\ SameHost(u) /\ Engine(u)
        /\ pick'[u][1] # None
    BY <1>1, <1>3, <1>6, <2>1 DEF SameHost, Moves, Engine, Goes, hostVars, HolderT, HostT,
       ContT, PickT, TaskT, TakenT, EngineT
  <2>4. TaskInv(u)' /\ OutcomeInv(u)' /\ StageInv(u)' /\ LostInv(u)'
    BY <1>1, <1>2, <2>3 DEF EnclaveInv, SameHost, Moves, Engine, TaskInv, Making, Removing,
       Tasks, OutcomeInv, StageInv, LostInv, TrackerInv, Removable, Has
  <2> QED
    BY <1>1, <1>2, <2>3, <2>4, <2>2, TaskMoves DEF Engine
<1>7. CASE Ends(u, "failed")
  <2>1. Moves(u, "none", "idle", "failed") /\ OthersMove(u)
    BY <1>1, <1>7, EndsEffect
  <2>2. Alone(u)
    BY <1>1, <1>3, <1>7, <2>1 DEF Alone, SameHost, SameTask, OthersMove, Moves, Engine,
       hostVars, HolderT, HostT, ContT, PickT, TaskT, TakenT, EngineT
  <2>3. Moves(u, "none", "idle", "failed") /\ SameHost(u) /\ Engine(u)
    BY <1>1, <1>3, <1>7, <2>1 DEF SameHost, Moves, Engine, hostVars, HolderT, HostT, ContT,
       PickT, TaskT, TakenT, EngineT
  <2>4. TaskInv(u)' /\ OutcomeInv(u)' /\ StageInv(u)' /\ LostInv(u)'
    BY <1>1, <1>2, <2>3 DEF EnclaveInv, SameHost, Moves, Engine, TaskInv, Making, Removing,
       Tasks, OutcomeInv, StageInv, LostInv, TrackerInv, Removable, Has
  <2> QED
    BY <1>1, <1>2, <2>3, <2>4, <2>2, TaskMoves DEF Engine
<1> QED
  BY <1>5, <1>6, <1>7

LEMMA SubnetTakenKeeps ==
  ASSUME All, NEW u \in Enclaves, SubnetTaken(u)
  PROVE  Alone(u) /\ Holds(u)
<1>1. /\ TaskT /\ PickT /\ HolderT /\ HostT /\ ContT /\ TakenT /\ EngineT /\ SeenT
      /\ EnclaveInv(u) /\ task[u] \in Tasks
  BY DEF All, Typed, TaskT
<1>2. at[u] = "make"
  BY DEF SubnetTaken
<1>3. Alone(u)
  BY <1>1, EndsEffect DEF SubnetTaken, Goes, hostVars, engineVars, cliVars, Overlaps, Moves,
     Engine, Alone, SameHost, SameTask, OthersMove, HolderT, HostT, ContT, PickT, TaskT, TakenT,
     EngineT
<1>4. \/ Moves(u, task[u], "list", outcome[u]) /\ SameHost(u) /\ Engine(u)
      \/ Moves(u, "none", "idle", "failed") /\ SameHost(u) /\ Engine(u)
  BY <1>1, EndsEffect DEF SubnetTaken, Goes, hostVars, engineVars, cliVars, Overlaps, Moves,
     Engine, Alone, SameHost, SameTask, OthersMove, HolderT, HostT, ContT, PickT, TaskT, TakenT,
     EngineT
<1>5. CASE Moves(u, task[u], "list", outcome[u]) /\ SameHost(u) /\ Engine(u)
  <2>1. TaskInv(u)' /\ OutcomeInv(u)' /\ StageInv(u)' /\ LostInv(u)'
    BY <1>1, <1>2, <1>5 DEF EnclaveInv, SameHost, Moves, Engine, TaskInv, Making, Removing,
       Tasks, OutcomeInv, StageInv, LostInv, TrackerInv, Removable, Has
  <2> QED
    BY <1>1, <1>2, <1>5, <2>1, <1>3, TaskMoves DEF Engine
<1>6. CASE Moves(u, "none", "idle", "failed") /\ SameHost(u) /\ Engine(u)
  <2>1. TaskInv(u)' /\ OutcomeInv(u)' /\ StageInv(u)' /\ LostInv(u)'
    BY <1>1, <1>2, <1>6 DEF EnclaveInv, SameHost, Moves, Engine, TaskInv, Making, Removing,
       Tasks, OutcomeInv, StageInv, LostInv, TrackerInv, Removable, Has
  <2> QED
    BY <1>1, <1>2, <1>6, <2>1, <1>3, TaskMoves DEF Engine
<1> QED
  BY <1>4, <1>5, <1>6

LEMMA NetworkMadeKeeps ==
  ASSUME All, NEW u \in Enclaves, NetworkMade(u)
  PROVE  Alone(u) /\ Holds(u)
<1>1. /\ TaskT /\ PickT /\ HolderT /\ HostT /\ ContT /\ TakenT /\ EngineT /\ SeenT
      /\ EnclaveInv(u) /\ task[u] \in Tasks
  BY DEF All, Typed, TaskT
<1>2. at[u] = "make"
  BY DEF NetworkMade
<1>3. Alone(u)
  BY <1>1, NetworkCreatedEffect DEF NetworkMade, Goes, engineVars, cliVars, Overlaps, Engine,
     Made, Alone, SameHost, SameTask, OthersNet, HolderT, HostT, ContT, PickT, TaskT, TakenT,
     EngineT
<1>4. /\ Moves(u, task[u], "volume", outcome[u]) /\ Net(u, pick[u][1], volume[u])
      /\ Apic(u, apic[u], apicIp[u]) /\ Serves(u, service[u], serviceIp[u])
      /\ Tracks(u, taken[u]) /\ Made(u) /\ Engine(u)
  BY <1>1, NetworkCreatedEffect DEF NetworkMade, Goes, engineVars, cliVars, Overlaps, Moves,
     Net, Apic, Serves, Tracks, Engine, Made, Alone, SameHost, SameTask, OthersNet, HolderT,
     HostT, ContT, PickT, TaskT, TakenT, EngineT
<1>5. TaskInv(u)' /\ OutcomeInv(u)' /\ StageInv(u)' /\ LostInv(u)'
  BY <1>1, <1>2, <1>4 DEF EnclaveInv, Moves, Net, Apic, Serves, Tracks, Engine, Made, TaskInv,
     Making, Removing, Tasks, OutcomeInv, StageInv, LostInv, TrackerInv, Removable, Has
<1>6. HolderInv(u)'
  BY <1>1, <1>2, <1>4 DEF EnclaveInv, Moves, Net, Apic, Serves, Tracks, Engine, Made, HolderInv,
     TaskInv, StageInv, LostInv, Making, Has, Running
<1>7. TrackerInv(u)' /\ AddressInv(u)'
  BY <1>1, <1>2, <1>4 DEF EnclaveInv, Moves, Net, Apic, Serves, Tracks, Engine, Made,
     TrackerInv, TaskInv, StageInv, LostInv, HolderInv, Making, AddressInv, Running, Lives, Has
<1>8. Behind(u) => Behind(u)'
  BY <1>1, <1>2, <1>4 DEF EnclaveInv, Behind, Moves, Net, Apic, Serves, Tracks, Engine, Made,
     Has, StageInv, Making
<1> QED
  BY <1>5, <1>6, <1>7, <1>8, <1>3 DEF EnclaveInv, Holds

LEMMA NetworkFailsKeeps ==
  ASSUME All, NEW u \in Enclaves, NetworkFails(u)
  PROVE  Alone(u) /\ Holds(u)
<1>1. /\ TaskT /\ PickT /\ HolderT /\ HostT /\ ContT /\ TakenT /\ EngineT /\ SeenT
      /\ EnclaveInv(u) /\ task[u] \in Tasks
  BY DEF All, Typed, TaskT
<1>2. at[u] = "make"
  BY DEF NetworkFails
<1>3. UNCHANGED <<engineVars, cliVars, taken, moved, lingering, volume, apic, apicIp,
                  service, serviceIp, proxy>>
  BY DEF NetworkFails
<1>4. \/ Ends(u, "failed") /\ UNCHANGED <<network, holder>>
      \/ CreateNetwork(u, pick[u][1], pick[u][2]) /\ Ends(u, "left")
  BY DEF NetworkFails
<1>5. CASE Ends(u, "failed") /\ UNCHANGED <<network, holder>>
  <2>1. Moves(u, "none", "idle", "failed") /\ OthersMove(u)
    BY <1>1, <1>5, EndsEffect
  <2>2. Alone(u)
    BY <1>1, <1>3, <1>5, <2>1 DEF Alone, SameHost, SameTask, OthersMove, Moves, Engine,
       engineVars, HolderT, HostT, ContT, PickT, TaskT, TakenT, EngineT
  <2>3. Moves(u, "none", "idle", "failed") /\ SameHost(u) /\ Engine(u)
    BY <1>1, <1>3, <1>5, <2>1 DEF SameHost, Moves, Engine, engineVars, HolderT, HostT, ContT,
       PickT, TaskT, TakenT, EngineT
  <2>4. TaskInv(u)' /\ OutcomeInv(u)' /\ StageInv(u)' /\ LostInv(u)'
    BY <1>1, <1>2, <2>3 DEF EnclaveInv, SameHost, Moves, Engine, TaskInv, Making, Removing,
       Tasks, OutcomeInv, StageInv, LostInv, TrackerInv, Removable, Has
  <2> QED
    BY <1>1, <1>2, <2>3, <2>4, <2>2, TaskMoves DEF Engine
<1>6. CASE CreateNetwork(u, pick[u][1], pick[u][2]) /\ Ends(u, "left")
  <2>1. Moves(u, "none", "idle", "left") /\ OthersMove(u)
    BY <1>1, <1>6, EndsEffect
  <2>2. network'[u] = pick[u][1] /\ Made(u) /\ OthersNet(u)
    BY <1>1, <1>6, NetworkCreatedEffect
  <2>3. Alone(u)
    BY <1>1, <1>3, <1>6, <2>1, <2>2 DEF Alone, SameHost, SameTask, OthersMove, OthersNet, Moves,
       Engine, Made, engineVars, HolderT, HostT, ContT, PickT, TaskT, TakenT, EngineT
  <2>4. /\ Moves(u, "none", "idle", "left") /\ Net(u, pick[u][1], volume[u])
        /\ Apic(u, apic[u], apicIp[u]) /\ Serves(u, service[u], serviceIp[u])
        /\ Tracks(u, taken[u]) /\ Made(u) /\ Engine(u)
    BY <1>1, <1>3, <1>6, <2>1, <2>2 DEF Moves, Net, Apic, Serves, Tracks, Engine, Made,
       engineVars, HolderT, HostT, ContT, PickT, TaskT, TakenT, EngineT
  <2>5. TaskInv(u)' /\ OutcomeInv(u)' /\ StageInv(u)' /\ LostInv(u)'
    BY <1>1, <1>2, <2>4 DEF EnclaveInv, Moves, Net, Apic, Serves, Tracks, Engine, Made, TaskInv,
       Making, Removing, Tasks, OutcomeInv, StageInv, LostInv, TrackerInv, Removable, Has
  <2>6. HolderInv(u)'
    BY <1>1, <1>2, <2>4 DEF EnclaveInv, Moves, Net, Apic, Serves, Tracks, Engine, Made,
       HolderInv, TaskInv, StageInv, LostInv, Making, Has, Running
  <2>7. TrackerInv(u)' /\ AddressInv(u)'
    BY <1>1, <1>2, <2>4 DEF EnclaveInv, Moves, Net, Apic, Serves, Tracks, Engine, Made,
       TrackerInv, TaskInv, StageInv, LostInv, HolderInv, Making, AddressInv, Running, Lives,
       Has
  <2>8. Behind(u) => Behind(u)'
    BY <1>1, <1>2, <2>4 DEF EnclaveInv, Behind, Moves, Net, Apic, Serves, Tracks, Engine, Made,
       Has, StageInv, Making
  <2> QED
    BY <2>5, <2>6, <2>7, <2>8, <2>3 DEF EnclaveInv, Holds
<1> QED
  BY <1>4, <1>5, <1>6

LEMMA CreateVolumeKeeps ==
  ASSUME All, NEW u \in Enclaves, CreateVolume(u)
  PROVE  Alone(u) /\ Holds(u)
<1>1. /\ TaskT /\ PickT /\ HolderT /\ HostT /\ ContT /\ TakenT /\ EngineT /\ SeenT
      /\ EnclaveInv(u) /\ task[u] \in Tasks
  BY DEF All, Typed, TaskT
<1>2. at[u] = "volume"
  BY DEF CreateVolume
<1>3. Alone(u)
  BY <1>1 DEF CreateVolume, Goes, Fails, Fault, engineVars, cliVars, Engine, Alone, SameHost,
     SameTask, HolderT, HostT, ContT, PickT, TaskT, TakenT, EngineT
<1>4. \/ /\ Moves(u, task[u], "plug", outcome[u]) /\ Net(u, network[u], TRUE)
         /\ Apic(u, apic[u], apicIp[u]) /\ Serves(u, service[u], serviceIp[u])
         /\ Tracks(u, taken[u]) /\ holder'[u] = holder[u] /\ Engine(u)
      \/ Moves(u, task[u], "dropNetwork", outcome[u]) /\ SameHost(u) /\ Engine(u)
  BY <1>1 DEF CreateVolume, Goes, Fails, Fault, engineVars, cliVars, Moves, Net, Apic, Serves,
     Tracks, Engine, Alone, SameHost, SameTask, HolderT, HostT, ContT, PickT, TaskT, TakenT,
     EngineT
<1>5. CASE /\ Moves(u, task[u], "plug", outcome[u]) /\ Net(u, network[u], TRUE)
           /\ Apic(u, apic[u], apicIp[u]) /\ Serves(u, service[u], serviceIp[u])
           /\ Tracks(u, taken[u]) /\ holder'[u] = holder[u] /\ Engine(u)
  <2>1. SameDoors(u)
    BY <1>5 DEF SameDoors, Has
  <2>2. First(u)' = First(u)
    BY <2>1, Doors
  <2>3. TaskInv(u)' /\ OutcomeInv(u)' /\ StageInv(u)' /\ LostInv(u)'
    BY <1>1, <1>2, <1>5 DEF EnclaveInv, Moves, Net, Apic, Serves, Tracks, Engine, TaskInv,
       Making, Removing, Tasks, OutcomeInv, StageInv, LostInv, TrackerInv, Removable, Has
  <2>4. HolderInv(u)'
    BY <1>1, <1>2, <1>5, <2>1, <2>2 DEF EnclaveInv, Moves, Net, Apic, Serves, Tracks, Engine,
       HolderInv, TaskInv, StageInv, LostInv, Making, Has, Running, SameDoors
  <2>5. TrackerInv(u)' /\ AddressInv(u)'
    BY <1>1, <1>2, <1>5, <2>1, <2>2 DEF EnclaveInv, Moves, Net, Apic, Serves, Tracks, Engine,
       TrackerInv, TaskInv, StageInv, LostInv, HolderInv, Making, AddressInv, Running, Lives,
       SameDoors
  <2>6. Behind(u) => Behind(u)'
    BY <1>1, <1>2, <1>5, <2>1 DEF EnclaveInv, Behind, Moves, Net, Apic, Serves, Tracks, Engine,
       SameDoors, StageInv, Making
  <2> QED
    BY <2>3, <2>4, <2>5, <2>6, <1>3 DEF EnclaveInv, Holds
<1>6. CASE Moves(u, task[u], "dropNetwork", outcome[u]) /\ SameHost(u) /\ Engine(u)
  <2>1. TaskInv(u)' /\ OutcomeInv(u)' /\ StageInv(u)' /\ LostInv(u)'
    BY <1>1, <1>2, <1>6 DEF EnclaveInv, SameHost, Moves, Engine, TaskInv, Making, Removing,
       Tasks, OutcomeInv, StageInv, LostInv, TrackerInv, Removable, Has
  <2> QED
    BY <1>1, <1>2, <1>6, <2>1, <1>3, TaskMoves DEF Engine
<1> QED
  BY <1>4, <1>5, <1>6

LEMMA PlugProxyKeeps ==
  ASSUME All, NEW u \in Enclaves, PlugProxy(u)
  PROVE  Alone(u) /\ Holds(u)
<1>1. /\ TaskT /\ PickT /\ HolderT /\ HostT /\ ContT /\ TakenT /\ EngineT /\ SeenT
      /\ EnclaveInv(u) /\ task[u] \in Tasks
  BY DEF All, Typed, TaskT
<1>2. at[u] = "plug"
  BY DEF PlugProxy
<1>3. Alone(u)
  BY <1>1, WithEffect DEF PlugProxy, Connect, Goes, Fails, Fault, engineVars, cliVars, Has,
     Connectable, Engine, Alone, SameHost, SameTask, OthersHold, HolderT, HostT, ContT, PickT,
     TaskT, TakenT, EngineT
<1>4. \/ /\ Moves(u, task[u], "launch", outcome[u]) /\ Net(u, network[u], volume[u])
         /\ Apic(u, apic[u], apicIp[u]) /\ Serves(u, service[u], serviceIp[u])
         /\ Tracks(u, taken[u])
         /\ \E a \in Has(u, "free") : Comes(u, "proxy", a)
         /\ Engine(u)
      \/ Moves(u, task[u], "launch", outcome[u]) /\ SameHost(u) /\ Engine(u)
      \/ Moves(u, task[u], "dropVolume", outcome[u]) /\ SameHost(u) /\ Engine(u)
  BY <1>1, WithEffect DEF PlugProxy, Connect, Goes, Fails, Fault, engineVars, cliVars, Has,
     Connectable, Moves, Net, Apic, Serves, Tracks, Engine, Alone, SameHost, SameTask,
     OthersHold, HolderT, HostT, ContT, PickT, TaskT, TakenT, EngineT
<1>5. CASE /\ Moves(u, task[u], "launch", outcome[u]) /\ Net(u, network[u], volume[u])
           /\ Apic(u, apic[u], apicIp[u]) /\ Serves(u, service[u], serviceIp[u])
           /\ Tracks(u, taken[u])
           /\ \E a \in Has(u, "free") : Comes(u, "proxy", a)
           /\ Engine(u)
  <2>1. TaskInv(u)' /\ OutcomeInv(u)' /\ StageInv(u)' /\ LostInv(u)'
    BY <1>1, <1>2, <1>5 DEF EnclaveInv, Moves, Net, Apic, Serves, Tracks, Comes, Engine,
       TaskInv, Making, Removing, Tasks, OutcomeInv, StageInv, LostInv, TrackerInv, Removable,
       Has
  <2>2. HolderInv(u)'
    BY <1>1, <1>2, <1>5 DEF EnclaveInv, Moves, Net, Apic, Serves, Tracks, Comes, Engine,
       HolderInv, TaskInv, StageInv, LostInv, Making, Has, Running
  <2>3. TrackerInv(u)' /\ AddressInv(u)'
    BY <1>1, <1>2, <1>5 DEF EnclaveInv, Moves, Net, Apic, Serves, Tracks, Comes, Engine,
       TrackerInv, TaskInv, StageInv, LostInv, HolderInv, Making, AddressInv, Running, Lives,
       Has
  <2>4. Behind(u) => Behind(u)'
    BY <1>1, <1>2, <1>5 DEF EnclaveInv, Behind, Moves, Net, Apic, Serves, Tracks, Comes, Engine,
       Has, StageInv, Making
  <2> QED
    BY <2>1, <2>2, <2>3, <2>4, <1>3 DEF EnclaveInv, Holds
<1>6. CASE Moves(u, task[u], "dropVolume", outcome[u]) /\ SameHost(u) /\ Engine(u)
  <2>1. TaskInv(u)' /\ OutcomeInv(u)' /\ StageInv(u)' /\ LostInv(u)'
    BY <1>1, <1>2, <1>6 DEF EnclaveInv, SameHost, Moves, Engine, TaskInv, Making, Removing,
       Tasks, OutcomeInv, StageInv, LostInv, TrackerInv, Removable, Has
  <2> QED
    BY <1>1, <1>2, <1>6, <2>1, <1>3, TaskMoves DEF Engine
<1>7. CASE Moves(u, task[u], "launch", outcome[u]) /\ SameHost(u) /\ Engine(u)
  <2>1. TaskInv(u)' /\ OutcomeInv(u)' /\ StageInv(u)' /\ LostInv(u)'
    BY <1>1, <1>2, <1>7 DEF EnclaveInv, SameHost, Moves, Engine, TaskInv, Making, Removing,
       Tasks, OutcomeInv, StageInv, LostInv, TrackerInv, Removable, Has
  <2> QED
    BY <1>1, <1>2, <1>7, <2>1, <1>3, TaskMoves DEF Engine
<1> QED
  BY <1>4, <1>5, <1>6, <1>7

LEMMA UndoVolumeKeeps ==
  ASSUME All, NEW u \in Enclaves, UndoVolume(u)
  PROVE  Alone(u) /\ Holds(u)
<1>1. /\ TaskT /\ PickT /\ HolderT /\ HostT /\ ContT /\ TakenT /\ EngineT /\ SeenT
      /\ EnclaveInv(u) /\ task[u] \in Tasks
  BY DEF All, Typed, TaskT
<1>2. at[u] = "dropVolume"
  BY DEF UndoVolume
<1>3. Alone(u)
  BY <1>1 DEF UndoVolume, Goes, Fails, Fault, engineVars, cliVars, Engine, Alone, SameHost,
     SameTask, HolderT, HostT, ContT, PickT, TaskT, TakenT, EngineT
<1>4. \/ /\ Moves(u, task[u], "dropNetwork", outcome[u]) /\ Net(u, network[u], FALSE)
         /\ Apic(u, apic[u], apicIp[u]) /\ Serves(u, service[u], serviceIp[u])
         /\ Tracks(u, taken[u]) /\ holder'[u] = holder[u] /\ Engine(u)
      \/ Moves(u, task[u], "dropNetwork", "left") /\ SameHost(u) /\ Engine(u)
  BY <1>1 DEF UndoVolume, Goes, Fails, Fault, engineVars, cliVars, Moves, Net, Apic, Serves,
     Tracks, Engine, Alone, SameHost, SameTask, HolderT, HostT, ContT, PickT, TaskT, TakenT,
     EngineT
<1>5. CASE /\ Moves(u, task[u], "dropNetwork", outcome[u]) /\ Net(u, network[u], FALSE)
           /\ Apic(u, apic[u], apicIp[u]) /\ Serves(u, service[u], serviceIp[u])
           /\ Tracks(u, taken[u]) /\ holder'[u] = holder[u] /\ Engine(u)
  <2>1. SameDoors(u)
    BY <1>5 DEF SameDoors, Has
  <2>2. First(u)' = First(u)
    BY <2>1, Doors
  <2>3. TaskInv(u)' /\ OutcomeInv(u)' /\ StageInv(u)' /\ LostInv(u)'
    BY <1>1, <1>2, <1>5 DEF EnclaveInv, Moves, Net, Apic, Serves, Tracks, Engine, TaskInv,
       Making, Removing, Tasks, OutcomeInv, StageInv, LostInv, TrackerInv, Removable, Has
  <2>4. HolderInv(u)'
    BY <1>1, <1>2, <1>5, <2>1, <2>2 DEF EnclaveInv, Moves, Net, Apic, Serves, Tracks, Engine,
       HolderInv, TaskInv, StageInv, LostInv, Making, Has, Running, SameDoors
  <2>5. TrackerInv(u)' /\ AddressInv(u)'
    BY <1>1, <1>2, <1>5, <2>1, <2>2 DEF EnclaveInv, Moves, Net, Apic, Serves, Tracks, Engine,
       TrackerInv, TaskInv, StageInv, LostInv, HolderInv, Making, AddressInv, Running, Lives,
       SameDoors
  <2>6. Behind(u) => Behind(u)'
    BY <1>1, <1>2, <1>5, <2>1 DEF EnclaveInv, Behind, Moves, Net, Apic, Serves, Tracks, Engine,
       SameDoors, StageInv, Making
  <2> QED
    BY <2>3, <2>4, <2>5, <2>6, <1>3 DEF EnclaveInv, Holds
<1>6. CASE Moves(u, task[u], "dropNetwork", "left") /\ SameHost(u) /\ Engine(u)
  <2>1. TaskInv(u)' /\ OutcomeInv(u)' /\ StageInv(u)' /\ LostInv(u)'
    BY <1>1, <1>2, <1>6 DEF EnclaveInv, SameHost, Moves, Engine, TaskInv, Making, Removing,
       Tasks, OutcomeInv, StageInv, LostInv, TrackerInv, Removable, Has
  <2> QED
    BY <1>1, <1>2, <1>6, <2>1, <1>3, TaskMoves DEF Engine
<1> QED
  BY <1>4, <1>5, <1>6

LEMMA UndoNetworkKeeps ==
  ASSUME All, NEW u \in Enclaves, UndoNetwork(u)
  PROVE  Alone(u) /\ Holds(u)
<1>1. /\ TaskT /\ PickT /\ HolderT /\ HostT /\ ContT /\ TakenT /\ EngineT /\ SeenT
      /\ EnclaveInv(u) /\ task[u] \in Tasks
  BY DEF All, Typed, TaskT
<1>2. at[u] = "dropNetwork"
  BY DEF UndoNetwork
<1>3. UNCHANGED <<engineVars, cliVars, taken, moved, volume, apic, apicIp, service,
                  serviceIp, proxy>>
  BY DEF UndoNetwork
<1>4. \/ RemoveNetwork(u) /\ Ends(u, IF outcome[u] = "left" THEN "manual" ELSE "failed")
      \/ Ends(u, "left") /\ UNCHANGED <<network, holder, lingering>>
  BY DEF UndoNetwork
<1>5. CASE RemoveNetwork(u) /\ Ends(u, IF outcome[u] = "left" THEN "manual" ELSE "failed")
  <2>1. /\ Moves(u, "none", "idle", IF outcome[u] = "left" THEN "manual" ELSE "failed")
        /\ OthersMove(u)
    BY <1>1, <1>5, EndsEffect
  <2>2. network'[u] = None /\ Bare(u) /\ OthersNet(u)
    BY <1>1, <1>5, NetworkRemovedEffect
  <2>3. Alone(u)
    BY <1>1, <1>3, <1>5, <2>1, <2>2 DEF Alone, SameHost, SameTask, OthersMove, OthersNet, Moves,
       Engine, Bare, engineVars, HolderT, HostT, ContT, PickT, TaskT, TakenT, EngineT
  <2>4. /\ Moves(u, "none", "idle", IF outcome[u] = "left" THEN "manual" ELSE "failed")
        /\ Net(u, None, volume[u]) /\ Apic(u, apic[u], apicIp[u])
        /\ Serves(u, service[u], serviceIp[u]) /\ Tracks(u, taken[u]) /\ Bare(u) /\ Engine(u)
    BY <1>1, <1>3, <1>5, <2>1, <2>2 DEF Moves, Net, Apic, Serves, Tracks, Engine, Bare,
       engineVars, HolderT, HostT, ContT, PickT, TaskT, TakenT, EngineT
  <2>5. TaskInv(u)' /\ OutcomeInv(u)' /\ StageInv(u)' /\ LostInv(u)'
    BY <1>1, <1>2, <2>4 DEF EnclaveInv, Moves, Net, Apic, Serves, Tracks, Engine, Bare, TaskInv,
       Making, Removing, Tasks, OutcomeInv, StageInv, LostInv, TrackerInv, Removable, Has
  <2>6. HolderInv(u)'
    BY <1>1, <1>2, <2>4 DEF EnclaveInv, Moves, Net, Apic, Serves, Tracks, Engine, Bare,
       HolderInv, TaskInv, StageInv, LostInv, Making, Has, Running
  <2>7. TrackerInv(u)' /\ AddressInv(u)'
    BY <1>1, <1>2, <2>4 DEF EnclaveInv, Moves, Net, Apic, Serves, Tracks, Engine, Bare,
       TrackerInv, TaskInv, StageInv, LostInv, HolderInv, Making, AddressInv, Running, Lives,
       Has
  <2>8. Behind(u) => Behind(u)'
    BY <1>1, <1>2, <2>4 DEF EnclaveInv, Behind, Moves, Net, Apic, Serves, Tracks, Engine, Bare,
       Has, StageInv, Making
  <2> QED
    BY <2>5, <2>6, <2>7, <2>8, <2>3 DEF EnclaveInv, Holds
<1>6. CASE Ends(u, "left") /\ UNCHANGED <<network, holder, lingering>>
  <2>1. Moves(u, "none", "idle", "left") /\ OthersMove(u)
    BY <1>1, <1>6, EndsEffect
  <2>2. Alone(u)
    BY <1>1, <1>3, <1>6, <2>1 DEF Alone, SameHost, SameTask, OthersMove, Moves, Engine,
       engineVars, HolderT, HostT, ContT, PickT, TaskT, TakenT, EngineT
  <2>3. Moves(u, "none", "idle", "left") /\ SameHost(u) /\ Engine(u)
    BY <1>1, <1>3, <1>6, <2>1 DEF SameHost, Moves, Engine, engineVars, HolderT, HostT, ContT,
       PickT, TaskT, TakenT, EngineT
  <2>4. TaskInv(u)' /\ OutcomeInv(u)' /\ StageInv(u)' /\ LostInv(u)'
    BY <1>1, <1>2, <2>3 DEF EnclaveInv, SameHost, Moves, Engine, TaskInv, Making, Removing,
       Tasks, OutcomeInv, StageInv, LostInv, TrackerInv, Removable, Has
  <2> QED
    BY <1>1, <1>2, <2>3, <2>4, <2>2, TaskMoves DEF Engine
<1> QED
  BY <1>4, <1>5, <1>6

-----------------------------------------------------------------------------
(* The launch of the API container, for a new enclave or again: it fails   *)
(* into a destruction or into the end of the engine.                       *)
LEMMA LaunchFailsEffect ==
  ASSUME All, NEW u \in Enclaves, LaunchFails(u), at[u] \in {"launch", "await"}
  PROVE  \/ Moves(u, "create", "gather", outcome[u]) /\ OthersMove(u) /\ engine' = engine /\ relaunch' = relaunch
            /\ task[u] = "create"
         \/ EngineDies("down")
<1>1. TaskT
  BY DEF All, Typed
<1> QED
  BY <1>1 DEF LaunchFails, Goes, Moves, OthersMove, SameTask, engineVars, TaskT

LEMMA LaunchApicKeeps ==
  ASSUME All, NEW u \in Enclaves, LaunchApic(u), NEW v \in Enclaves
  PROVE  Holds(v)
<1>1. TaskT /\ PickT /\ HolderT /\ HostT /\ ContT /\ TakenT /\ EngineT
  BY DEF All, Typed
<1>2. /\ UNCHANGED <<network, lingering, volume, service, serviceIp, proxy, cliVars, taken, moved>>
      /\ at[u] = "launch"
  BY DEF LaunchApic
<1>3. EnclaveInv(u) /\ task[u] \in {"create", "relaunch"}
  <2>1. task[u] \in Tasks
    BY <1>1 DEF TaskT
  <2>2. EnclaveInv(u) /\ TaskInv(u)
    BY DEF All, EnclaveInv
  <2> QED
    BY <1>2, <2>1, <2>2 DEF TaskInv, Tasks, Removing
<1> DEFINE a == First(u)
<1>4. ASSUME Launchable(u)
      PROVE  a \in Address /\ a \notin Has(u, "gateway") /\ a \notin Has(u, "proxy")
  BY <1>4, LeastIsIn DEF Launchable, First, ApicAddresses
<1>5. ASSUME LaunchFails(u), UNCHANGED <<apic, apicIp, holder>> PROVE Holds(v)
  <2>1. SameHost(v)
    BY <1>2, <1>5 DEF SameHost
  <2>2. CASE EngineDies("down")
    BY <1>1, <2>1, <2>2, DiesFrame DEF All
  <2>3. CASE /\ Moves(u, "create", "gather", outcome[u]) /\ OthersMove(u)
             /\ engine' = engine /\ relaunch' = relaunch /\ task[u] = "create"
    <3>1. CASE v # u
      BY <2>1, <2>3, <3>1, Frame DEF All, OthersMove
    <3>2. CASE v = u
      <4>1. HolderInv(u)' /\ TrackerInv(u)' /\ AddressInv(u)'
        BY <1>3, <2>1, <2>3, <3>2, HostFrame DEF EnclaveInv
      <4>2. TaskInv(u)' /\ OutcomeInv(u)' /\ StageInv(u)' /\ LostInv(u)'
        BY <1>2, <1>3, <2>1, <2>3, <3>2
        DEF EnclaveInv, SameHost, Moves, TaskInv, OutcomeInv, StageInv, LostInv, Making, Removing
      <4>3. Behind(u) => Behind(u)'
        BY <2>1, <3>2 DEF Behind, SameHost, Has
      <4> QED
        BY <3>2, <4>1, <4>2, <4>3 DEF EnclaveInv, Holds
    <3> QED
      BY <3>1, <3>2
  <2> QED
    BY <1>2, <1>5, <2>2, <2>3, LaunchFailsEffect
<1>6. ASSUME Launchable(u), LaunchFails(u), apicIp' = [apicIp EXCEPT ![u] = a],
             apic' = [apic EXCEPT ![u] = "stopped"], UNCHANGED holder
      PROVE  Holds(v)
  <2>1. Apic(u, "stopped", a) /\ OthersCont(u)
    BY <1>1, <1>2, <1>6 DEF Apic, Serves, OthersCont, ContT
  <2>2. CASE v # u
    <3>1. SameHost(v)
      BY <1>2, <1>6, <2>1, <2>2 DEF SameHost, OthersCont, Apic, Serves
    <3>2. CASE EngineDies("down")
      BY <1>1, <3>1, <3>2, DiesFrame DEF All
    <3>3. CASE /\ Moves(u, "create", "gather", outcome[u]) /\ OthersMove(u)
               /\ engine' = engine /\ relaunch' = relaunch /\ task[u] = "create"
      BY <2>2, <3>1, <3>3, Frame DEF All, OthersMove
    <3> QED
      BY <1>2, <1>6, <3>2, <3>3, LaunchFailsEffect
  <2>3. CASE v = u
    <3>1. /\ network'[u] = network[u] /\ volume'[u] = volume[u] /\ Apic(u, "stopped", a) /\ apic[u] = "none"
          /\ Serves(u, service[u], serviceIp[u]) /\ Tracks(u, taken[u]) /\ holder'[u] = holder[u]
          /\ volume[u] /\ network[u] # None /\ Has(u, "proxy") # {}
      BY <1>2, <1>6, <2>1 DEF Serves, Tracks, Launchable
    <3>2. /\ SameDoors(u) /\ Has(u, "apic")' = Has(u, "apic")
          /\ Has(u, "service")' = Has(u, "service")
      BY <3>1 DEF SameDoors, Has
    <3>3. First(u)' = a
      BY <3>2, Doors
    <3>4. /\ (task'[u] = "create" /\ at'[u] = "gather") \/ (task'[u] = "none" /\ at'[u] = "idle")
          /\ outcome'[u] \in {outcome[u], "left"}
          /\ task'[u] = "create" => outcome'[u] = outcome[u] /\ engine' = engine /\ relaunch' = relaunch /\ task[u] = "create"
          /\ task'[u] = "none" => relaunch' = {}
          /\ u \in relaunch' => u \in relaunch
      <4>1. CASE EngineDies("down")
        BY <4>1 DEF EngineDies
      <4>2. CASE /\ Moves(u, "create", "gather", outcome[u]) /\ OthersMove(u)
                 /\ engine' = engine /\ relaunch' = relaunch /\ task[u] = "create"
        BY <4>2 DEF Moves
      <4> QED
        BY <1>2, <1>6, <4>1, <4>2, LaunchFailsEffect
    <3>5. TaskInv(u)' /\ OutcomeInv(u)' /\ StageInv(u)' /\ LostInv(u)'
      BY <1>2, <1>3, <3>1, <3>4
      DEF EnclaveInv, Apic, Serves, Tracks, TaskInv, OutcomeInv, StageInv, LostInv, Making,
           Removing
    <3>6. HolderInv(u)' /\ TrackerInv(u)'
      BY <1>3, <1>4, <1>6, <3>1, <3>2
      DEF EnclaveInv, Apic, Serves, Tracks, HolderInv, TrackerInv, Running, SameDoors
    <3>7. AddressInv(u)'
      BY <1>2, <1>3, <1>4, <1>6, <3>1, <3>2, <3>3, <3>4
      DEF EnclaveInv, Apic, Serves, Tracks, HolderInv, TrackerInv, AddressInv, StageInv,
           TaskInv, SameDoors, Lives
    <3> QED
      BY <2>3, <3>1, <3>2, <3>5, <3>6, <3>7 DEF EnclaveInv, Holds, Behind, SameDoors
  <2> QED
    BY <2>2, <2>3
<1>7. ASSUME Launchable(u), apicIp' = [apicIp EXCEPT ![u] = a], holder[u][a] = "free",
             holder' = [holder EXCEPT ![u] = With(u, "apic", a)], apic' = [apic EXCEPT ![u] = "boot"],
             Goes(u, "await"), UNCHANGED <<task, pick, tries, seen, outcome, engineVars, faults>>
      PROVE  Holds(v)
  <2>1. Comes(u, "apic", a) /\ OthersHold(u)
    BY <1>1, <1>4, <1>7, WithEffect
  <2>2. Apic(u, "boot", a) /\ \A w \in Enclaves \ {u} : Apic(w, apic[w], apicIp[w])
    BY <1>1, <1>7 DEF Apic, ContT
  <2>3. Moves(u, task[u], "await", outcome[u]) /\ OthersMove(u)
    BY <1>1, <1>7 DEF Goes, Moves, OthersMove, SameTask, TaskT
  <2>4. Engine(u) /\ Engine(v)
    BY <1>7 DEF engineVars, Engine
  <2>5. CASE v # u
    <3>1. SameHost(v) /\ SameTask(v)
      BY <1>2, <2>1, <2>2, <2>3, <2>5 DEF SameHost, OthersHold, OthersMove, Apic
    <3> QED
      BY <2>4, <3>1, Frame DEF All, Engine
  <2>6. CASE v = u
    <3>1. /\ network'[u] = network[u] /\ volume'[u] = volume[u] /\ Apic(u, "boot", a) /\ apic[u] = "none"
          /\ Serves(u, service[u], serviceIp[u]) /\ Tracks(u, taken[u])
          /\ volume[u] /\ network[u] # None /\ Has(u, "proxy") # {}
      BY <1>2, <1>7, <2>2 DEF Serves, Tracks, Launchable
    <3>2. SameDoors(u)
      BY <1>4, <1>7, <2>1, ComesDoors
    <3>3. First(u)' = a
      BY <3>2, Doors
    <3>4. TaskInv(u)' /\ OutcomeInv(u)' /\ StageInv(u)' /\ LostInv(u)'
      BY <1>2, <1>3, <2>3, <2>4, <3>1
      DEF EnclaveInv, Apic, Serves, Tracks, Moves, Engine, TaskInv, OutcomeInv, StageInv,
           LostInv, Making, Removing
    <3>5. HolderInv(u)'
      BY <1>3, <1>4, <1>7, <2>1, <3>1, <3>2
      DEF EnclaveInv, Apic, Serves, Comes, Has, HolderInv, Running, SameDoors
    <3>6. TrackerInv(u)'
      BY <1>3, <3>1, <3>2 DEF EnclaveInv, Apic, Serves, Tracks, TrackerInv, SameDoors
    <3>7. AddressInv(u)'
      BY <1>2, <1>3, <1>4, <1>7, <2>3, <2>4, <3>1, <3>2, <3>3
      DEF EnclaveInv, Apic, Serves, Tracks, HolderInv, TrackerInv, AddressInv, StageInv,
           TaskInv, SameDoors, Lives, Engine
    <3> QED
      BY <2>6, <3>1, <3>2, <3>4, <3>5, <3>7, <3>6 DEF EnclaveInv, Holds, Behind, SameDoors
  <2> QED
    BY <2>5, <2>6
<1> HIDE DEF a
<1>8. First(u) = a /\ a = Least(ApicAddresses(u))
  BY DEF a, First
<1> QED
  BY <1>5, <1>6, <1>7, <1>8 DEF LaunchApic

LEMMA ApicAnswersKeeps ==
  ASSUME All, NEW u \in Enclaves, ApicAnswers(u)
  PROVE  Alone(u) /\ Holds(u)
<1>1. /\ TaskT /\ PickT /\ HolderT /\ HostT /\ ContT /\ TakenT /\ EngineT /\ SeenT
      /\ EnclaveInv(u) /\ task[u] \in Tasks
  BY DEF All, Typed, TaskT
<1>2. at[u] = "await" /\ apic[u] = "up"
  BY DEF ApicAnswers
<1>3. Alone(u)
  BY <1>1, EndsEffect DEF ApicAnswers, hostVars, cliVars, Moves, Engine, Alone, SameHost,
     SameTask, OthersMove, HolderT, HostT, ContT, PickT, TaskT, TakenT, EngineT
<1>4. /\ Moves(u, "none", "idle", IF task[u] = "create" THEN "running" ELSE outcome[u])
      /\ SameHost(u) /\ engine' = engine /\ u \notin relaunch'
  BY <1>1, EndsEffect DEF ApicAnswers, hostVars, cliVars, Moves, Engine, Alone, SameHost,
     SameTask, OthersMove, HolderT, HostT, ContT, PickT, TaskT, TakenT, EngineT
<1>5. TaskInv(u)' /\ OutcomeInv(u)' /\ StageInv(u)' /\ LostInv(u)'
  BY <1>1, <1>2, <1>4 DEF EnclaveInv, SameHost, Moves, TaskInv, Making, Removing, Tasks,
     OutcomeInv, StageInv, LostInv, TrackerInv, Removable, Has
<1> QED
  BY <1>1, <1>2, <1>4, <1>5, <1>3, TaskMoves

LEMMA ApicIsGivenUpKeeps ==
  ASSUME All, NEW u \in Enclaves, ApicIsGivenUp(u), NEW v \in Enclaves
  PROVE  Holds(v)
<1>1. TaskT /\ PickT /\ HolderT /\ HostT /\ ContT /\ TakenT /\ EngineT
  BY DEF All, Typed
<1>2. /\ UNCHANGED <<network, lingering, volume, apicIp, serviceIp, proxy, faults, cliVars, taken, moved>>
      /\ at[u] = "await" /\ KillContainers(u, {"apic"}) /\ LaunchFails(u)
  BY DEF ApicIsGivenUp
<1>3. EnclaveInv(u)
  BY DEF All
<1>4. /\ Leave(u, {"apic"}) /\ Apic(u, IF apic[u] # "none" THEN "stopped" ELSE apic[u], apicIp[u])
      /\ Serves(u, service[u], serviceIp[u]) /\ OthersCont(u)
  BY <1>1, <1>2, KilledEffect
<1>5. CASE v # u
  <2>1. SameHost(v)
    BY <1>2, <1>4, <1>5 DEF SameHost, OthersCont, Apic, Serves
  <2>2. CASE EngineDies("down")
    BY <1>1, <2>1, <2>2, DiesFrame DEF All
  <2>3. CASE /\ Moves(u, "create", "gather", outcome[u]) /\ OthersMove(u)
             /\ engine' = engine /\ relaunch' = relaunch /\ task[u] = "create"
    BY <1>5, <2>1, <2>3, Frame DEF All, OthersMove
  <2> QED
    BY <1>2, <2>2, <2>3, LaunchFailsEffect
<1>6. CASE v = u
  <2>1. network'[u] = network[u] /\ volume'[u] = volume[u] /\ Tracks(u, taken[u])
    BY <1>2 DEF Tracks
  <2>2. SameDoors(u) /\ First(u)' = First(u)
    BY <1>4, LeaveDoors, Doors
  <2>3. /\ (task'[u] = "create" /\ at'[u] = "gather") \/ (task'[u] = "none" /\ at'[u] = "idle")
        /\ outcome'[u] = outcome[u] \/ (outcome'[u] = "left" /\ task[u] = "create")
        /\ task'[u] = "create" => outcome'[u] = outcome[u] /\ engine' = engine /\ relaunch' = relaunch /\ task[u] = "create"
        /\ task'[u] = "none" => relaunch' = {}
        /\ u \in relaunch' => u \in relaunch
    <3>1. CASE EngineDies("down")
      BY <3>1 DEF EngineDies
    <3>2. CASE /\ Moves(u, "create", "gather", outcome[u]) /\ OthersMove(u)
               /\ engine' = engine /\ relaunch' = relaunch /\ task[u] = "create"
      BY <3>2 DEF Moves
    <3> QED
      BY <1>2, <3>1, <3>2, LaunchFailsEffect
  <2>4. TaskInv(u)' /\ OutcomeInv(u)' /\ StageInv(u)' /\ LostInv(u)'
    BY <1>2, <1>3, <1>4, <2>1, <2>3
    DEF EnclaveInv, Apic, Serves, Tracks, TaskInv, OutcomeInv, StageInv, LostInv, Making, Removing
  <2>5. HolderInv(u)'
    BY <1>3, <1>4, <2>1, <2>2 DEF EnclaveInv, Apic, Serves, Leave, Has, HolderInv, Running,
       SameDoors
  <2>6. TrackerInv(u)' /\ AddressInv(u)'
    BY <1>3, <1>4, <2>1, <2>2, <2>3
    DEF EnclaveInv, Apic, Serves, Tracks, TrackerInv, AddressInv, SameDoors, Lives
  <2> QED
    BY <1>4, <1>6, <2>2, <2>4, <2>5, <2>6 DEF EnclaveInv, Holds, Behind, SameDoors, Apic
<1> QED
  BY <1>5, <1>6

LEMMA RelaunchKeeps ==
  ASSUME All, NEW u \in Enclaves, Relaunch(u)
  PROVE  Alone(u) /\ Holds(u)
<1>1. /\ TaskT /\ PickT /\ HolderT /\ HostT /\ ContT /\ TakenT /\ EngineT /\ SeenT
      /\ EnclaveInv(u) /\ task[u] \in Tasks
  BY DEF All, Typed, TaskT
<1>2. engine = "relaunching" /\ u \in relaunch /\ task[u] = "none"
  BY DEF Relaunch, Idle
<1>3. Alone(u)
  BY <1>1 DEF Relaunch, Goes, hostVars, engineVars, cliVars, Idle, Engine, Alone, SameHost,
     SameTask, HolderT, HostT, ContT, PickT, TaskT, TakenT, EngineT
<1>4. Moves(u, "relaunch", "launch", outcome[u]) /\ SameHost(u) /\ Engine(u)
  BY <1>1 DEF Relaunch, Goes, hostVars, engineVars, cliVars, Idle, Moves, Engine, Alone,
     SameHost, SameTask, HolderT, HostT, ContT, PickT, TaskT, TakenT, EngineT
<1>5. TaskInv(u)' /\ OutcomeInv(u)' /\ StageInv(u)' /\ LostInv(u)'
  BY <1>1, <1>2, <1>4 DEF EnclaveInv, SameHost, Moves, Engine, TaskInv, Making, Removing, Tasks,
     OutcomeInv, StageInv, LostInv, TrackerInv, Removable, Has
<1> QED
  BY <1>1, <1>2, <1>4, <1>5, <1>3, TaskMoves DEF Engine

-----------------------------------------------------------------------------
(* Destroying and stopping an enclave.                                     *)
LEMMA BeginDestroyKeeps ==
  ASSUME All, NEW u \in Enclaves, BeginDestroy(u)
  PROVE  Alone(u) /\ Holds(u)
<1>1. /\ TaskT /\ PickT /\ HolderT /\ HostT /\ ContT /\ TakenT /\ EngineT /\ SeenT
      /\ EnclaveInv(u) /\ task[u] \in Tasks
  BY DEF All, Typed, TaskT
<1>2. task[u] = "none" /\ engine = "up" /\ outcome[u] \in {"running", "left"}
  BY DEF BeginDestroy, Idle
<1>3. Alone(u)
  BY <1>1 DEF BeginDestroy, Goes, hostVars, engineVars, cliVars, Idle, Engine, Alone, SameHost,
     SameTask, HolderT, HostT, ContT, PickT, TaskT, TakenT, EngineT
<1>4. Moves(u, "destroy", "gather", outcome[u]) /\ SameHost(u) /\ Engine(u)
  BY <1>1 DEF BeginDestroy, Goes, hostVars, engineVars, cliVars, Idle, Moves, Engine, Alone,
     SameHost, SameTask, HolderT, HostT, ContT, PickT, TaskT, TakenT, EngineT
<1>5. TaskInv(u)' /\ OutcomeInv(u)' /\ StageInv(u)' /\ LostInv(u)'
  BY <1>1, <1>2, <1>4 DEF EnclaveInv, SameHost, Moves, Engine, TaskInv, Making, Removing, Tasks,
     OutcomeInv, StageInv, LostInv, TrackerInv, Removable, Has
<1> QED
  BY <1>1, <1>2, <1>4, <1>5, <1>3, TaskMoves DEF Engine

LEMMA GatherKeeps ==
  ASSUME All, NEW u \in Enclaves, Gather(u)
  PROVE  Alone(u) /\ Holds(u)
<1>1. /\ TaskT /\ PickT /\ HolderT /\ HostT /\ ContT /\ TakenT /\ EngineT /\ SeenT
      /\ EnclaveInv(u) /\ task[u] \in Tasks
  BY DEF All, Typed, TaskT
<1>2. at[u] = "gather"
  BY DEF Gather, Containers
<1>3. Alone(u)
  BY <1>1 DEF Gather, Goes, hostVars, engineVars, cliVars, Containers, Engine, Alone, SameHost,
     SameTask, HolderT, HostT, ContT, PickT, TaskT, TakenT, EngineT
<1>4. Moves(u, task[u], "containers", outcome[u]) /\ SameHost(u) /\ Engine(u)
  BY <1>1 DEF Gather, Goes, hostVars, engineVars, cliVars, Containers, Moves, Engine, Alone,
     SameHost, SameTask, HolderT, HostT, ContT, PickT, TaskT, TakenT, EngineT
<1>5. TaskInv(u)' /\ OutcomeInv(u)' /\ StageInv(u)' /\ LostInv(u)'
  BY <1>1, <1>2, <1>4 DEF EnclaveInv, SameHost, Moves, Engine, TaskInv, Making, Removing, Tasks,
     OutcomeInv, StageInv, LostInv, TrackerInv, Removable, Has
<1> QED
  BY <1>1, <1>2, <1>4, <1>5, <1>3, TaskMoves DEF Engine

LEMMA DestroyContainersKeeps ==
  ASSUME All, NEW u \in Enclaves, DestroyContainers(u)
  PROVE  Alone(u) /\ Holds(u)
<1>1. /\ TaskT /\ PickT /\ HolderT /\ HostT /\ ContT /\ TakenT /\ EngineT /\ SeenT
      /\ EnclaveInv(u) /\ task[u] \in Tasks
  BY DEF All, Typed, TaskT
<1>2. at[u] = "containers"
  BY DEF DestroyContainers
<1>3. UNCHANGED <<network, lingering, volume, proxy, engineVars, cliVars, taken, moved>>
  BY DEF DestroyContainers
<1>4. \/ /\ RemoveContainers(u, seen[u]) /\ Goes(u, "volumes")
         /\ UNCHANGED <<task, pick, tries, seen, outcome>>
      \/ /\ StageFails(u)
         /\ \E gone \in SUBSET seen[u] : RemoveContainers(u, gone)
  BY DEF DestroyContainers
<1>5. CASE /\ RemoveContainers(u, seen[u]) /\ Goes(u, "volumes")
           /\ UNCHANGED <<task, pick, tries, seen, outcome>>
  <2>1. Moves(u, task[u], "volumes", outcome[u]) /\ OthersMove(u)
    BY <1>1, <1>5 DEF Goes, Moves, OthersMove, SameTask, TaskT, PickT
  <2>2. PICK S \in SUBSET {"apic", "service"} : RemoveContainers(u, S)
    BY <1>1, <1>5 DEF SeenT
  <2>3. /\ Apic(u, IF "apic" \in S THEN "none" ELSE apic[u], IF "apic" \in S THEN None ELSE apicIp[u])
        /\ Serves(u, IF "service" \in S THEN "none" ELSE service[u], IF "service" \in S THEN None ELSE serviceIp[u])
        /\ Leave(u, S) /\ OthersCont(u)
    BY <1>1, <1>3, <2>2, RemovedEffect
  <2>4. Alone(u)
    BY <1>1, <1>3, <1>5, <2>1, <2>3 DEF Alone, SameHost, SameTask, OthersMove, OthersCont,
       Moves, Apic, Serves, Leave, Engine, Goes, engineVars, HolderT, HostT, ContT, PickT,
       TaskT, TakenT, EngineT
  <2>5. /\ Moves(u, task[u], "volumes", outcome[u]) /\ Net(u, network[u], volume[u])
        /\ Apic(u, IF "apic" \in S THEN "none" ELSE apic[u], IF "apic" \in S THEN None ELSE apicIp[u])
        /\ Serves(u, IF "service" \in S THEN "none" ELSE service[u], IF "service" \in S THEN None ELSE serviceIp[u])
        /\ Tracks(u, taken[u]) /\ Leave(u, S) /\ Engine(u)
    BY <1>1, <1>3, <1>5, <2>1, <2>3 DEF OthersCont, Moves, Net, Apic, Serves, Tracks, Leave,
       Engine, Goes, engineVars, HolderT, HostT, ContT, PickT, TaskT, TakenT, EngineT
  <2>6. SameDoors(u)
    BY <2>5, LeaveDoors
  <2>7. First(u)' = First(u)
    BY <2>6, Doors
  <2>8. TaskInv(u)' /\ OutcomeInv(u)' /\ StageInv(u)' /\ LostInv(u)'
    BY <1>1, <1>2, <2>5 DEF EnclaveInv, Moves, Net, Apic, Serves, Tracks, Leave, Engine,
       TaskInv, Making, Removing, Tasks, OutcomeInv, StageInv, LostInv, TrackerInv, Removable,
       Has
  <2>9. HolderInv(u)'
    BY <1>1, <1>2, <2>5, <2>6, <2>7 DEF EnclaveInv, Moves, Net, Apic, Serves, Tracks, Leave,
       Engine, HolderInv, TaskInv, StageInv, LostInv, Making, Has, Running, SameDoors
  <2>10. TrackerInv(u)' /\ AddressInv(u)'
    BY <1>1, <1>2, <2>5, <2>6, <2>7 DEF EnclaveInv, Moves, Net, Apic, Serves, Tracks, Leave,
       Engine, TrackerInv, TaskInv, StageInv, LostInv, HolderInv, Making, AddressInv, Running,
       Lives, SameDoors
  <2>11. Behind(u) => Behind(u)'
    BY <1>1, <1>2, <2>5, <2>6 DEF EnclaveInv, Behind, Moves, Net, Apic, Serves, Tracks, Leave,
       Engine, SameDoors, StageInv, Making
  <2> QED
    BY <2>8, <2>9, <2>10, <2>11, <2>4 DEF EnclaveInv, Holds
<1>6. CASE /\ StageFails(u)
           /\ \E gone \in SUBSET seen[u] : RemoveContainers(u, gone)
  <2>1. /\ Moves(u, "none", "idle", IF task[u] = "create" THEN "left" ELSE outcome[u])
        /\ OthersMove(u)
    BY <1>1, <1>6, StageFailsEffect
  <2>2. PICK S \in SUBSET {"apic", "service"} : RemoveContainers(u, S)
    BY <1>1, <1>6 DEF SeenT
  <2>3. /\ Apic(u, IF "apic" \in S THEN "none" ELSE apic[u], IF "apic" \in S THEN None ELSE apicIp[u])
        /\ Serves(u, IF "service" \in S THEN "none" ELSE service[u], IF "service" \in S THEN None ELSE serviceIp[u])
        /\ Leave(u, S) /\ OthersCont(u)
    BY <1>1, <1>3, <2>2, RemovedEffect
  <2>4. Alone(u)
    BY <1>1, <1>3, <1>6, <2>1, <2>3 DEF Alone, SameHost, SameTask, OthersMove, OthersCont,
       Moves, Apic, Serves, Leave, Engine, engineVars, HolderT, HostT, ContT, PickT, TaskT,
       TakenT, EngineT
  <2>5. /\ Moves(u, "none", "idle", IF task[u] = "create" THEN "left" ELSE outcome[u])
        /\ Net(u, network[u], volume[u])
        /\ Apic(u, IF "apic" \in S THEN "none" ELSE apic[u], IF "apic" \in S THEN None ELSE apicIp[u])
        /\ Serves(u, IF "service" \in S THEN "none" ELSE service[u], IF "service" \in S THEN None ELSE serviceIp[u])
        /\ Tracks(u, taken[u]) /\ Leave(u, S) /\ Engine(u)
    BY <1>1, <1>3, <1>6, <2>1, <2>3 DEF OthersCont, Moves, Net, Apic, Serves, Tracks, Leave,
       Engine, engineVars, HolderT, HostT, ContT, PickT, TaskT, TakenT, EngineT
  <2>6. SameDoors(u)
    BY <2>5, LeaveDoors
  <2>7. First(u)' = First(u)
    BY <2>6, Doors
  <2>8. TaskInv(u)' /\ OutcomeInv(u)' /\ StageInv(u)' /\ LostInv(u)'
    BY <1>1, <1>2, <2>5 DEF EnclaveInv, Moves, Net, Apic, Serves, Tracks, Leave, Engine,
       TaskInv, Making, Removing, Tasks, OutcomeInv, StageInv, LostInv, TrackerInv, Removable,
       Has
  <2>9. HolderInv(u)'
    BY <1>1, <1>2, <2>5, <2>6, <2>7 DEF EnclaveInv, Moves, Net, Apic, Serves, Tracks, Leave,
       Engine, HolderInv, TaskInv, StageInv, LostInv, Making, Has, Running, SameDoors
  <2>10. TrackerInv(u)' /\ AddressInv(u)'
    BY <1>1, <1>2, <2>5, <2>6, <2>7 DEF EnclaveInv, Moves, Net, Apic, Serves, Tracks, Leave,
       Engine, TrackerInv, TaskInv, StageInv, LostInv, HolderInv, Making, AddressInv, Running,
       Lives, SameDoors
  <2>11. Behind(u) => Behind(u)'
    BY <1>1, <1>2, <2>5, <2>6 DEF EnclaveInv, Behind, Moves, Net, Apic, Serves, Tracks, Leave,
       Engine, SameDoors, StageInv, Making
  <2> QED
    BY <2>8, <2>9, <2>10, <2>11, <2>4 DEF EnclaveInv, Holds
<1> QED
  BY <1>4, <1>5, <1>6

LEMMA DestroyVolumesKeeps ==
  ASSUME All, NEW u \in Enclaves, DestroyVolumes(u)
  PROVE  Alone(u) /\ Holds(u)
<1>1. /\ TaskT /\ PickT /\ HolderT /\ HostT /\ ContT /\ TakenT /\ EngineT /\ SeenT
      /\ EnclaveInv(u) /\ task[u] \in Tasks
  BY DEF All, Typed, TaskT
<1>2. at[u] = "volumes"
  BY DEF DestroyVolumes
<1>3. UNCHANGED <<network, holder, lingering, apic, apicIp, service, serviceIp, proxy,
                  engineVars, cliVars, moved>>
  BY DEF DestroyVolumes
<1>4. \/ /\ apic[u] = "none" /\ volume' = [volume EXCEPT ![u] = FALSE]
         /\ taken' = [taken EXCEPT ![u] = {}] /\ Goes(u, "unplug")
         /\ UNCHANGED <<task, pick, tries, seen, outcome>>
      \/ StageFails(u) /\ UNCHANGED <<volume, taken>>
  BY DEF DestroyVolumes
<1>5. CASE /\ apic[u] = "none" /\ volume' = [volume EXCEPT ![u] = FALSE]
           /\ taken' = [taken EXCEPT ![u] = {}] /\ Goes(u, "unplug")
           /\ UNCHANGED <<task, pick, tries, seen, outcome>>
  <2>1. Moves(u, task[u], "unplug", outcome[u]) /\ OthersMove(u)
    BY <1>1, <1>5 DEF Goes, Moves, OthersMove, SameTask, TaskT, PickT
  <2>2. Alone(u)
    BY <1>1, <1>3, <1>5, <2>1 DEF Alone, SameHost, SameTask, OthersMove, Moves, Engine, Goes,
       engineVars, HolderT, HostT, ContT, PickT, TaskT, TakenT, EngineT
  <2>3. /\ Moves(u, task[u], "unplug", outcome[u]) /\ Net(u, network[u], FALSE)
        /\ Apic(u, apic[u], apicIp[u]) /\ Serves(u, service[u], serviceIp[u]) /\ Tracks(u, {})
        /\ holder'[u] = holder[u] /\ Engine(u) /\ apic[u] = "none"
    BY <1>1, <1>3, <1>5, <2>1 DEF Moves, Net, Apic, Serves, Tracks, Engine, Goes, engineVars,
       HolderT, HostT, ContT, PickT, TaskT, TakenT, EngineT
  <2>4. SameDoors(u)
    BY <2>3 DEF SameDoors, Has
  <2>5. First(u)' = First(u)
    BY <2>4, Doors
  <2>6. TaskInv(u)' /\ OutcomeInv(u)' /\ StageInv(u)' /\ LostInv(u)'
    BY <1>1, <1>2, <2>3 DEF EnclaveInv, Moves, Net, Apic, Serves, Tracks, Engine, TaskInv,
       Making, Removing, Tasks, OutcomeInv, StageInv, LostInv, TrackerInv, Removable, Has
  <2>7. HolderInv(u)'
    BY <1>1, <1>2, <2>3, <2>4, <2>5 DEF EnclaveInv, Moves, Net, Apic, Serves, Tracks, Engine,
       HolderInv, TaskInv, StageInv, LostInv, Making, Has, Running, SameDoors
  <2>8. TrackerInv(u)' /\ AddressInv(u)'
    BY <1>1, <1>2, <2>3, <2>4, <2>5 DEF EnclaveInv, Moves, Net, Apic, Serves, Tracks, Engine,
       TrackerInv, TaskInv, StageInv, LostInv, HolderInv, Making, AddressInv, Running, Lives,
       SameDoors
  <2>9. Behind(u) => Behind(u)'
    BY <1>1, <1>2, <2>3, <2>4 DEF EnclaveInv, Behind, Moves, Net, Apic, Serves, Tracks, Engine,
       SameDoors, StageInv, Making
  <2> QED
    BY <2>6, <2>7, <2>8, <2>9, <2>2 DEF EnclaveInv, Holds
<1>6. CASE StageFails(u) /\ UNCHANGED <<volume, taken>>
  <2>1. /\ Moves(u, "none", "idle", IF task[u] = "create" THEN "left" ELSE outcome[u])
        /\ OthersMove(u)
    BY <1>1, <1>6, StageFailsEffect
  <2>2. Alone(u)
    BY <1>1, <1>3, <1>6, <2>1 DEF Alone, SameHost, SameTask, OthersMove, Moves, Engine,
       engineVars, HolderT, HostT, ContT, PickT, TaskT, TakenT, EngineT
  <2>3. /\ Moves(u, "none", "idle", IF task[u] = "create" THEN "left" ELSE outcome[u])
        /\ SameHost(u) /\ Engine(u)
    BY <1>1, <1>3, <1>6, <2>1 DEF SameHost, Moves, Engine, engineVars, HolderT, HostT, ContT,
       PickT, TaskT, TakenT, EngineT
  <2>4. TaskInv(u)' /\ OutcomeInv(u)' /\ StageInv(u)' /\ LostInv(u)'
    BY <1>1, <1>2, <2>3 DEF EnclaveInv, SameHost, Moves, Engine, TaskInv, Making, Removing,
       Tasks, OutcomeInv, StageInv, LostInv, TrackerInv, Removable, Has
  <2> QED
    BY <1>1, <1>2, <2>3, <2>4, <2>2, TaskMoves DEF Engine
<1> QED
  BY <1>4, <1>5, <1>6

LEMMA DisconnectContainersKeeps ==
  ASSUME All, NEW u \in Enclaves, DisconnectContainers(u)
  PROVE  Alone(u) /\ Holds(u)
<1>1. /\ TaskT /\ PickT /\ HolderT /\ HostT /\ ContT /\ TakenT /\ EngineT /\ SeenT
      /\ EnclaveInv(u) /\ task[u] \in Tasks
  BY DEF All, Typed, TaskT
<1>2. at[u] = "unplug"
  BY DEF DisconnectContainers
<1>3. Alone(u)
  BY <1>1, StageFailsEffect, WithoutEffect DEF DisconnectContainers, Goes, Fails, Fault,
     engineVars, cliVars, Moves, Engine, Alone, SameHost, SameTask, OthersMove, OthersHold,
     HolderT, HostT, ContT, PickT, TaskT, TakenT, EngineT
<1>4. \/ /\ Moves(u, task[u], "remove", outcome[u]) /\ Net(u, network[u], volume[u])
         /\ Apic(u, apic[u], apicIp[u]) /\ Serves(u, service[u], serviceIp[u])
         /\ Tracks(u, taken[u]) /\ Leave(u, {"proxy", "service", "apic"}) /\ Engine(u)
      \/ /\ Moves(u, "none", "idle", IF task[u] = "create" THEN "left" ELSE outcome[u])
         /\ SameHost(u) /\ Engine(u)
  BY <1>1, StageFailsEffect, WithoutEffect DEF DisconnectContainers, Goes, Fails, Fault,
     engineVars, cliVars, Moves, Net, Apic, Serves, Tracks, Engine, Alone, SameHost, SameTask,
     OthersMove, OthersHold, HolderT, HostT, ContT, PickT, TaskT, TakenT, EngineT
<1>5. CASE /\ Moves(u, task[u], "remove", outcome[u]) /\ Net(u, network[u], volume[u])
           /\ Apic(u, apic[u], apicIp[u]) /\ Serves(u, service[u], serviceIp[u])
           /\ Tracks(u, taken[u]) /\ Leave(u, {"proxy", "service", "apic"}) /\ Engine(u)
  <2>1. TaskInv(u)' /\ OutcomeInv(u)' /\ StageInv(u)' /\ LostInv(u)'
    BY <1>1, <1>2, <1>5 DEF EnclaveInv, Moves, Net, Apic, Serves, Tracks, Leave, Engine,
       TaskInv, Making, Removing, Tasks, OutcomeInv, StageInv, LostInv, TrackerInv, Removable,
       Has
  <2>2. HolderInv(u)'
    BY <1>1, <1>2, <1>5 DEF EnclaveInv, Moves, Net, Apic, Serves, Tracks, Leave, Engine,
       HolderInv, TaskInv, StageInv, LostInv, Making, Has, Running
  <2>3. TrackerInv(u)' /\ AddressInv(u)'
    BY <1>1, <1>2, <1>5 DEF EnclaveInv, Moves, Net, Apic, Serves, Tracks, Leave, Engine,
       TrackerInv, TaskInv, StageInv, LostInv, HolderInv, Making, AddressInv, Running, Lives,
       Has
  <2>4. Behind(u) => Behind(u)'
    BY <1>1, <1>2, <1>5 DEF EnclaveInv, Behind, Moves, Net, Apic, Serves, Tracks, Leave, Engine,
       Has, StageInv, Making
  <2> QED
    BY <2>1, <2>2, <2>3, <2>4, <1>3 DEF EnclaveInv, Holds
<1>6. CASE /\ Moves(u, "none", "idle", IF task[u] = "create" THEN "left" ELSE outcome[u])
           /\ SameHost(u) /\ Engine(u)
  <2>1. TaskInv(u)' /\ OutcomeInv(u)' /\ StageInv(u)' /\ LostInv(u)'
    BY <1>1, <1>2, <1>6 DEF EnclaveInv, SameHost, Moves, Engine, TaskInv, Making, Removing,
       Tasks, OutcomeInv, StageInv, LostInv, TrackerInv, Removable, Has
  <2> QED
    BY <1>1, <1>2, <1>6, <2>1, <1>3, TaskMoves DEF Engine
<1> QED
  BY <1>4, <1>5, <1>6

LEMMA DestroyNetworkKeeps ==
  ASSUME All, NEW u \in Enclaves, DestroyNetwork(u)
  PROVE  Alone(u) /\ Holds(u)
<1>1. /\ TaskT /\ PickT /\ HolderT /\ HostT /\ ContT /\ TakenT /\ EngineT /\ SeenT
      /\ EnclaveInv(u) /\ task[u] \in Tasks
  BY DEF All, Typed, TaskT
<1>2. at[u] = "remove" /\ Removable(u)
  BY DEF DestroyNetwork, All, EnclaveInv, StageInv
<1>3. UNCHANGED <<volume, apic, apicIp, service, serviceIp, proxy, engineVars, cliVars,
                  taken, moved>>
  BY DEF DestroyNetwork
<1>4. \/ RemoveNetwork(u) /\ Ends(u, IF task[u] = "create" THEN "failed" ELSE "gone")
      \/ StageFails(u) /\ UNCHANGED <<network, holder, lingering>>
  BY <1>2 DEF DestroyNetwork
<1>5. CASE RemoveNetwork(u) /\ Ends(u, IF task[u] = "create" THEN "failed" ELSE "gone")
  <2>1. /\ Moves(u, "none", "idle", IF task[u] = "create" THEN "failed" ELSE "gone")
        /\ OthersMove(u)
    BY <1>1, <1>5, EndsEffect
  <2>2. network'[u] = None /\ Bare(u) /\ OthersNet(u)
    BY <1>1, <1>5, NetworkRemovedEffect
  <2>3. Alone(u)
    BY <1>1, <1>3, <1>5, <2>1, <2>2 DEF Alone, SameHost, SameTask, OthersMove, OthersNet, Moves,
       Engine, Bare, engineVars, HolderT, HostT, ContT, PickT, TaskT, TakenT, EngineT
  <2>4. /\ Moves(u, "none", "idle", IF task[u] = "create" THEN "failed" ELSE "gone")
        /\ Net(u, None, volume[u]) /\ Apic(u, apic[u], apicIp[u])
        /\ Serves(u, service[u], serviceIp[u]) /\ Tracks(u, taken[u]) /\ Bare(u) /\ Engine(u)
    BY <1>1, <1>3, <1>5, <2>1, <2>2 DEF Moves, Net, Apic, Serves, Tracks, Engine, Bare,
       engineVars, HolderT, HostT, ContT, PickT, TaskT, TakenT, EngineT
  <2>5. TaskInv(u)' /\ OutcomeInv(u)' /\ StageInv(u)' /\ LostInv(u)'
    BY <1>1, <1>2, <2>4 DEF EnclaveInv, Moves, Net, Apic, Serves, Tracks, Engine, Bare, TaskInv,
       Making, Removing, Tasks, OutcomeInv, StageInv, LostInv, TrackerInv, Removable, Has
  <2>6. HolderInv(u)'
    BY <1>1, <1>2, <2>4 DEF EnclaveInv, Moves, Net, Apic, Serves, Tracks, Engine, Bare,
       HolderInv, TaskInv, StageInv, LostInv, Making, Has, Running
  <2>7. TrackerInv(u)' /\ AddressInv(u)'
    BY <1>1, <1>2, <2>4 DEF EnclaveInv, Moves, Net, Apic, Serves, Tracks, Engine, Bare,
       TrackerInv, TaskInv, StageInv, LostInv, HolderInv, Making, AddressInv, Running, Lives,
       Has
  <2>8. Behind(u) => Behind(u)'
    BY <1>1, <1>2, <2>4 DEF EnclaveInv, Behind, Moves, Net, Apic, Serves, Tracks, Engine, Bare,
       Has, StageInv, Making
  <2> QED
    BY <2>5, <2>6, <2>7, <2>8, <2>3 DEF EnclaveInv, Holds
<1>6. CASE StageFails(u) /\ UNCHANGED <<network, holder, lingering>>
  <2>1. /\ Moves(u, "none", "idle", IF task[u] = "create" THEN "left" ELSE outcome[u])
        /\ OthersMove(u)
    BY <1>1, <1>6, StageFailsEffect
  <2>2. Alone(u)
    BY <1>1, <1>3, <1>6, <2>1 DEF Alone, SameHost, SameTask, OthersMove, Moves, Engine,
       engineVars, HolderT, HostT, ContT, PickT, TaskT, TakenT, EngineT
  <2>3. /\ Moves(u, "none", "idle", IF task[u] = "create" THEN "left" ELSE outcome[u])
        /\ SameHost(u) /\ Engine(u)
    BY <1>1, <1>3, <1>6, <2>1 DEF SameHost, Moves, Engine, engineVars, HolderT, HostT, ContT,
       PickT, TaskT, TakenT, EngineT
  <2>4. TaskInv(u)' /\ OutcomeInv(u)' /\ StageInv(u)' /\ LostInv(u)'
    BY <1>1, <1>2, <2>3 DEF EnclaveInv, SameHost, Moves, Engine, TaskInv, Making, Removing,
       Tasks, OutcomeInv, StageInv, LostInv, TrackerInv, Removable, Has
  <2> QED
    BY <1>1, <1>2, <2>3, <2>4, <2>2, TaskMoves DEF Engine
<1> QED
  BY <1>4, <1>5, <1>6

LEMMA BeginStopKeeps ==
  ASSUME All, NEW u \in Enclaves, BeginStop(u)
  PROVE  Alone(u) /\ Holds(u)
<1>1. /\ TaskT /\ PickT /\ HolderT /\ HostT /\ ContT /\ TakenT /\ EngineT /\ SeenT
      /\ EnclaveInv(u) /\ task[u] \in Tasks
  BY DEF All, Typed, TaskT
<1>2. task[u] = "none" /\ engine = "up" /\ outcome[u] = "running"
  BY DEF BeginStop, Containers, Idle
<1>3. Alone(u)
  BY <1>1 DEF BeginStop, Goes, hostVars, engineVars, cliVars, Containers, Idle, Engine, Alone,
     SameHost, SameTask, HolderT, HostT, ContT, PickT, TaskT, TakenT, EngineT
<1>4. Moves(u, "stop", "kill", outcome[u]) /\ SameHost(u) /\ Engine(u)
  BY <1>1 DEF BeginStop, Goes, hostVars, engineVars, cliVars, Containers, Idle, Moves, Engine,
     Alone, SameHost, SameTask, HolderT, HostT, ContT, PickT, TaskT, TakenT, EngineT
<1>5. TaskInv(u)' /\ OutcomeInv(u)' /\ StageInv(u)' /\ LostInv(u)'
  BY <1>1, <1>2, <1>4 DEF EnclaveInv, SameHost, Moves, Engine, TaskInv, Making, Removing, Tasks,
     OutcomeInv, StageInv, LostInv, TrackerInv, Removable, Has
<1> QED
  BY <1>1, <1>2, <1>4, <1>5, <1>3, TaskMoves DEF Engine

LEMMA StopContainersKeeps ==
  ASSUME All, NEW u \in Enclaves, StopContainers(u)
  PROVE  Alone(u) /\ Holds(u)
<1>1. /\ TaskT /\ PickT /\ HolderT /\ HostT /\ ContT /\ TakenT /\ EngineT /\ SeenT
      /\ EnclaveInv(u) /\ task[u] \in Tasks
  BY DEF All, Typed, TaskT
<1>2. at[u] = "kill"
  BY DEF StopContainers
<1>3. UNCHANGED <<network, lingering, volume, apicIp, serviceIp, proxy, engineVars,
                  cliVars, taken, moved>>
  BY DEF StopContainers
<1>4. /\ Ends(u, outcome[u])
      /\ \E gone \in SUBSET seen[u] : KillContainers(u, gone)
  BY DEF StopContainers
<1>5. Moves(u, "none", "idle", outcome[u]) /\ OthersMove(u)
  BY <1>1, <1>4, EndsEffect
<1>6. PICK S \in SUBSET {"apic", "service"} : KillContainers(u, S)
  BY <1>1, <1>4 DEF SeenT
<1>7. /\ Apic(u, IF "apic" \in S /\ apic[u] # "none" THEN "stopped" ELSE apic[u], apicIp[u])
      /\ Serves(u, IF "service" \in S /\ service[u] = "up" THEN "stopped" ELSE service[u], serviceIp[u])
      /\ Leave(u, S) /\ OthersCont(u)
  BY <1>1, <1>3, <1>6, KilledEffect
<1>8. Alone(u)
  BY <1>1, <1>3, <1>4, <1>5, <1>7 DEF Alone, SameHost, SameTask, OthersMove, OthersCont, Moves,
     Apic, Serves, Leave, Engine, engineVars, HolderT, HostT, ContT, PickT, TaskT, TakenT,
     EngineT
<1>9. /\ Moves(u, "none", "idle", outcome[u]) /\ Net(u, network[u], volume[u])
      /\ Apic(u, IF "apic" \in S /\ apic[u] # "none" THEN "stopped" ELSE apic[u], apicIp[u])
      /\ Serves(u, IF "service" \in S /\ service[u] = "up" THEN "stopped" ELSE service[u], serviceIp[u])
      /\ Tracks(u, taken[u]) /\ Leave(u, S) /\ Engine(u)
  BY <1>1, <1>3, <1>4, <1>5, <1>7 DEF OthersCont, Moves, Net, Apic, Serves, Tracks, Leave,
     Engine, engineVars, HolderT, HostT, ContT, PickT, TaskT, TakenT, EngineT
<1>10. SameDoors(u)
  BY <1>9, LeaveDoors
<1>11. First(u)' = First(u)
  BY <1>10, Doors
<1>12. TaskInv(u)' /\ OutcomeInv(u)' /\ StageInv(u)' /\ LostInv(u)'
  BY <1>1, <1>2, <1>9 DEF EnclaveInv, Moves, Net, Apic, Serves, Tracks, Leave, Engine, TaskInv,
     Making, Removing, Tasks, OutcomeInv, StageInv, LostInv, TrackerInv, Removable, Has
<1>13. HolderInv(u)'
  BY <1>1, <1>2, <1>9, <1>10, <1>11 DEF EnclaveInv, Moves, Net, Apic, Serves, Tracks, Leave,
     Engine, HolderInv, TaskInv, StageInv, LostInv, Making, Has, Running, SameDoors
<1>14. TrackerInv(u)' /\ AddressInv(u)'
  BY <1>1, <1>2, <1>9, <1>10, <1>11 DEF EnclaveInv, Moves, Net, Apic, Serves, Tracks, Leave,
     Engine, TrackerInv, TaskInv, StageInv, LostInv, HolderInv, Making, AddressInv, Running,
     Lives, SameDoors
<1>15. Behind(u) => Behind(u)'
  BY <1>1, <1>2, <1>9, <1>10 DEF EnclaveInv, Behind, Moves, Net, Apic, Serves, Tracks, Leave,
     Engine, SameDoors, StageInv, Making
<1> QED
  BY <1>12, <1>13, <1>14, <1>15, <1>8 DEF EnclaveInv, Holds

-----------------------------------------------------------------------------
(* The API container's process and the services it starts.                 *)
LEMMA ApicBootsKeeps ==
  ASSUME All, NEW u \in Enclaves, ApicBoots(u)
  PROVE  Alone(u) /\ Holds(u)
<1>1. /\ TaskT /\ PickT /\ HolderT /\ HostT /\ ContT /\ TakenT /\ EngineT /\ SeenT
      /\ EnclaveInv(u) /\ task[u] \in Tasks
  BY DEF All, Typed, TaskT
<1>2. apic[u] = "boot"
  BY DEF ApicBoots
<1>3. Has(u, "proxy") = {} => Leave(u, {"apic"}) /\ OthersHold(u)
  BY <1>1, WithoutEffect DEF ApicBoots
<1>4. Alone(u)
  BY <1>1, <1>3 DEF ApicBoots, taskVars, engineVars, cliVars, Engine, Alone, SameHost, SameTask,
     OthersHold, HolderT, HostT, ContT, PickT, TaskT, TakenT, EngineT
<1>5. \/ /\ Moves(u, task[u], at[u], outcome[u]) /\ Net(u, network[u], volume[u])
         /\ Apic(u, "up", apicIp[u]) /\ Serves(u, service[u], serviceIp[u])
         /\ Tracks(u, IF taken[u] # {} THEN taken[u] ELSE Has(u, "gateway") \cup Has(u, "proxy") \cup {apicIp[u]})
         /\ holder'[u] = holder[u] /\ Engine(u) /\ Has(u, "proxy") # {}
      \/ /\ Moves(u, task[u], at[u], outcome[u]) /\ Net(u, network[u], volume[u])
         /\ Apic(u, "dead", apicIp[u]) /\ Serves(u, service[u], serviceIp[u])
         /\ Tracks(u, taken[u]) /\ Leave(u, {"apic"}) /\ Engine(u)
  <2>1. /\ Moves(u, task[u], at[u], outcome[u]) /\ Net(u, network[u], volume[u])
        /\ Serves(u, service[u], serviceIp[u]) /\ Engine(u)
    BY DEF ApicBoots, Moves, Net, Serves, Engine, taskVars, engineVars
  <2>2. CASE Has(u, "proxy") # {}
    BY <1>1, <2>1, <2>2 DEF ApicBoots, Apic, Tracks, ContT, TakenT
  <2>3. CASE Has(u, "proxy") = {}
    BY <1>1, <1>3, <2>1, <2>3 DEF ApicBoots, Apic, Tracks, ContT, TakenT
  <2> QED
    BY <2>2, <2>3
<1>6. CASE /\ Moves(u, task[u], at[u], outcome[u]) /\ Net(u, network[u], volume[u])
           /\ Apic(u, "up", apicIp[u]) /\ Serves(u, service[u], serviceIp[u])
           /\ Tracks(u, IF taken[u] # {} THEN taken[u] ELSE Has(u, "gateway") \cup Has(u, "proxy") \cup {apicIp[u]})
           /\ holder'[u] = holder[u] /\ Engine(u) /\ Has(u, "proxy") # {}
  <2>1. SameDoors(u)
    BY <1>6 DEF SameDoors, Has
  <2>2. First(u)' = First(u)
    BY <2>1, Doors
  <2>3. TaskInv(u)' /\ OutcomeInv(u)' /\ StageInv(u)' /\ LostInv(u)'
    BY <1>1, <1>2, <1>6 DEF EnclaveInv, Moves, Net, Apic, Serves, Tracks, Engine, TaskInv,
       Making, Removing, Tasks, OutcomeInv, StageInv, LostInv, TrackerInv, Removable, Has
  <2>4. HolderInv(u)'
    BY <1>1, <1>2, <1>6, <2>1, <2>2 DEF EnclaveInv, Moves, Net, Apic, Serves, Tracks, Engine,
       HolderInv, TaskInv, StageInv, LostInv, Making, Has, Running, SameDoors
  <2>5. TrackerInv(u)' /\ AddressInv(u)'
    BY <1>1, <1>2, <1>6, <2>1, <2>2 DEF EnclaveInv, Moves, Net, Apic, Serves, Tracks, Engine,
       TrackerInv, TaskInv, StageInv, LostInv, HolderInv, Making, AddressInv, Running, Lives,
       SameDoors
  <2>6. Behind(u) => Behind(u)'
    BY <1>1, <1>2, <1>6, <2>1 DEF EnclaveInv, Behind, Moves, Net, Apic, Serves, Tracks, Engine,
       SameDoors, StageInv, Making
  <2> QED
    BY <2>3, <2>4, <2>5, <2>6, <1>4 DEF EnclaveInv, Holds
<1>7. CASE /\ Moves(u, task[u], at[u], outcome[u]) /\ Net(u, network[u], volume[u])
           /\ Apic(u, "dead", apicIp[u]) /\ Serves(u, service[u], serviceIp[u])
           /\ Tracks(u, taken[u]) /\ Leave(u, {"apic"}) /\ Engine(u)
  <2>1. SameDoors(u)
    BY <1>7, LeaveDoors
  <2>2. First(u)' = First(u)
    BY <2>1, Doors
  <2>3. TaskInv(u)' /\ OutcomeInv(u)' /\ StageInv(u)' /\ LostInv(u)'
    BY <1>1, <1>2, <1>7 DEF EnclaveInv, Moves, Net, Apic, Serves, Tracks, Leave, Engine,
       TaskInv, Making, Removing, Tasks, OutcomeInv, StageInv, LostInv, TrackerInv, Removable,
       Has
  <2>4. HolderInv(u)'
    BY <1>1, <1>2, <1>7, <2>1, <2>2 DEF EnclaveInv, Moves, Net, Apic, Serves, Tracks, Leave,
       Engine, HolderInv, TaskInv, StageInv, LostInv, Making, Has, Running, SameDoors
  <2>5. TrackerInv(u)' /\ AddressInv(u)'
    BY <1>1, <1>2, <1>7, <2>1, <2>2 DEF EnclaveInv, Moves, Net, Apic, Serves, Tracks, Leave,
       Engine, TrackerInv, TaskInv, StageInv, LostInv, HolderInv, Making, AddressInv, Running,
       Lives, SameDoors
  <2>6. Behind(u) => Behind(u)'
    BY <1>1, <1>2, <1>7, <2>1 DEF EnclaveInv, Behind, Moves, Net, Apic, Serves, Tracks, Leave,
       Engine, SameDoors, StageInv, Making
  <2> QED
    BY <2>3, <2>4, <2>5, <2>6, <1>4 DEF EnclaveInv, Holds
<1> QED
  BY <1>5, <1>6, <1>7

LEMMA ApicDiesKeeps ==
  ASSUME All, NEW u \in Enclaves, ApicDies(u)
  PROVE  Alone(u) /\ Holds(u)
<1>1. /\ TaskT /\ PickT /\ HolderT /\ HostT /\ ContT /\ TakenT /\ EngineT /\ SeenT
      /\ EnclaveInv(u) /\ task[u] \in Tasks
  BY DEF All, Typed, TaskT
<1>2. apic[u] = "up"
  BY DEF ApicDies
<1>3. Alone(u)
  BY <1>1, WithoutEffect DEF ApicDies, Fault, taskVars, engineVars, cliVars, Engine, Alone,
     SameHost, SameTask, OthersHold, HolderT, HostT, ContT, PickT, TaskT, TakenT, EngineT
<1>4. /\ Moves(u, task[u], at[u], outcome[u]) /\ Net(u, network[u], volume[u])
      /\ Apic(u, "dead", apicIp[u]) /\ Serves(u, service[u], serviceIp[u])
      /\ Tracks(u, taken[u]) /\ Leave(u, {"apic"}) /\ Engine(u)
  BY <1>1, WithoutEffect DEF ApicDies, Fault, taskVars, engineVars, cliVars, Moves, Net, Apic,
     Serves, Tracks, Engine, Alone, SameHost, SameTask, OthersHold, HolderT, HostT, ContT,
     PickT, TaskT, TakenT, EngineT
<1>5. SameDoors(u)
  BY <1>4, LeaveDoors
<1>6. First(u)' = First(u)
  BY <1>5, Doors
<1>7. TaskInv(u)' /\ OutcomeInv(u)' /\ StageInv(u)' /\ LostInv(u)'
  BY <1>1, <1>2, <1>4 DEF EnclaveInv, Moves, Net, Apic, Serves, Tracks, Leave, Engine, TaskInv,
     Making, Removing, Tasks, OutcomeInv, StageInv, LostInv, TrackerInv, Removable, Has
<1>8. HolderInv(u)'
  BY <1>1, <1>2, <1>4, <1>5, <1>6 DEF EnclaveInv, Moves, Net, Apic, Serves, Tracks, Leave,
     Engine, HolderInv, TaskInv, StageInv, LostInv, Making, Has, Running, SameDoors
<1>9. TrackerInv(u)' /\ AddressInv(u)'
  BY <1>1, <1>2, <1>4, <1>5, <1>6 DEF EnclaveInv, Moves, Net, Apic, Serves, Tracks, Leave,
     Engine, TrackerInv, TaskInv, StageInv, LostInv, HolderInv, Making, AddressInv, Running,
     Lives, SameDoors
<1>10. Behind(u) => Behind(u)'
  BY <1>1, <1>2, <1>4, <1>5 DEF EnclaveInv, Behind, Moves, Net, Apic, Serves, Tracks, Leave,
     Engine, SameDoors, StageInv, Making
<1> QED
  BY <1>7, <1>8, <1>9, <1>10, <1>3 DEF EnclaveInv, Holds

LEMMA ApicRestartsKeeps ==
  ASSUME All, NEW u \in Enclaves, ApicRestarts(u)
  PROVE  Alone(u) /\ Holds(u)
<1>1. /\ TaskT /\ PickT /\ HolderT /\ HostT /\ ContT /\ TakenT /\ EngineT /\ SeenT
      /\ EnclaveInv(u) /\ task[u] \in Tasks
  BY DEF All, Typed, TaskT
<1>2. apic[u] = "dead" /\ holder[u][apicIp[u]] = "free"
  BY DEF ApicRestarts
<1>3. UNCHANGED <<network, lingering, volume, proxy, apicIp, service, serviceIp, taken,
                  taskVars, engineVars, moved>>
  BY DEF ApicRestarts
<1>4. /\ apic' = [apic EXCEPT ![u] = "boot"]
      /\ holder' = [holder EXCEPT ![u] = With(u, "apic", apicIp[u])]
  BY DEF ApicRestarts
<1>5. Comes(u, "apic", apicIp[u]) /\ OthersHold(u)
  BY <1>1, <1>2, <1>4, WithEffect DEF EnclaveInv, HolderInv
<1>6. Alone(u)
  BY <1>1, <1>3, <1>4, <1>5 DEF Alone, SameHost, SameTask, OthersHold, Comes, Engine,
     engineVars, taskVars, HolderT, HostT, ContT, PickT, TaskT, TakenT, EngineT
<1>7. /\ Moves(u, task[u], at[u], outcome[u]) /\ Net(u, network[u], volume[u])
      /\ Apic(u, "boot", apicIp[u]) /\ Serves(u, service[u], serviceIp[u])
      /\ Tracks(u, taken[u]) /\ Comes(u, "apic", apicIp[u]) /\ Engine(u)
  BY <1>1, <1>3, <1>4, <1>5 DEF Moves, Net, Apic, Serves, Tracks, Comes, Engine, engineVars,
     taskVars, HolderT, HostT, ContT, PickT, TaskT, TakenT, EngineT
<1>8. SameDoors(u)
  BY <1>1, <1>2, <1>7, ComesDoors DEF EnclaveInv, HolderInv
<1>9. First(u)' = First(u)
  BY <1>8, Doors
<1>10. TaskInv(u)' /\ OutcomeInv(u)' /\ StageInv(u)' /\ LostInv(u)'
  BY <1>1, <1>2, <1>7 DEF EnclaveInv, Moves, Net, Apic, Serves, Tracks, Comes, Engine, TaskInv,
     Making, Removing, Tasks, OutcomeInv, StageInv, LostInv, TrackerInv, Removable, Has
<1>11. HolderInv(u)'
  BY <1>1, <1>2, <1>7, <1>8, <1>9 DEF EnclaveInv, Moves, Net, Apic, Serves, Tracks, Comes,
     Engine, HolderInv, TaskInv, StageInv, LostInv, Making, Has, Running, SameDoors
<1>12. TrackerInv(u)' /\ AddressInv(u)'
  BY <1>1, <1>2, <1>7, <1>8, <1>9 DEF EnclaveInv, Moves, Net, Apic, Serves, Tracks, Comes,
     Engine, TrackerInv, TaskInv, StageInv, LostInv, HolderInv, Making, AddressInv, Running,
     Lives, SameDoors
<1>13. Behind(u) => Behind(u)'
  BY <1>1, <1>2, <1>7, <1>8 DEF EnclaveInv, Behind, Moves, Net, Apic, Serves, Tracks, Comes,
     Engine, SameDoors, StageInv, Making
<1> QED
  BY <1>10, <1>11, <1>12, <1>13, <1>6 DEF EnclaveInv, Holds

LEMMA StartServiceKeeps ==
  ASSUME All, NEW u \in Enclaves, StartService(u)
  PROVE  Alone(u) /\ Holds(u)
<1>1. /\ TaskT /\ PickT /\ HolderT /\ HostT /\ ContT /\ TakenT /\ EngineT /\ SeenT
      /\ EnclaveInv(u) /\ task[u] \in Tasks
  BY DEF All, Typed, TaskT
<1>2. apic[u] = "up" /\ service[u] = "none"
  BY DEF StartService
<1>3. UNCHANGED <<network, lingering, volume, proxy, apicIp, apic, taskVars, engineVars,
                  moved>>
  BY DEF StartService
<1>4. Untaken(u) # {} => Least(Untaken(u)) \in Untaken(u)
  BY LeastIsIn DEF Untaken
<1>5. PICK a \in Untaken(u) :
           /\ holder[u][a] = "free" /\ holder' = [holder EXCEPT ![u] = With(u, "service", a)]
           /\ taken' = [taken EXCEPT ![u] = @ \cup {a}]
           /\ serviceIp' = [serviceIp EXCEPT ![u] = a]
           /\ service' = [service EXCEPT ![u] = "up"]
  BY <1>4 DEF StartService
<1>6. Comes(u, "service", a) /\ OthersHold(u)
  BY <1>1, <1>5, WithEffect DEF Untaken
<1>7. Alone(u)
  BY <1>1, <1>3, <1>5, <1>6 DEF Alone, SameHost, SameTask, OthersHold, Comes, Engine,
     engineVars, taskVars, HolderT, HostT, ContT, PickT, TaskT, TakenT, EngineT
<1>8. /\ Moves(u, task[u], at[u], outcome[u]) /\ Net(u, network[u], volume[u])
      /\ Apic(u, apic[u], apicIp[u]) /\ Serves(u, "up", a) /\ Tracks(u, taken[u] \cup {a})
      /\ Comes(u, "service", a) /\ Engine(u)
      /\ a \in Address \ taken[u] /\ holder[u][a] = "free"
  BY <1>1, <1>3, <1>5, <1>6 DEF Moves, Net, Apic, Serves, Tracks, Comes, Engine, engineVars,
     taskVars, HolderT, HostT, ContT, PickT, TaskT, TakenT, EngineT, Untaken
<1>9. SameDoors(u)
  BY <1>1, <1>2, <1>8, ComesDoors DEF EnclaveInv, HolderInv
<1>10. First(u)' = First(u)
  BY <1>9, Doors
<1>11. TaskInv(u)' /\ OutcomeInv(u)' /\ StageInv(u)' /\ LostInv(u)'
  BY <1>1, <1>2, <1>8 DEF EnclaveInv, Moves, Net, Apic, Serves, Tracks, Comes, Engine, TaskInv,
     Making, Removing, Tasks, OutcomeInv, StageInv, LostInv, TrackerInv, Removable, Has
<1>12. HolderInv(u)'
  BY <1>1, <1>2, <1>8, <1>9, <1>10 DEF EnclaveInv, Moves, Net, Apic, Serves, Tracks, Comes,
     Engine, HolderInv, TaskInv, StageInv, LostInv, Making, Has, Running, SameDoors
<1>13. TrackerInv(u)' /\ AddressInv(u)'
  BY <1>1, <1>2, <1>8, <1>9, <1>10 DEF EnclaveInv, Moves, Net, Apic, Serves, Tracks, Comes,
     Engine, TrackerInv, TaskInv, StageInv, LostInv, HolderInv, Making, AddressInv, Running,
     Lives, SameDoors
<1>14. Behind(u) => Behind(u)'
  BY <1>1, <1>2, <1>8, <1>9 DEF EnclaveInv, Behind, Moves, Net, Apic, Serves, Tracks, Comes,
     Engine, SameDoors, StageInv, Making
<1> QED
  BY <1>11, <1>12, <1>13, <1>14, <1>7 DEF EnclaveInv, Holds

LEMMA StopServiceKeeps ==
  ASSUME All, NEW u \in Enclaves, StopService(u)
  PROVE  Alone(u) /\ Holds(u)
<1>1. /\ TaskT /\ PickT /\ HolderT /\ HostT /\ ContT /\ TakenT /\ EngineT /\ SeenT
      /\ EnclaveInv(u) /\ task[u] \in Tasks
  BY DEF All, Typed, TaskT
<1>2. apic[u] = "up" /\ service[u] = "up"
  BY DEF StopService
<1>3. Alone(u)
  BY <1>1, KilledEffect DEF StopService, taskVars, engineVars, cliVars, Apic, Serves, Engine,
     Alone, SameHost, SameTask, OthersCont, HolderT, HostT, ContT, PickT, TaskT, TakenT,
     EngineT
<1>4. /\ Moves(u, task[u], at[u], outcome[u]) /\ Net(u, network[u], volume[u])
      /\ Apic(u, apic[u], apicIp[u]) /\ Serves(u, "stopped", serviceIp[u])
      /\ Tracks(u, taken[u]) /\ Leave(u, {"service"}) /\ Engine(u)
  BY <1>1, KilledEffect DEF StopService, taskVars, engineVars, cliVars, Moves, Net, Apic,
     Serves, Tracks, Engine, Alone, SameHost, SameTask, OthersCont, HolderT, HostT, ContT,
     PickT, TaskT, TakenT, EngineT
<1>5. SameDoors(u)
  BY <1>4, LeaveDoors
<1>6. First(u)' = First(u)
  BY <1>5, Doors
<1>7. TaskInv(u)' /\ OutcomeInv(u)' /\ StageInv(u)' /\ LostInv(u)'
  BY <1>1, <1>2, <1>4 DEF EnclaveInv, Moves, Net, Apic, Serves, Tracks, Leave, Engine, TaskInv,
     Making, Removing, Tasks, OutcomeInv, StageInv, LostInv, TrackerInv, Removable, Has
<1>8. HolderInv(u)'
  BY <1>1, <1>2, <1>4, <1>5, <1>6 DEF EnclaveInv, Moves, Net, Apic, Serves, Tracks, Leave,
     Engine, HolderInv, TaskInv, StageInv, LostInv, Making, Has, Running, SameDoors
<1>9. TrackerInv(u)' /\ AddressInv(u)'
  BY <1>1, <1>2, <1>4, <1>5, <1>6 DEF EnclaveInv, Moves, Net, Apic, Serves, Tracks, Leave,
     Engine, TrackerInv, TaskInv, StageInv, LostInv, HolderInv, Making, AddressInv, Running,
     Lives, SameDoors
<1>10. Behind(u) => Behind(u)'
  BY <1>1, <1>2, <1>4, <1>5 DEF EnclaveInv, Behind, Moves, Net, Apic, Serves, Tracks, Leave,
     Engine, SameDoors, StageInv, Making
<1> QED
  BY <1>7, <1>8, <1>9, <1>10, <1>3 DEF EnclaveInv, Holds

LEMMA StartAgainKeeps ==
  ASSUME All, NEW u \in Enclaves, StartAgain(u)
  PROVE  Alone(u) /\ Holds(u)
<1>1. /\ TaskT /\ PickT /\ HolderT /\ HostT /\ ContT /\ TakenT /\ EngineT /\ SeenT
      /\ EnclaveInv(u) /\ task[u] \in Tasks
  BY DEF All, Typed, TaskT
<1>2. apic[u] = "up" /\ service[u] = "stopped" /\ holder[u][serviceIp[u]] = "free"
  BY DEF StartAgain
<1>3. UNCHANGED <<network, lingering, volume, proxy, apicIp, apic, serviceIp, taken,
                  taskVars, engineVars, moved>>
  BY DEF StartAgain
<1>4. /\ service' = [service EXCEPT ![u] = "up"]
      /\ holder' = [holder EXCEPT ![u] = With(u, "service", serviceIp[u])]
  BY DEF StartAgain
<1>5. Comes(u, "service", serviceIp[u]) /\ OthersHold(u)
  BY <1>1, <1>2, <1>4, WithEffect DEF EnclaveInv, HolderInv
<1>6. Alone(u)
  BY <1>1, <1>3, <1>4, <1>5 DEF Alone, SameHost, SameTask, OthersHold, Comes, Engine,
     engineVars, taskVars, HolderT, HostT, ContT, PickT, TaskT, TakenT, EngineT
<1>7. /\ Moves(u, task[u], at[u], outcome[u]) /\ Net(u, network[u], volume[u])
      /\ Apic(u, apic[u], apicIp[u]) /\ Serves(u, "up", serviceIp[u]) /\ Tracks(u, taken[u])
      /\ Comes(u, "service", serviceIp[u]) /\ Engine(u)
  BY <1>1, <1>3, <1>4, <1>5 DEF Moves, Net, Apic, Serves, Tracks, Comes, Engine, engineVars,
     taskVars, HolderT, HostT, ContT, PickT, TaskT, TakenT, EngineT
<1>8. SameDoors(u)
  BY <1>1, <1>2, <1>7, ComesDoors DEF EnclaveInv, HolderInv
<1>9. First(u)' = First(u)
  BY <1>8, Doors
<1>10. TaskInv(u)' /\ OutcomeInv(u)' /\ StageInv(u)' /\ LostInv(u)'
  BY <1>1, <1>2, <1>7 DEF EnclaveInv, Moves, Net, Apic, Serves, Tracks, Comes, Engine, TaskInv,
     Making, Removing, Tasks, OutcomeInv, StageInv, LostInv, TrackerInv, Removable, Has
<1>11. HolderInv(u)'
  BY <1>1, <1>2, <1>7, <1>8, <1>9 DEF EnclaveInv, Moves, Net, Apic, Serves, Tracks, Comes,
     Engine, HolderInv, TaskInv, StageInv, LostInv, Making, Has, Running, SameDoors
<1>12. TrackerInv(u)' /\ AddressInv(u)'
  BY <1>1, <1>2, <1>7, <1>8, <1>9 DEF EnclaveInv, Moves, Net, Apic, Serves, Tracks, Comes,
     Engine, TrackerInv, TaskInv, StageInv, LostInv, HolderInv, Making, AddressInv, Running,
     Lives, SameDoors
<1>13. Behind(u) => Behind(u)'
  BY <1>1, <1>2, <1>7, <1>8 DEF EnclaveInv, Behind, Moves, Net, Apic, Serves, Tracks, Comes,
     Engine, SameDoors, StageInv, Making
<1> QED
  BY <1>10, <1>11, <1>12, <1>13, <1>6 DEF EnclaveInv, Holds

-----------------------------------------------------------------------------
(* The engine's own steps and the CLI's, by what they are to an enclave.   *)
HostVars == <<network, holder, volume, apic, apicIp, service, serviceIp, taken, moved>>
WorkVars == <<task, at, pick, outcome>>

LEMMA NothingMoves ==
  ASSUME All, UNCHANGED <<HostVars, WorkVars, engine, relaunch>>, NEW v \in Enclaves
  PROVE  Holds(v)
<1>1. SameHost(v) /\ SameTask(v)
  BY DEF HostVars, WorkVars, SameHost, SameTask
<1> QED
  BY <1>1, Frame DEF All

LEMMA EngineMoves ==
  ASSUME All, UNCHANGED <<HostVars, WorkVars, relaunch>>, NEW v \in Enclaves,
         \/ ~EngineRuns
         \/ engine = "relaunching" /\ relaunch = {} /\ engine' = "up"
  PROVE  Holds(v)
<1>1. SameHost(v) /\ SameTask(v)
  BY DEF HostVars, WorkVars, SameHost, SameTask
<1>2. EnclaveInv(v) /\ task[v] \in Tasks
  BY DEF All, Typed, TaskT
<1>3. HolderInv(v)' /\ TrackerInv(v)' /\ AddressInv(v)'
  BY <1>1, <1>2, HostFrame DEF EnclaveInv
<1>4. TaskInv(v)'
  BY <1>1, <1>2 DEF EnclaveInv, SameTask, TaskInv, Tasks, EngineRuns
<1>5. Removable(v)' = Removable(v) /\ Has(v, "proxy")' = Has(v, "proxy")
  BY <1>1 DEF SameHost, Removable, Has
<1>6. OutcomeInv(v)' /\ StageInv(v)' /\ LostInv(v)'
  BY <1>1, <1>2, <1>5 DEF EnclaveInv, SameHost, SameTask, OutcomeInv, StageInv, LostInv
<1> QED
  BY <1>1, <1>3, <1>4, <1>5, <1>6 DEF EnclaveInv, Holds, Behind, SameHost

LEMMA EngineStops ==
  ASSUME All, UNCHANGED HostVars, EngineDies("down"), NEW v \in Enclaves
  PROVE  Holds(v)
<1>1. SameHost(v)
  BY DEF HostVars, SameHost
<1> QED
  BY <1>1, DiesFrame DEF All, Typed

(* Without the proxy there is nothing to be behind, and no address of its. *)
LEMMA ProxyGoes ==
  ASSUME All, UnplugProxy, NEW v \in Enclaves,
         UNCHANGED <<network, volume, apic, apicIp, service, serviceIp, taken, moved, WorkVars, engine, relaunch>>
  PROVE  EnclaveInv(v)'
<1>1. EnclaveInv(v)
  BY DEF All
<1>2. Leave(v, {"proxy"})
  BY DEF All, Typed, HolderT, UnplugProxy, Without, Leave
<1>3. /\ Has(v, "proxy")' = {} /\ Has(v, "gateway")' = Has(v, "gateway")
      /\ Has(v, "apic")' = Has(v, "apic") /\ Has(v, "service")' = Has(v, "service")
  BY <1>2 DEF Leave, Has
<1>4. TaskInv(v)' /\ OutcomeInv(v)' /\ LostInv(v)'
  BY <1>1 DEF WorkVars, EnclaveInv, TaskInv, OutcomeInv, LostInv
<1>5. Removable(v) => Removable(v)'
  BY <1>3 DEF Removable
<1>6. StageInv(v)'
  BY <1>1, <1>5 DEF WorkVars, EnclaveInv, StageInv
<1>7. HolderInv(v)' /\ TrackerInv(v)'
  BY <1>1, <1>3 DEF EnclaveInv, HolderInv, TrackerInv, Running
<1>8. AddressInv(v)'
  BY <1>1, <1>3 DEF EnclaveInv, AddressInv, Lives
<1> QED
  BY <1>4, <1>6, <1>7, <1>8 DEF EnclaveInv

LEMMA ApicsGo ==
  ASSUME All, NEW S, RemoveApics(S), NEW v \in Enclaves,
         UNCHANGED <<network, volume, service, serviceIp, taken, moved>>,
         v \in relaunch' => v \in relaunch \/ apic[v] # "none"
  PROVE  /\ HolderInv(v)' /\ TrackerInv(v)' /\ AddressInv(v)' /\ (Behind(v) => Behind(v)')
         /\ network'[v] = network[v] /\ volume'[v] = volume[v]
         /\ apic'[v] = apic[v] \/ apic'[v] = "none"
<1>1. EnclaveInv(v) /\ HolderT
  BY DEF All, Typed
<1>2. /\ network'[v] = network[v] /\ volume'[v] = volume[v] /\ Serves(v, service[v], serviceIp[v])
      /\ Tracks(v, taken[v])
  BY DEF Serves, Tracks
<1>3. CASE v \in S
  <2>1. Leave(v, {"apic"}) /\ Apic(v, "none", None)
    BY <1>1, <1>3 DEF RemoveApics, Without, Leave, Apic, HolderT
  <2>2. SameDoors(v) /\ First(v)' = First(v)
    BY <2>1, LeaveDoors, Doors
  <2>3. HolderInv(v)'
    BY <1>1, <1>2, <2>1, <2>2 DEF EnclaveInv, Apic, Serves, Leave, Has, HolderInv, Running,
       SameDoors
  <2>4. TrackerInv(v)' /\ AddressInv(v)'
    BY <1>1, <1>2, <2>1, <2>2 DEF EnclaveInv, Apic, Serves, Tracks, TrackerInv, AddressInv,
       SameDoors, Lives
  <2> QED
    BY <1>2, <2>1, <2>2, <2>3, <2>4 DEF Behind, Apic
<1>4. CASE v \notin S
  <2>1. holder'[v] = holder[v] /\ Apic(v, apic[v], apicIp[v])
    BY <1>4 DEF RemoveApics, Apic
  <2>2. SameDoors(v) /\ First(v)' = First(v)
    <3>1. SameDoors(v)
      BY <2>1 DEF SameDoors, Has
    <3> QED
      BY <3>1, Doors
  <2>3. HolderInv(v)'
    BY <1>1, <1>2, <2>1, <2>2 DEF EnclaveInv, Apic, Serves, Has, HolderInv, Running, SameDoors
  <2>4. TrackerInv(v)' /\ AddressInv(v)'
    BY <1>1, <1>2, <2>1, <2>2 DEF EnclaveInv, Apic, Serves, Tracks, TrackerInv, AddressInv,
       SameDoors, Lives
  <2> QED
    BY <1>2, <2>1, <2>2, <2>3, <2>4 DEF Behind, Apic, SameDoors
<1> QED
  BY <1>3, <1>4

LEMMA EngineBootsKeeps ==
  ASSUME All, EngineBoots, NEW v \in Enclaves
  PROVE  Holds(v)
<1>1. /\ UNCHANGED <<network, lingering, volume, service, serviceIp, proxy, cliVars, taken, moved>>
      /\ engine = "starting"
  BY DEF EngineBoots
<1>2. EnclaveInv(v) /\ task[v] \in Tasks
  BY DEF All, Typed, TaskT
<1>3. task[v] = "none" /\ at[v] = "idle" /\ v \notin relaunch
  BY <1>1, <1>2 DEF EnclaveInv, TaskInv, Tasks
<1>4. ASSUME engine' = "up", UNCHANGED <<taskVars, relaunch, gateways, apic, apicIp, holder, faults>>
      PROVE  Holds(v)
  <2>1. SameHost(v) /\ SameTask(v)
    BY <1>1, <1>4 DEF SameHost, SameTask, taskVars
  <2>2. HolderInv(v)' /\ TrackerInv(v)' /\ AddressInv(v)'
    BY <1>2, <1>4, <2>1, HostFrame DEF EnclaveInv
  <2>3. TaskInv(v)' /\ OutcomeInv(v)' /\ LostInv(v)' /\ StageInv(v)'
    BY <1>2, <1>3, <1>4, <2>1
    DEF EnclaveInv, SameHost, SameTask, TaskInv, OutcomeInv, LostInv, StageInv, Making
  <2>4. Behind(v) => Behind(v)'
    BY <2>1 DEF SameHost, Behind, Has
  <2> QED
    BY <2>2, <2>3, <2>4 DEF EnclaveInv, Holds
<1>5. ASSUME RemoveApics(Starting), engine' = "relaunching", relaunch' = Starting, UNCHANGED taskVars
      PROVE  Holds(v)
  <2>1. v \in relaunch' => apic[v] # "none"
    BY <1>5 DEF Starting, Running
  <2>2. /\ HolderInv(v)' /\ TrackerInv(v)' /\ AddressInv(v)' /\ (Behind(v) => Behind(v)')
        /\ network'[v] = network[v] /\ volume'[v] = volume[v]
        /\ apic'[v] = apic[v] \/ apic'[v] = "none"
    BY <1>1, <1>5, <2>1, ApicsGo
  <2>3. SameTask(v)
    BY <1>5 DEF SameTask, taskVars
  <2>4. TaskInv(v)' /\ OutcomeInv(v)' /\ LostInv(v)' /\ StageInv(v)'
    BY <1>2, <1>3, <1>5, <2>2, <2>3
    DEF EnclaveInv, SameTask, TaskInv, OutcomeInv, LostInv, StageInv, Making
  <2> QED
    BY <2>2, <2>4 DEF EnclaveInv, Holds
<1>6. ASSUME EngineDies("down"), \E gone \in SUBSET Starting : RemoveApics(gone)
      PROVE  Holds(v)
  <2>1. PICK gone \in SUBSET Starting : RemoveApics(gone)
    BY <1>6
  <2>2. v \notin relaunch'
    BY <1>6 DEF EngineDies
  <2>3. /\ HolderInv(v)' /\ TrackerInv(v)' /\ AddressInv(v)' /\ (Behind(v) => Behind(v)')
        /\ network'[v] = network[v] /\ volume'[v] = volume[v]
        /\ apic'[v] = apic[v] \/ apic'[v] = "none"
    BY <1>1, <2>1, <2>2, ApicsGo
  <2>4. task'[v] = "none" /\ at'[v] = "idle" /\ outcome'[v] = outcome[v]
    BY <1>3, <1>6 DEF EngineDies
  <2>5. TaskInv(v)' /\ OutcomeInv(v)' /\ LostInv(v)' /\ StageInv(v)'
    BY <1>2, <1>3, <2>2, <2>3, <2>4
    DEF EnclaveInv, TaskInv, OutcomeInv, LostInv, StageInv, Making
  <2> QED
    BY <2>3, <2>5 DEF EnclaveInv, Holds
<1> QED
  BY <1>4, <1>5, <1>6 DEF EngineBoots

LEMMA ConnectProxyKeeps ==
  ASSUME All, ConnectProxy, NEW v \in Enclaves
  PROVE  Holds(v)
<1>1. /\ UNCHANGED <<network, lingering, volume, apic, apicIp, service, serviceIp, proxy>>
      /\ UNCHANGED <<taskVars, engineVars, commands, aggregator, taken>> /\ cli = "connect"
  BY DEF ConnectProxy
<1>2. /\ \A w \in Enclaves : EnclaveInv(w) /\ task[w] \in Tasks
      /\ holder \in [Enclaves -> Holders] /\ moved \in [Enclaves -> BOOLEAN]
  BY DEF All, Typed, TaskT, HolderT, TakenT
<1>3. \A w \in Enclaves : task[w] = "none" /\ at[w] = "idle" /\ w \notin relaunch
  BY <1>1, <1>2 DEF All, CliInv, EnclaveInv, TaskInv, Tasks, EngineRuns
<1>4. CASE UNCHANGED <<holder, moved>>
  BY <1>1, <1>4, NothingMoves DEF HostVars, WorkVars, taskVars, engineVars
<1>5. ASSUME NEW u \in Enclaves, Has(u, "proxy") = {}, NEW a \in Has(u, "free"),
             holder' = [holder EXCEPT ![u] = With(u, "proxy", a)],
             moved' = [moved EXCEPT ![u] = @ \/ Containers(u) # {}]
      PROVE  Holds(v)
  <2>1. Comes(u, "proxy", a) /\ OthersHold(u)
    BY <1>5, WithEffect DEF All, Typed, Has
  <2>2. CASE v # u
    <3>1. SameHost(v) /\ SameTask(v)
      BY <1>1, <1>2, <1>5, <2>1, <2>2 DEF SameHost, SameTask, OthersHold, taskVars
    <3> QED
      BY <1>1, <3>1, Frame DEF All, engineVars
  <2>3. CASE v = u
    <3>1. /\ Moves(u, "none", "idle", outcome[u]) /\ Engine(u) /\ u \notin relaunch
          /\ Net(u, network[u], volume[u]) /\ Apic(u, apic[u], apicIp[u])
          /\ Serves(u, service[u], serviceIp[u]) /\ taken'[u] = taken[u]
          /\ moved'[u] = (moved[u] \/ apic[u] # "none" \/ service[u] # "none")
      BY <1>1, <1>2, <1>3, <1>5
      DEF Moves, Engine, Net, Apic, Serves, taskVars, engineVars, Containers
    <3>2. /\ Has(u, "gateway")' = Has(u, "gateway") /\ Has(u, "apic")' = Has(u, "apic")
          /\ Has(u, "service")' = Has(u, "service") /\ a \in Has(u, "proxy")'
      BY <2>1 DEF Comes, Has
    <3>3. TaskInv(u)' /\ OutcomeInv(u)' /\ LostInv(u)' /\ StageInv(u)'
      BY <1>2, <1>3, <3>1
      DEF EnclaveInv, Moves, Engine, Net, Apic, Serves, TaskInv, OutcomeInv, LostInv, StageInv,
           Making
    <3>4. HolderInv(u)' /\ TrackerInv(u)'
      BY <1>2, <3>1, <3>2 DEF EnclaveInv, Net, Apic, Serves, HolderInv, TrackerInv, Running
    <3>5. AddressInv(u)'
      BY <1>2, <3>1, <3>2 DEF EnclaveInv, Net, Apic, Serves, Engine, AddressInv, Lives
    <3> QED
      BY <2>3, <3>2, <3>3, <3>4, <3>5 DEF EnclaveInv, Holds, Behind
  <2> QED
    BY <2>2, <2>3
<1> QED
  BY <1>4, <1>5 DEF ConnectProxy, Unconnected, Connect

-----------------------------------------------------------------------------
(* A step that is about one enclave leaves the CLI and what it manages     *)
(* alone; the engine at most dies in it, and at most one call fails.       *)
EnclaveStep(u) == TaskStep(u) \/ DockerStep(u) \/ ScriptStep(u) \/ Request(u) \/ Relaunch(u)
Elsewhere ==
  /\ UNCHANGED <<cli, goal, commands, aggregator, proxy>> /\ engine' \in {engine, "down"}
  /\ UNCHANGED faults \/ Fault

LEMMA EnclaveStepElsewhere ==
  ASSUME NEW u \in Enclaves, EnclaveStep(u)
  PROVE  Elsewhere
<1>1. CASE ListNetworks(u)
  BY <1>1 DEF ListNetworks, Fails, hostVars, cliVars, Elsewhere
<1>2. CASE SubnetTaken(u)
  BY <1>2 DEF SubnetTaken, Fails, hostVars, engineVars, cliVars, Elsewhere
<1>3. CASE NetworkMade(u)
  BY <1>3 DEF NetworkMade, Fails, engineVars, cliVars, Elsewhere
<1>4. CASE NetworkFails(u)
  BY <1>4 DEF NetworkFails, Fails, engineVars, cliVars, Elsewhere
<1>5. CASE CreateVolume(u)
  BY <1>5 DEF CreateVolume, Fails, engineVars, cliVars, Elsewhere
<1>6. CASE PlugProxy(u)
  BY <1>6 DEF PlugProxy, Fails, engineVars, cliVars, Elsewhere
<1>7. CASE UndoVolume(u)
  BY <1>7 DEF UndoVolume, Fails, engineVars, cliVars, Elsewhere
<1>8. CASE UndoNetwork(u)
  BY <1>8 DEF UndoNetwork, Fails, engineVars, cliVars, Elsewhere
<1>9. CASE LaunchApic(u)
  BY <1>9 DEF LaunchApic, Fails, EngineDies, LaunchFails, engineVars, cliVars, Elsewhere
<1>10. CASE ApicAnswers(u)
  BY <1>10 DEF ApicAnswers, Fails, hostVars, cliVars, Elsewhere
<1>11. CASE ApicIsGivenUp(u)
  BY <1>11 DEF ApicIsGivenUp, Fails, EngineDies, LaunchFails, engineVars, cliVars, Elsewhere
<1>12. CASE Gather(u)
  BY <1>12 DEF Gather, Fails, hostVars, engineVars, cliVars, Elsewhere
<1>13. CASE DestroyContainers(u)
  BY <1>13 DEF DestroyContainers, Fails, engineVars, cliVars, Elsewhere
<1>14. CASE DestroyVolumes(u)
  BY <1>14 DEF DestroyVolumes, Fails, engineVars, cliVars, Elsewhere
<1>15. CASE DisconnectContainers(u)
  BY <1>15 DEF DisconnectContainers, Fails, engineVars, cliVars, Elsewhere
<1>16. CASE DestroyNetwork(u)
  BY <1>16 DEF DestroyNetwork, Fails, engineVars, cliVars, Elsewhere
<1>17. CASE StopContainers(u)
  BY <1>17 DEF StopContainers, Fails, engineVars, cliVars, Elsewhere
<1>18. CASE Relaunch(u)
  BY <1>18 DEF Relaunch, Fails, hostVars, engineVars, cliVars, Elsewhere
<1>19. CASE ApicBoots(u)
  BY <1>19 DEF ApicBoots, Fails, engineVars, cliVars, Elsewhere
<1>20. CASE ApicDies(u)
  BY <1>20 DEF ApicDies, Fails, engineVars, cliVars, Elsewhere
<1>21. CASE ApicRestarts(u)
  BY <1>21 DEF ApicRestarts, Fails, engineVars, cliVars, Elsewhere
<1>22. CASE StartService(u)
  BY <1>22 DEF StartService, Fails, engineVars, cliVars, Elsewhere
<1>23. CASE StopService(u)
  BY <1>23 DEF StopService, Fails, engineVars, cliVars, Elsewhere
<1>24. CASE StartAgain(u)
  BY <1>24 DEF StartAgain, Fails, engineVars, cliVars, Elsewhere
<1>25. CASE BeginCreate(u)
  BY <1>25 DEF BeginCreate, Fails, hostVars, engineVars, cliVars, Elsewhere
<1>26. CASE BeginDestroy(u)
  BY <1>26 DEF BeginDestroy, Fails, hostVars, engineVars, cliVars, Elsewhere
<1>27. CASE BeginStop(u)
  BY <1>27 DEF BeginStop, Fails, hostVars, engineVars, cliVars, Elsewhere
<1> QED
  BY <1>1, <1>2, <1>3, <1>4, <1>5, <1>6, <1>7, <1>8, <1>9, <1>10, <1>11, <1>12, <1>13, <1>14,
     <1>15, <1>16, <1>17, <1>18, <1>19, <1>20, <1>21, <1>22, <1>23, <1>24, <1>25, <1>26,
     <1>27 DEF EnclaveStep, TaskStep, DockerStep, ScriptStep, Request

LEMMA EnclaveStepTyped ==
  ASSUME All, NEW u \in Enclaves, EnclaveStep(u)
  PROVE  Typed'
<1>1. Typed /\ HolderInv(u)
  BY DEF All, EnclaveInv
<1> QED
  BY <1>1, ListNetworksTyped, SubnetTakenTyped, NetworkMadeTyped, NetworkFailsTyped,
       CreateVolumeTyped, PlugProxyTyped, UndoVolumeTyped, UndoNetworkTyped, LaunchApicTyped,
       ApicAnswersTyped, ApicIsGivenUpTyped, GatherTyped, DestroyContainersTyped,
       DestroyVolumesTyped, DisconnectContainersTyped, DestroyNetworkTyped, StopContainersTyped,
       RelaunchTyped, ApicBootsTyped, ApicDiesTyped, ApicRestartsTyped, StartServiceTyped,
       StopServiceTyped, StartAgainTyped, BeginCreateTyped, BeginDestroyTyped, BeginStopTyped
  DEF EnclaveStep, TaskStep, DockerStep, ScriptStep, Request

LEMMA EnclaveStepKeeps ==
  ASSUME All, NEW u \in Enclaves, EnclaveStep(u), NEW v \in Enclaves
  PROVE  Holds(v)
<1>1. CASE Alone(u) /\ Holds(u)
  BY <1>1, AloneHolds
<1>2. CASE LaunchApic(u)
  BY <1>2, LaunchApicKeeps
<1>3. CASE ApicIsGivenUp(u)
  BY <1>3, ApicIsGivenUpKeeps
<1> QED
  BY <1>1, <1>2, <1>3, ListNetworksKeeps, SubnetTakenKeeps, NetworkMadeKeeps, NetworkFailsKeeps,
       CreateVolumeKeeps, PlugProxyKeeps, UndoVolumeKeeps, UndoNetworkKeeps, ApicAnswersKeeps,
       GatherKeeps, DestroyContainersKeeps, DestroyVolumesKeeps, DisconnectContainersKeeps,
       DestroyNetworkKeeps, StopContainersKeeps, RelaunchKeeps, ApicBootsKeeps, ApicDiesKeeps,
       ApicRestartsKeeps, StartServiceKeeps, StopServiceKeeps, StartAgainKeeps,
       BeginCreateKeeps, BeginDestroyKeeps, BeginStopKeeps
  DEF EnclaveStep, TaskStep, DockerStep, ScriptStep, Request

(* The other steps: the engine's own, the CLI's, and Docker's.             *)
OtherStep ==
  EngineBoots \/ Relaunched \/ EngineCrashes \/ CliStep \/ Command \/ CliDies \/ SubnetsFreed

LEMMA OtherStepTyped ==
  ASSUME Typed, OtherStep
  PROVE  Typed'
  BY EngineBootsTyped, RelaunchedTyped, EngineCrashesTyped, CommandTyped, StatusTyped,
       MakeAggregatorTyped, MakeProxyTyped, ConnectProxyTyped, StartEngineTyped,
       EngineAnswersTyped, EngineIsGivenUpTyped, UndoProxyTyped, UndoAggregatorTyped,
       KillEngineTyped, ReplaceProxyTyped, StopAggregatorTyped, DropAggregatorTyped,
       StopProxyTyped, DropProxyTyped, RemoveEngineTyped, CliDiesTyped,
       SubnetsFreedTyped
  DEF OtherStep, CliStep

(* Only who stops or removes the proxy takes an enclave from behind it.    *)
LEMMA OtherStepKeeps ==
  ASSUME All, OtherStep, NEW v \in Enclaves
  PROVE  EnclaveInv(v)' /\ (Holds(v) \/ cli \in Dropping)
<1>1. Holds(v) => EnclaveInv(v)'
  BY DEF Holds
<1>2. CASE Command
  BY <1>1, <1>2, NothingMoves DEF Command, hostVars, taskVars, engineVars, HostVars, WorkVars
<1>3. CASE Status
  BY <1>1, <1>3, NothingMoves DEF Status, hostVars, taskVars, engineVars, HostVars, WorkVars
<1>4. CASE MakeAggregator
  BY <1>1, <1>4, NothingMoves DEF MakeAggregator, taskVars, engineVars, HostVars, WorkVars
<1>5. CASE MakeProxy
  BY <1>1, <1>5, NothingMoves DEF MakeProxy, taskVars, engineVars, HostVars, WorkVars
<1>6. CASE EngineAnswers
  BY <1>1, <1>6, NothingMoves DEF EngineAnswers, hostVars, taskVars, engineVars, HostVars,
     WorkVars
<1>7. CASE UndoAggregator
  BY <1>1, <1>7, NothingMoves DEF UndoAggregator, taskVars, engineVars, HostVars, WorkVars
<1>8. CASE DropAggregator
  BY <1>1, <1>8, NothingMoves DEF DropAggregator, taskVars, engineVars, HostVars, WorkVars
<1>9. CASE CliDies
  BY <1>1, <1>9, NothingMoves DEF CliDies, taskVars, engineVars, HostVars, WorkVars
<1>10. CASE SubnetsFreed
  BY <1>1, <1>10, NothingMoves DEF SubnetsFreed, taskVars, engineVars, SubnetIsFreed, HostVars,
     WorkVars
<1>11. CASE Relaunched
  <2>1. UNCHANGED <<HostVars, WorkVars, relaunch>>
    BY <1>11 DEF Relaunched, hostVars, taskVars, HostVars, WorkVars
  <2>2. engine = "relaunching" /\ relaunch = {} /\ engine' = "up"
    BY <1>11 DEF Relaunched
  <2> QED
    BY <1>1, <2>1, <2>2, EngineMoves
<1>12. CASE StartEngine
  <2>1. UNCHANGED <<HostVars, WorkVars, relaunch>>
    BY <1>12 DEF StartEngine, taskVars, HostVars, WorkVars
  <2>2. ~EngineRuns
    BY <1>12 DEF StartEngine, All, CliInv
  <2> QED
    BY <1>1, <2>1, <2>2, EngineMoves
<1>13. CASE RemoveEngine
  <2>1. UNCHANGED <<HostVars, WorkVars, relaunch>>
    BY <1>13 DEF RemoveEngine, taskVars, HostVars, WorkVars
  <2>2. ~EngineRuns
    BY <1>13 DEF RemoveEngine
  <2> QED
    BY <1>1, <2>1, <2>2, EngineMoves
<1>14. CASE EngineCrashes
  <2>1. UNCHANGED HostVars
    BY <1>14 DEF EngineCrashes, HostVars
  <2>2. EngineDies("down") \/ UNCHANGED <<WorkVars, engine, relaunch>>
    BY <1>14 DEF EngineCrashes, WorkVars
  <2> QED
    BY <1>1, <2>1, <2>2, EngineStops, NothingMoves
<1>15. CASE EngineIsGivenUp
  <2>1. UNCHANGED HostVars
    BY <1>15 DEF EngineIsGivenUp, HostVars, taskVars, engineVars
  <2>2. EngineDies("down") \/ UNCHANGED <<WorkVars, engine, relaunch>>
    BY <1>15 DEF EngineIsGivenUp, WorkVars, taskVars, engineVars
  <2> QED
    BY <1>1, <2>1, <2>2, EngineStops, NothingMoves
<1>16. CASE KillEngine
  <2>1. UNCHANGED HostVars
    BY <1>16 DEF KillEngine, HostVars, taskVars, engineVars
  <2>2. EngineDies("down") \/ UNCHANGED <<WorkVars, engine, relaunch>>
    BY <1>16 DEF KillEngine, WorkVars, taskVars, engineVars
  <2> QED
    BY <1>1, <2>1, <2>2, EngineStops, NothingMoves
<1>17. CASE UndoProxy
  <2>1. UNCHANGED <<network, volume, apic, apicIp, service, serviceIp, taken, moved, WorkVars, engine, relaunch>>
    BY <1>17 DEF UndoProxy, WorkVars, taskVars, engineVars
  <2>2. UnplugProxy \/ UNCHANGED holder
    BY <1>17 DEF UndoProxy, RemoveProxyContainer
  <2>3. CASE UnplugProxy
    BY <1>17, <2>1, <2>3, ProxyGoes DEF UndoProxy, Dropping
  <2>4. CASE UNCHANGED holder
    BY <1>1, <2>1, <2>4, NothingMoves DEF HostVars
  <2> QED
    BY <2>2, <2>3, <2>4
<1>18. CASE DropProxy
  <2>1. UNCHANGED <<network, volume, apic, apicIp, service, serviceIp, taken, moved, WorkVars, engine, relaunch>>
    BY <1>18 DEF DropProxy, WorkVars, taskVars, engineVars
  <2>2. UnplugProxy \/ UNCHANGED holder
    BY <1>18 DEF DropProxy, RemoveProxyContainer
  <2>3. CASE UnplugProxy
    BY <1>18, <2>1, <2>3, ProxyGoes DEF DropProxy, Dropping
  <2>4. CASE UNCHANGED holder
    BY <1>1, <2>1, <2>4, NothingMoves DEF HostVars
  <2> QED
    BY <2>2, <2>3, <2>4
<1>21. CASE StopProxy
  <2>1. UNCHANGED <<network, volume, apic, apicIp, service, serviceIp, taken, moved, WorkVars, engine, relaunch>>
    BY <1>21 DEF StopProxy, WorkVars, taskVars, engineVars
  <2>2. UnplugProxy \/ UNCHANGED holder
    BY <1>21 DEF StopProxy, StopProxyContainer
  <2>3. CASE UnplugProxy
    BY <1>21, <2>1, <2>3, ProxyGoes DEF StopProxy, Dropping
  <2>4. CASE UNCHANGED holder
    BY <1>1, <2>1, <2>4, NothingMoves DEF HostVars
  <2> QED
    BY <2>2, <2>3, <2>4
<1>22. CASE ReplaceProxy
  <2>1. UNCHANGED <<network, volume, apic, apicIp, service, serviceIp, taken, moved, WorkVars, engine, relaunch>>
    BY <1>22 DEF ReplaceProxy, WorkVars, taskVars, engineVars
  <2>2. UnplugProxy \/ UNCHANGED holder
    BY <1>22 DEF ReplaceProxy, StopProxyContainer, RemoveProxyContainer
  <2>3. CASE UnplugProxy
    BY <1>22, <2>1, <2>3, ProxyGoes DEF ReplaceProxy, Dropping
  <2>4. CASE UNCHANGED holder
    BY <1>1, <2>1, <2>4, NothingMoves DEF HostVars
  <2> QED
    BY <2>2, <2>3, <2>4
<1>23. CASE StopAggregator
  BY <1>1, <1>23, NothingMoves DEF StopAggregator, taskVars, engineVars, HostVars, WorkVars
<1>19. CASE EngineBoots
  BY <1>1, <1>19, EngineBootsKeeps
<1>20. CASE ConnectProxy
  BY <1>1, <1>20, ConnectProxyKeeps
<1> QED
  BY <1>2, <1>3, <1>4, <1>5, <1>6, <1>7, <1>8, <1>9, <1>10, <1>11, <1>12, <1>13, <1>14, <1>15,
     <1>16, <1>17, <1>18, <1>19, <1>20, <1>21, <1>22, <1>23 DEF OtherStep, CliStep

LEMMA NextIs == Next => OtherStep \/ \E u \in Enclaves : EnclaveStep(u)
  BY DEF Next, EngineStep, OtherStep, EnclaveStep

(* The CLI goes towards an engine only when none runs.                     *)
LEMMA CliKeeps ==
  ASSUME CliInv, Next
  PROVE  CliInv'
<1>1. CASE \E u \in Enclaves : EnclaveStep(u)
  BY <1>1, EnclaveStepElsewhere DEF Elsewhere, CliInv, EngineRuns
<1>2. CASE EngineBoots
  BY <1>2 DEF EngineBoots, EngineDies, cliVars, CliInv, EngineRuns
<1>3. CASE Relaunched
  BY <1>3 DEF Relaunched, cliVars, CliInv, EngineRuns
<1>4. CASE EngineCrashes
  BY <1>4 DEF EngineCrashes, EngineDies, cliVars, CliInv, EngineRuns
<1>5. CASE Command
  BY <1>5 DEF Command, engineVars, CliInv, EngineRuns
<1>6. CASE Status
  BY <1>6 DEF Status, CliGoes, engineVars, CliInv, EngineRuns
<1>7. CASE MakeAggregator
  BY <1>7 DEF MakeAggregator, CliGoes, engineVars, CliInv, EngineRuns
<1>8. CASE MakeProxy
  BY <1>8 DEF MakeProxy, CliGoes, engineVars, CliInv, EngineRuns
<1>9. CASE ConnectProxy
  BY <1>9 DEF ConnectProxy, CliGoes, engineVars, CliInv, EngineRuns
<1>10. CASE StartEngine
  BY <1>10 DEF StartEngine, CliGoes, CliInv, EngineRuns
<1>11. CASE EngineAnswers
  BY <1>11 DEF EngineAnswers, CliGoes, engineVars, CliInv, EngineRuns
<1>12. CASE EngineIsGivenUp
  BY <1>12 DEF EngineIsGivenUp, EngineDies, CliGoes, engineVars, CliInv, EngineRuns
<1>13. CASE UndoProxy
  BY <1>13 DEF UndoProxy, CliGoes, engineVars, CliInv, EngineRuns
<1>14. CASE UndoAggregator
  BY <1>14 DEF UndoAggregator, CliGoes, engineVars, CliInv, EngineRuns
<1>15. CASE KillEngine
  BY <1>15 DEF KillEngine, EngineDies, engineVars, CliInv, EngineRuns
<1>16. CASE DropAggregator
  BY <1>16 DEF DropAggregator, CliGoes, engineVars, CliInv, EngineRuns
<1>17. CASE DropProxy
  BY <1>17 DEF DropProxy, HelpersGone, CliGoes, engineVars, CliInv, EngineRuns
<1>21. CASE StopProxy
  BY <1>21 DEF StopProxy, HelpersGone, CliGoes, engineVars, CliInv, EngineRuns
<1>22. CASE StopAggregator
  BY <1>22 DEF StopAggregator, CliGoes, engineVars, CliInv, EngineRuns
<1>23. CASE ReplaceProxy
  BY <1>23 DEF ReplaceProxy, CliGoes, engineVars, CliInv, EngineRuns
<1>18. CASE RemoveEngine
  BY <1>18 DEF RemoveEngine, CliGoes, CliInv, EngineRuns
<1>19. CASE CliDies
  BY <1>19 DEF CliDies, CliGoes, engineVars, CliInv, EngineRuns
<1>20. CASE SubnetsFreed
  BY <1>20 DEF SubnetsFreed, engineVars, cliVars, CliInv, EngineRuns
<1> QED
  BY NextIs, <1>1, <1>2, <1>3, <1>4, <1>5, <1>6, <1>7, <1>8, <1>9, <1>10, <1>11, <1>12, <1>13,
     <1>14, <1>15, <1>16, <1>17, <1>18, <1>19, <1>20, <1>21, <1>22, <1>23 DEF OtherStep, CliStep

LEMMA Stutters ==
  ASSUME All, UNCHANGED vars
  PROVE  All' /\ (HelperInv => HelperInv')
<1>1. UNCHANGED <<HostVars, WorkVars, engine, relaunch>>
  BY DEF vars, hostVars, taskVars, engineVars, cliVars, HostVars, WorkVars
<1>2. \A v \in Enclaves : Holds(v)
  BY <1>1, NothingMoves
<1>3. Typed'
  BY DEF All, Typed, HolderT, HostT, ContT, FaultT, PickT, TaskT, TriesT, SeenT, GateT, TakenT,
     EngineT, CliT, vars, hostVars, taskVars, engineVars, cliVars
<1>4. CliInv'
  BY DEF All, CliInv, EngineRuns, vars, engineVars, cliVars
<1>5. HelperInv => HelperInv'
  BY DEF HelperInv, EngineRuns, Has, vars, hostVars, engineVars, cliVars
<1> QED
  BY <1>2, <1>3, <1>4, <1>5 DEF All, Holds

LEMMA AllInit == Init => All /\ HelperInv
<1> SUFFICES ASSUME Init PROVE All /\ HelperInv
  OBVIOUS
<1>1. HolderT /\ HostT /\ ContT /\ FaultT
  <2>1. [a \in Address |-> "free"] \in Holders
    BY DEF Holders
  <2>2. HolderT
    BY <2>1 DEF Init, InitHost, HolderT
  <2>3. HostT
    BY DEF Init, InitHost, HostT, Helper
  <2>4. ContT /\ FaultT
    BY DEF Init, InitHost, ContT, FaultT
  <2> QED
    BY <2>2, <2>3, <2>4
<1>2. PickT /\ TaskT /\ TriesT /\ SeenT /\ GateT /\ TakenT
  BY DEF Init, PickT, Picks, TaskT, Tasks, Places, Outcomes, TriesT, SeenT, GateT, TakenT
<1>3. EngineT /\ CliT
  <2>1. /\ engine = "none" /\ relaunch = {} /\ aggregator = "none" /\ cli = "idle"
        /\ goal = "none" /\ commands = 0
    BY DEF Init
  <2>2. EngineT
    BY <2>1 DEF EngineT
  <2>3. CliT
    <3>1. commands \in 0 .. MaxCommands
      BY <2>1
    <3>2. aggregator \in Helper
      BY <2>1 DEF Helper
    <3> QED
      BY <2>1, <3>1, <3>2 DEF CliT
  <2> QED
    BY <2>2, <2>3
<1>4. CliInv /\ HelperInv
  BY DEF Init, InitHost, CliInv, HelperInv, Dropping, EngineRuns
<1>5. ASSUME NEW v \in Enclaves PROVE EnclaveInv(v)
  <2>1. TaskInv(v) /\ OutcomeInv(v) /\ StageInv(v) /\ LostInv(v)
    BY DEF Init, InitHost, TaskInv, OutcomeInv, StageInv, LostInv, Making, Removing
  <2>2. HolderInv(v) /\ TrackerInv(v) /\ AddressInv(v)
    BY DEF Init, InitHost, HolderInv, TrackerInv, AddressInv, Has
  <2> QED
    BY <2>1, <2>2 DEF EnclaveInv
<1> QED
  BY <1>1, <1>2, <1>3, <1>4, <1>5 DEF All, Typed

LEMMA AllNext == All /\ [Next]_vars => All'
<1> SUFFICES ASSUME All, [Next]_vars PROVE All'
  OBVIOUS
<1>1. CASE UNCHANGED vars
  BY <1>1, Stutters
<1>2. ASSUME NEW u \in Enclaves, EnclaveStep(u) PROVE Typed' /\ \A v \in Enclaves : EnclaveInv(v)'
  BY <1>2, EnclaveStepTyped, EnclaveStepKeeps DEF Holds
<1>3. ASSUME OtherStep PROVE Typed' /\ \A v \in Enclaves : EnclaveInv(v)'
  <2>1. Typed'
    BY <1>3, OtherStepTyped DEF All
  <2>2. \A v \in Enclaves : EnclaveInv(v)'
    BY <1>3, OtherStepKeeps
  <2> QED
    BY <2>1, <2>2
<1>4. CASE Next
  BY <1>2, <1>3, <1>4, NextIs, CliKeeps DEF All
<1> QED
  BY <1>1, <1>4

-----------------------------------------------------------------------------
(* HelperInv has a part about the CLI's helpers, and one about every       *)
(* enclave.                                                                *)
CliHelper ==
  /\ cli \in Dropping => ~EngineRuns
  /\ cli \in {"proxy", "replaceProxy", "connect", "container"} => aggregator # "none"
  /\ cli \in {"connect", "container"} \/ EngineRuns => proxy # "none" /\ aggregator # "none"
  /\ faults = 0 =>
       /\ cli # "replaceProxy"
       /\ proxy = "stopped" => cli = "dropProxy"
       /\ aggregator = "stopped" => cli = "dropAggregator"
InUse == (EngineRuns \/ cli = "container") /\ proxy = "up"

LEMMA HelperParts ==
  HelperInv <=> CliHelper /\ (InUse => \A u \in Enclaves : Behind(u))
  BY DEF HelperInv, CliHelper, InUse, Behind

(* As long as a running engine can be killed, its helpers stay for as long *)
(* as it does.                                                             *)
LEMMA HelperKeeps ==
  ASSUME "kill engine" \notin FailingCalls, All, HelperInv, Next
  PROVE  HelperInv'
<1>0. /\ faults \in Nat /\ (Fault => faults' # 0)
      /\ proxy \in Helper /\ aggregator \in Helper
  BY FaultsCount DEF All, Typed, HostT, CliT
<1>1. CliHelper /\ CliInv /\ (InUse => \A u \in Enclaves : Behind(u))
  BY HelperParts DEF All
<1>2. CASE \E u \in Enclaves : EnclaveStep(u)
  <2>1. Elsewhere /\ \A v \in Enclaves : Holds(v)
    BY <1>2, EnclaveStepElsewhere, EnclaveStepKeeps
  <2>2. CliHelper' /\ (InUse' => InUse)
    BY <1>0, <1>1, <2>1 DEF Elsewhere, CliHelper, InUse, EngineRuns
  <2>3. (HelperInv <=> CliHelper /\ (InUse => \A u \in Enclaves : Behind(u)))'
    BY DEF HelperInv, CliHelper, InUse, Behind
  <2> QED
    BY <1>1, <2>1, <2>2, <2>3 DEF Holds
<1>3. ASSUME OtherStep PROVE CliHelper' /\ (InUse' => InUse \/ (cli = "connect" /\ Unconnected = {} /\ UNCHANGED <<apic, holder>>))
  <2>1. CASE EngineBoots
    BY <1>0, <1>1, <2>1 DEF Dropping, EngineBoots, EngineDies, Fails, cliVars, CliHelper,
       CliInv, InUse,
       EngineRuns
  <2>2. CASE Relaunched
    BY <1>0, <1>1, <2>2 DEF Dropping, Relaunched, hostVars, cliVars, CliHelper, CliInv, InUse,
       EngineRuns
  <2>3. CASE EngineCrashes
    BY <1>0, <1>1, <2>3 DEF Dropping, EngineCrashes, EngineDies, cliVars, CliHelper, CliInv,
       InUse, EngineRuns
  <2>4. CASE Command
    BY <1>0, <1>1, <2>4 DEF Dropping, Command, hostVars, engineVars, CliHelper, CliInv, InUse,
       EngineRuns
  <2>5. CASE Status
    BY <1>0, <1>1, <2>5 DEF Dropping, Status, CliGoes, hostVars, engineVars, CliHelper, CliInv,
       InUse, EngineRuns
  <2>6. CASE MakeAggregator
    BY <1>0, <1>1, <2>6 DEF Dropping, MakeAggregator, Kept, LeftBy, Helper, CliGoes, Fails,
       engineVars, CliHelper, CliInv, InUse,
       EngineRuns
  <2>7. CASE MakeProxy
    BY <1>0, <1>1, <2>7 DEF Dropping, MakeProxy, Kept, LeftBy, Helper, CliGoes, Fails,
       engineVars, CliHelper, CliInv, InUse, EngineRuns
  <2>8. CASE ConnectProxy
    BY <1>0, <1>1, <2>8 DEF Dropping, ConnectProxy, AllConnected, CliGoes, Fails, engineVars,
       CliHelper, CliInv, InUse,
       EngineRuns
  <2>9. CASE StartEngine
    BY <1>0, <1>1, <2>9 DEF Dropping, StartEngine, CliGoes, Fails, CliHelper, CliInv, InUse,
       EngineRuns
  <2>10. CASE EngineAnswers
    BY <1>0, <1>1, <2>10 DEF Dropping, EngineAnswers, CliGoes, hostVars, engineVars, CliHelper,
       CliInv, InUse,
       EngineRuns
  <2>11. CASE EngineIsGivenUp
    BY <1>0, <1>1, <2>11 DEF Dropping, EngineIsGivenUp, EngineDies, CliGoes, Fails, engineVars,
       CliHelper,
       CliInv, InUse, EngineRuns
  <2>12. CASE UndoProxy
    BY <1>0, <1>1, <2>12 DEF Dropping, UndoProxy, RemoveProxyContainer, CliGoes, Fails,
       engineVars, CliHelper, CliInv,
       InUse, EngineRuns
  <2>13. CASE UndoAggregator
    BY <1>0, <1>1, <2>13 DEF Dropping, UndoAggregator, CliGoes, Fails, engineVars, CliHelper,
       CliInv, InUse,
       EngineRuns
  <2>14. CASE KillEngine
    BY <1>0, <1>1, <2>14 DEF Dropping, KillEngine, EngineDies, Fails, engineVars, CliHelper,
       CliInv, InUse,
       EngineRuns
  <2>15. CASE DropAggregator
    BY <1>0, <1>1, <2>15 DEF Dropping, DropAggregator, CliGoes, Fails, engineVars, CliHelper,
       CliInv, InUse,
       EngineRuns
  <2>16. CASE DropProxy
    BY <1>0, <1>1, <2>16 DEF Dropping, DropProxy, RemoveProxyContainer, HelpersGone, CliGoes,
       Fails, engineVars, CliHelper, CliInv,
       InUse, EngineRuns
  <2>20. CASE StopProxy
    BY <1>0, <1>1, <2>20 DEF Dropping, StopProxy, StopProxyContainer, HelpersGone, CliGoes,
       Fails, engineVars, CliHelper, CliInv,
       InUse, EngineRuns
  <2>21. CASE ReplaceProxy
    BY <1>0, <1>1, <2>21 DEF Dropping, ReplaceProxy, StopProxyContainer, RemoveProxyContainer,
       CliGoes, Fails, engineVars, CliHelper, CliInv,
       InUse, EngineRuns
  <2>22. CASE StopAggregator
    BY <1>0, <1>1, <2>22 DEF Dropping, StopAggregator, CliGoes, Fails, engineVars, CliHelper,
       CliInv,
       InUse, EngineRuns
  <2>17. CASE RemoveEngine
    BY <1>0, <1>1, <2>17 DEF Dropping, RemoveEngine, CliGoes, Fails, CliHelper, CliInv, InUse,
       EngineRuns
  <2>18. CASE CliDies
    BY <1>0, <1>1, <2>18 DEF Dropping, CliDies, CliGoes, engineVars, CliHelper, CliInv, InUse,
       EngineRuns
  <2>19. CASE SubnetsFreed
    <3>1. UNCHANGED <<engine, cli, proxy, aggregator, faults>>
      BY <2>19 DEF SubnetsFreed, SubnetIsFreed, engineVars, cliVars
    <3> QED
      BY <1>1, <3>1 DEF CliHelper, InUse, EngineRuns
  <2> QED
    BY <1>3, <2>1, <2>2, <2>3, <2>4, <2>5, <2>6, <2>7, <2>8, <2>9, <2>10, <2>11, <2>12, <2>13,
       <2>14, <2>15, <2>16, <2>17, <2>18, <2>19, <2>20, <2>21, <2>22 DEF OtherStep, CliStep
<1>4. ASSUME OtherStep, InUse', NEW v \in Enclaves PROVE Behind(v)'
  <2>1. CASE InUse
    <3>1. cli \notin Dropping
      BY <1>1, <2>1 DEF CliHelper, InUse, Dropping
    <3>2. Holds(v)
      BY <1>4, <3>1, OtherStepKeeps
    <3> QED
      BY <1>1, <2>1, <3>2 DEF Holds
  <2>2. CASE cli = "connect" /\ Unconnected = {} /\ UNCHANGED <<apic, holder>>
    BY <2>2 DEF All, EnclaveInv, LostInv, Behind, Unconnected, Has
  <2> QED
    BY <1>3, <1>4, <2>1, <2>2
<1>5. (HelperInv <=> CliHelper /\ (InUse => \A u \in Enclaves : Behind(u)))'
  BY DEF HelperInv, CliHelper, InUse, Behind
<1> QED
  BY <1>2, <1>3, <1>4, <1>5, NextIs

LEMMA TypedIs == Typed => TypeOK
<1> SUFFICES ASSUME Typed PROVE TypeOK
  OBVIOUS
<1>1. HostTypeOK
  BY DEF Typed, HolderT, Holders, HostT, ContT, FaultT, HostTypeOK
<1>2. /\ task \in [Enclaves -> Tasks] /\ at \in [Enclaves -> Places] /\ outcome \in [Enclaves -> Outcomes]
      /\ pick \in [Enclaves -> Picks] /\ tries \in [Enclaves -> 0 .. MaxTries - 1]
      /\ seen \in [Enclaves -> SUBSET {"apic", "service"}] /\ gateways \in [Subnet -> 0 .. NumAddresses]
      /\ taken \in [Enclaves -> SUBSET Address] /\ moved \in [Enclaves -> BOOLEAN] /\ EngineT /\ CliT
  BY DEF Typed, TaskT, PickT, TriesT, SeenT, GateT, TakenT
<1>3. relaunch \subseteq Enclaves
  BY <1>2 DEF EngineT
<1> QED
  BY <1>1, <1>2, <1>3 DEF TypeOK, Tasks, Places, Outcomes, Picks, EngineT, CliT

(* No address is held twice: the gateway, the proxy, the API container and *)
(* the service have four different ones, and the tracker knows them all.   *)
LEMMA NobodyWaits == All => NoAddressHeldTwice
<1> SUFFICES ASSUME All, NEW u \in Enclaves, ~moved[u], volume[u]
             PROVE  /\ apic[u] # "none" => IsFor(u, "apic", apicIp[u])
                    /\ service[u] # "none" => IsFor(u, "service", serviceIp[u])
                    /\ apic[u] = "up" /\ Untaken(u) # {} => holder[u][Least(Untaken(u))] = "free"
  BY DEF NoAddressHeldTwice
<1>1. HolderInv(u) /\ TrackerInv(u) /\ AddressInv(u)
  BY DEF All, EnclaveInv
<1>2. \A a \in Address : holder[u][a] \in {"free", "gateway", "proxy", "apic", "service"}
  BY DEF All, Typed, HolderT, Holders
<1>3. apic[u] # "none" => IsFor(u, "apic", apicIp[u])
  BY <1>1, <1>2 DEF HolderInv, AddressInv, Has, IsFor
<1>4. service[u] # "none" => IsFor(u, "service", serviceIp[u])
  BY <1>1, <1>2 DEF HolderInv, TrackerInv, AddressInv, Running, Has, IsFor
<1>5. ASSUME apic[u] = "up", Untaken(u) # {} PROVE holder[u][Least(Untaken(u))] = "free"
  <2>1. Least(Untaken(u)) \in Address \ taken[u]
    BY <1>5, LeastIsIn DEF Untaken
  <2>2. Has(u, "gateway") \cup Has(u, "proxy") \cup Has(u, "apic") \cup Has(u, "service") \subseteq taken[u]
    BY <1>1, <1>5 DEF HolderInv, TrackerInv, AddressInv, Lives
  <2> QED
    BY <1>2, <2>1, <2>2 DEF Has
<1> QED
  BY <1>3, <1>4, <1>5

-----------------------------------------------------------------------------
(* The theorems.                                                           *)
LEMMA AllAlways == Spec => []All
<1>1. Init => All
  BY AllInit
<1> QED
  BY <1>1, AllNext, PTL DEF Spec

(* The types, and that no address is held twice: as long as the proxy has  *)
(* kept its address, the API container, the service and the next service   *)
(* find theirs free, although Docker, the launcher and the tracker in the  *)
(* enclave's database each choose addresses without asking the others.     *)
THEOREM HostIsOK == Spec => []HostOK
<1>1. All => HostOK
  BY TypedIs, NobodyWaits DEF All, HostOK
<1> QED
  BY <1>1, AllAlways, PTL

(* Whatever calls fail and whenever the engine, a container or the CLI     *)
(* dies, an API container never outlives its network, nor does a volume    *)
(* unless the user was told to remove it by hand: what is left can be      *)
(* found and destroyed.                                                    *)
THEOREM NothingIsLost == Spec => []NothingLost
<1>1. All => NothingLost
  BY DEF All, EnclaveInv, LostInv, NothingLost
<1> QED
  BY <1>1, AllAlways, PTL

(* A creation that failed, none of its undoing calls having failed, has    *)
(* left nothing: the deferred functions run for every object made before   *)
(* the failure, and a failed launch destroys what was made.                *)
THEOREM CreationIsAllOrNothing == Spec => []CreationAllOrNothing
<1>1. All => CreationAllOrNothing
  BY DEF All, EnclaveInv, OutcomeInv, CreationAllOrNothing
<1> QED
  BY <1>1, AllAlways, PTL

(* While an engine is up and the CLI is idle, the logs aggregator and the  *)
(* proxy are there, they run if nothing has failed yet, and every API      *)
(* container is behind the proxy if it runs.  The assumption is that a     *)
(* running engine can be killed: when that call fails, StopEngines removes *)
(* the aggregator and the proxy all the same, and the engine goes on       *)
(* without them.                                                           *)
THEOREM EnclavesAreReachable ==
  ASSUME "kill engine" \notin FailingCalls
  PROVE  Spec => []EnclavesReachable
<1>1. Init => All /\ HelperInv
  BY AllInit
<1>2. All /\ HelperInv /\ [Next]_vars => (All /\ HelperInv)'
  BY AllNext, HelperKeeps, Stutters
<1>3. All /\ HelperInv => EnclavesReachable
  BY DEF All, Typed, HostT, CliT, Helper, HelperInv, EnclavesReachable, EngineRuns
<1> QED
  BY <1>1, <1>2, <1>3, PTL DEF Spec
=============================================================================
