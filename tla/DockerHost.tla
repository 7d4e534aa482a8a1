------------------------------ MODULE DockerHost ------------------------------
(***************************************************************************)
(* What the Docker daemon holds for the enclaves: a network, a data volume,*)
(* an API container and the services' containers of each, and the reverse  *)
(* proxy that is connected to every enclave's network.  The definitions    *)
(* here are single calls of the Docker manager; DockerEnclaves strings     *)
(* them together.                                                          *)
(***************************************************************************)
EXTENDS Naturals, FiniteSets

CONSTANTS
  Enclaves,
  NumSubnets,    \* the subnets the allocator may choose from are 1 .. NumSubnets
  NumAddresses,  \* the addresses of a subnet are 1 .. NumAddresses
  FailingCalls,  \* the Docker calls that may fail
  MaxFaults      \* bound on failed calls, crashes and interruptions

Subnet  == 1 .. NumSubnets
Address == 1 .. NumAddresses
None    == 0

(* A helper of the engine that was stopped, or never started, is found all *)
(* the same: stopped containers are listed too.                            *)
Helper == {"none", "up", "stopped"}

ASSUME HostAssumption ==
  NumSubnets \in Nat /\ NumAddresses \in Nat /\ MaxFaults \in Nat

VARIABLES
  network,    \* the subnet of the enclave's network
  holder,     \* which endpoint of the network has an address
  lingering,  \* subnets of deleted networks that Docker still counts as used
  volume,     \* does the enclave's data volume exist?
  apic,       \* the API container: "none", "boot", "up", "dead" or "stopped"
  apicIp,     \* the static address it was created with
  service,    \* the service's container: "none", "up" or "stopped"
  serviceIp,  \* the static address it was created with
  proxy,      \* the reverse proxy: "none", "up" or "stopped"
  faults      \* faults so far

hostVars == <<network, holder, lingering, volume, apic, apicIp, service, serviceIp, proxy, faults>>

InitHost ==
  /\ network = [u \in Enclaves |-> None]
  /\ holder = [u \in Enclaves |-> [a \in Address |-> "free"]]
  /\ lingering = {}
  /\ volume = [u \in Enclaves |-> FALSE]
  /\ apic = [u \in Enclaves |-> "none"] /\ apicIp = [u \in Enclaves |-> None]
  /\ service = [u \in Enclaves |-> "none"] /\ serviceIp = [u \in Enclaves |-> None]
  /\ proxy = "none"
  /\ faults = 0

HostTypeOK ==
  /\ network \in [Enclaves -> Subnet \cup {None}]
  /\ holder \in [Enclaves -> [Address -> {"free", "gateway", "proxy", "apic", "service"}]]
  /\ lingering \subseteq Subnet
  /\ volume \in [Enclaves -> BOOLEAN] /\ proxy \in Helper
  /\ apic \in [Enclaves -> {"none", "boot", "up", "dead", "stopped"}]
  /\ service \in [Enclaves -> {"none", "up", "stopped"}]
  /\ apicIp \in [Enclaves -> Address \cup {None}] /\ serviceIp \in [Enclaves -> Address \cup {None}]
  /\ faults \in 0 .. MaxFaults

(* A call of Docker that fails, or an accident.                            *)
Fault == faults < MaxFaults /\ faults' = faults + 1
Fails(call) == call \in FailingCalls /\ Fault

Has(u, who) == {a \in Address : holder[u][a] = who}
Least(S) == CHOOSE a \in S : \A b \in S : a <= b

(* The holders of u's addresses once the containers in who have left.      *)
Without(u, who) == [a \in Address |-> IF holder[u][a] \in who THEN "free" ELSE holder[u][a]]
With(u, who, a) == [holder[u] EXCEPT ![a] = who]

Running(u, who) == \/ who = "apic" /\ apic[u] \in {"boot", "up"}
                   \/ who = "service" /\ service[u] = "up"

(* The containers that carry the enclave's label, running or not.          *)
Containers(u) == {w \in {"apic", "service"} : \/ w = "apic" /\ apic[u] # "none"
                                              \/ w = "service" /\ service[u] # "none"}

-----------------------------------------------------------------------------
(* NetworkCreate: Docker refuses a subnet that another network has, or had *)
(* a few seconds ago.                                                      *)
Overlaps(s) == s \in lingering \/ \E v \in Enclaves : network[v] = s

CreateNetwork(u, s, gateway) ==
  /\ network' = [network EXCEPT ![u] = s]
  /\ holder' = [holder EXCEPT ![u] = [a \in Address |-> IF a = gateway THEN "gateway" ELSE "free"]]

(* NetworkRemove: refused while a running container is connected.          *)
Removable(u) == Has(u, "proxy") \cup Has(u, "apic") \cup Has(u, "service") = {}

RemoveNetwork(u) ==
  /\ network' = [network EXCEPT ![u] = None]
  /\ holder' = [holder EXCEPT ![u] = [a \in Address |-> "free"]]
  /\ lingering' = IF network[u] = None THEN lingering ELSE lingering \cup {network[u]}

SubnetIsFreed(s) ==
  /\ s \in lingering
  /\ lingering' = lingering \ {s}
  /\ UNCHANGED <<network, holder, volume, apic, apicIp, service, serviceIp, proxy, faults>>

(* NetworkConnect without an address: Docker chooses a free one for a      *)
(* container that runs, and none for a stopped one.                        *)
Connectable(u) == network[u] # None /\ (proxy = "up" => Has(u, "free") # {})
Connect(u) ==
  \/ proxy = "up" /\ \E a \in Has(u, "free") : holder' = [holder EXCEPT ![u] = With(u, "proxy", a)]
  \/ proxy = "stopped" /\ UNCHANGED holder

(* A proxy that is stopped or removed gives back its addresses.            *)
UnplugProxy == holder' = [u \in Enclaves |-> Without(u, {"proxy"})]
StopProxyContainer   == proxy' = "stopped" /\ UnplugProxy
RemoveProxyContainer == proxy' = "none" /\ UnplugProxy

(* A container leaves the network when it stops or is removed.             *)
RemoveContainers(u, who) ==
  /\ holder' = [holder EXCEPT ![u] = Without(u, who)]
  /\ apic' = IF "apic" \in who THEN [apic EXCEPT ![u] = "none"] ELSE apic
  /\ service' = IF "service" \in who THEN [service EXCEPT ![u] = "none"] ELSE service
  /\ apicIp' = IF "apic" \in who THEN [apicIp EXCEPT ![u] = None] ELSE apicIp
  /\ serviceIp' = IF "service" \in who THEN [serviceIp EXCEPT ![u] = None] ELSE serviceIp

KillContainers(u, who) ==
  /\ holder' = [holder EXCEPT ![u] = Without(u, who)]
  /\ apic' = IF "apic" \in who /\ apic[u] # "none" THEN [apic EXCEPT ![u] = "stopped"] ELSE apic
  /\ service' = IF "service" \in who /\ service[u] = "up" THEN [service EXCEPT ![u] = "stopped"] ELSE service
=============================================================================
