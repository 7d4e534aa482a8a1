------------------------- MODULE ServiceNetworkProofs -------------------------
(***************************************************************************)
(* Proofs about ServiceNetwork, for any number of services, configs,       *)
(* addresses, goroutines, failures and crashes: what runs is registered,   *)
(* the registry is right, and every instruction is, seen from outside, one *)
(* step of Enclave.                                                        *)
(***************************************************************************)
EXTENDS ServiceNetwork, WellFoundedInduction, NaturalsInduction, TLAPS

USE ServicesAssumption, NetworkAssumption
    DEF ServicesAssumption, NetworkAssumption, Uuid, Ip

(* A service the way the steps of an add leave it: just registered, or     *)
(* started with the config that was asked for.                             *)
Fresh(n) == /\ Registered(n) /\ reg[n].status = "registered" /\ reg[n].config = NoConfig
            /\ cont[reg[n].uuid] = NoCont
RunsWanted(n) == Registered(n) /\ cont[reg[n].uuid] = [status |-> "running", config |-> want]
Deployed(n) == RunsWanted(n) /\ reg[n].status = "started" /\ reg[n].config = want

UpPhase  == op \in {"upRemove", "upReset", "upStart", "upMark"}
AddPhase == op \in {"register", "addStart", "addMark", "destroy", "unregister", "finish"}
OnePhase == op \in {"kill", "stopped", "delete", "start", "restarted"}

(* What the registry and the containers keep, whatever is going on.        *)
RegistryInv ==
  /\ \A n \in Names : Registered(n) => reg[n].uuid <= minted
  /\ \A m, n \in Names : m # n /\ Registered(m) /\ Registered(n) => reg[m].uuid # reg[n].uuid
  /\ \A u \in Uuid : cont[u] # NoCont => u <= minted
  /\ \A n \in Names : Registered(n) /\ HasContainer(n) /\ reg[n].config # NoConfig
                        => cont[reg[n].uuid].config = reg[n].config

(* An address in use is taken; the one released before its registration is *)
(* deleted stays with a service that has no container, so that no run is   *)
(* validated any more if the API container dies in between.                *)
AddressInv ==
  \A n \in Names : Registered(n) =>
    reg[n].ip \in taken \/ gor[n] = "delete" \/ (op = "idle" /\ ~inRun /\ ~HasContainer(n))

(* The operation: between two, nothing is left to do, and what was          *)
(* validated still holds; during one, the services it does not name are as *)
(* they were; an add asks for a config; the others name one service, which *)
(* is registered and has a container.                                      *)
IdleInv ==
  /\ crashes \in Nat
  /\ op = "idle" => todo = {} /\ (inRun => Validated)

OthersInv ==
  op # "idle" =>
    /\ batch \subseteq Names /\ last = "none"
    /\ before \in [Names -> {NoReg} \cup [uuid : Uuid, config : Configs \cup {NoConfig}, up : BOOLEAN]]
    /\ \A n \in Names \ batch : Seen[n] = before[n] /\ (Registered(n) => HasContainer(n))

AddInv == UpPhase \/ AddPhase =>
            kind = "add" /\ want \in Configs /\ updates = {n \in batch : before[n] # NoReg}

OneInv ==
  OnePhase =>
    /\ kind \in {"remove", "stop", "start"} /\ want = NoConfig
    /\ op = "delete" => kind = "remove"
    /\ op \in {"kill", "stopped"} => kind # "start"
    /\ op \in {"start", "restarted"} => kind = "start"
    /\ \E n \in Names : batch = {n} /\ todo = {n}
    /\ \A n \in batch : /\ Registered(n) /\ HasContainer(n)
                        /\ before[n] # NoReg
                        /\ reg[n].uuid = before[n].uuid /\ reg[n].config = before[n].config
                        /\ op \in {"stopped", "delete"} => cont[reg[n].uuid].status = "stopped"
                        /\ op = "restarted" => /\ cont[reg[n].uuid].status = "running"
                                               /\ reg[n].config # NoConfig
                        /\ op = "delete" => reg[n].status = "stopped"

BatchInv == IdleInv /\ OthersInv /\ AddInv /\ OneInv

(* The goroutines, and what each has done to its service.                  *)
GoroutineInv ==
  /\ ~Starting /\ op # "destroy" => gor = Idle /\ started = {} /\ gfailed = {}
  /\ op = "destroy" => started = {} /\ todo \cap gfailed = {}
  /\ \A n \in Names : gor[n] # "none" => n \in batch \ (todo \cup started \cup gfailed)
  /\ \A n \in Names :
       /\ gor[n] = "create" => Starting /\ Fresh(n)
       /\ gor[n] = "mark" => Starting /\ RunsWanted(n)
                             /\ reg[n].status = "registered" /\ reg[n].config = NoConfig
       /\ gor[n] = "ports" => Starting /\ RunsWanted(n)
                             /\ reg[n].status = "started" /\ reg[n].config = NoConfig
       /\ gor[n] = "destroy" => RunsWanted(n) /\ reg[n].status = "started"
                                /\ (Starting => reg[n].config = NoConfig)
       /\ gor[n] \in {"release", "delete"} => ~HasContainer(n)
  /\ Starting =>
       /\ \A n \in todo : Fresh(n) /\ n \notin started \cup gfailed
       /\ \A n \in started : Deployed(n) /\ n \notin gfailed
       /\ \A n \in gfailed : ~Running(n)

(* The updates of an add: each is registered with the UUID it had, or      *)
(* lost; and unless one failed, all get the config.                        *)
UpdateInv ==
  /\ UpPhase \/ AddPhase => \A n \in updates : Registered(n) => reg[n].uuid = before[n].uuid
  /\ UpPhase => todo \cup good \cup started \cup gfailed \subseteq updates
                /\ \A n \in batch \ updates : ~Registered(n) /\ gor[n] = "none"
  /\ op = "upRemove" => /\ updates \ failed \subseteq todo \cup good /\ todo \cap good = {}
                        /\ \A n \in updates : Registered(n)
                        /\ \A n \in good : ~HasContainer(n)
  /\ op = "upReset" => /\ updates \ failed \subseteq todo \cup good /\ todo \cap good = {}
                       /\ \A n \in updates : Registered(n)
                       /\ \A n \in todo : ~HasContainer(n)
                       /\ \A n \in good : Fresh(n)
  /\ op = "upStart" /\ gfailed = {} => updates \ failed \subseteq todo \cup Active \cup started
  /\ op = "upMark" => /\ \A n \in todo : Deployed(n)
                      /\ failed \cap updates = {} => \A n \in updates : Deployed(n)
  /\ AddPhase => /\ \A n \in updates : gor[n] = "none"
                 /\ failed \cap updates = {} => \A n \in updates : Deployed(n)

(* Its additions: all of them get to run, or none stays registered.        *)
AdditionInv ==
  /\ AddPhase => todo \cup good \cup started \cup gfailed \subseteq adds
  /\ op = "register" =>
       /\ \A n \in adds : n \notin todo \cup good => n \in failed
       /\ todo \cap good = {}
       /\ \A n \in adds \ good : ~Registered(n)
       /\ \A n \in good : Fresh(n)
  /\ op = "addStart" =>
       /\ failed \cap adds = {}
       /\ gfailed = {} => adds \subseteq todo \cup Active \cup started
       /\ \A n \in adds : n \in todo \cup Active \cup started \cup gfailed \/ Fresh(n)
  /\ op = "addMark" => \A n \in adds : Deployed(n)
  /\ op = "destroy" => /\ failed \cap adds # {}
                       /\ \A n \in todo : Deployed(n)
                       /\ \A n \in adds \ todo : Running(n) => gor[n] = "destroy"
  /\ op = "unregister" => /\ failed \cap adds # {}
                          /\ \A n \in todo : ~Running(n)
                          /\ \A n \in adds \ todo : ~Registered(n)
  /\ op = "finish" => /\ (\A n \in adds : Deployed(n)) \/ (\A n \in adds : ~Registered(n))
                      /\ failed = {} => \A n \in adds : Deployed(n)

(* Where the status in the registration is not the container's: between    *)
(* the call to Docker and the transaction that follows it, and while a     *)
(* batch is rolled back, whose registrations are to go.                    *)
InFlight(n) ==
  \/ gor[n] \in {"mark", "release", "delete"}
  \/ op = "upRemove" /\ n \in good
  \/ op \in {"upReset", "stopped", "restarted"} /\ n \in todo
  \/ op \in {"destroy", "unregister"} /\ n \in adds

StatusInv ==
  crashes = 0 => \A n \in Names : Registered(n) /\ reg[n].config # NoConfig =>
                    (reg[n].status = "started" <=> Running(n)) \/ InFlight(n)

NetworkInv ==
  /\ TypeOK /\ RegistryInv /\ RunningIsRegistered /\ AddressInv /\ AddressesDistinct
  /\ BatchInv /\ GoroutineInv /\ UpdateInv /\ AdditionInv /\ StatusInv

-----------------------------------------------------------------------------
(* The database and the containers on their own, call by call: each call   *)
(* of the backend keeps their invariant under the condition it needs, and  *)
(* touches one service.                                                    *)
DbInv ==
  /\ reg \in [Names -> Registration \cup {NoReg}]
  /\ cont \in [Uuid -> Container \cup {NoCont}]
  /\ taken \subseteq Ip /\ minted \in 0 .. MaxUuid
  /\ RegistryInv /\ RunningIsRegistered /\ AddressesDistinct

OthersKept(n) ==
  \A m \in Names \ {n} : /\ reg'[m] = reg[m]
                         /\ Registered(m) => cont'[reg[m].uuid] = cont[reg[m].uuid]

LEMMA RegistrationIs ==
  ASSUME DbInv, NEW n \in Names
  PROVE  /\ Registered(n) <=> reg[n] \in Registration
         /\ Registered(n) <=> reg[n].status # "none"
         /\ Registered(n) => /\ reg[n].uuid \in Uuid /\ reg[n].ip \in Ip
                             /\ reg[n].status \in {"registered", "started", "stopped"}
                             /\ reg[n].config \in Configs \cup {NoConfig}
BY DEF DbInv, Registered, Registration, NoReg

LEMMA ContainerIs ==
  ASSUME DbInv, NEW u \in Uuid
  PROVE  /\ cont[u] # NoCont <=> cont[u] \in Container
         /\ cont[u] # NoCont <=> cont[u].status # "none"
         /\ cont[u] # NoCont => cont[u].status \in {"running", "abandoned", "stopped"} /\ cont[u].config \in Configs
BY DEF DbInv, Container, NoCont

(* A registration rewritten in place: the same UUID and address.           *)
LEMMA Rewritten ==
  ASSUME DbInv, NEW n \in Names, Registered(n), NEW r \in Registration,
         r.uuid = reg[n].uuid, r.ip = reg[n].ip,
         HasContainer(n) /\ r.config # NoConfig => cont[reg[n].uuid].config = r.config,
         reg' = [reg EXCEPT ![n] = r], UNCHANGED <<minted, taken, cont>>
  PROVE  DbInv' /\ OthersKept(n) /\ Registered(n)' /\ reg'[n] = r
<1> USE DEF DbInv
<1>1. reg'[n] = r /\ r # NoReg /\ \A m \in Names \ {n} : reg'[m] = reg[m]
  BY DEF Registration, NoReg
<1>2. /\ \A m \in Names : Registered(m)' <=> Registered(m)
      /\ \A m \in Names : Registered(m) => reg'[m].uuid = reg[m].uuid /\ reg'[m].ip = reg[m].ip
  BY <1>1 DEF Registered
<1>3. RegistryInv'
  BY <1>1, <1>2 DEF RegistryInv, HasContainer
<1>4. RunningIsRegistered' /\ AddressesDistinct'
  BY <1>2 DEF RunningIsRegistered, AddressesDistinct
<1> QED
  BY <1>1, <1>2, <1>3, <1>4 DEF OthersKept

LEMMA StatusUpdated ==
  ASSUME DbInv, NEW n \in Names, Registered(n),
         NEW s \in {"registered", "started", "stopped"}, UpdateStatus(n, s)
  PROVE  /\ DbInv' /\ OthersKept(n) /\ Registered(n)' /\ UNCHANGED <<minted, taken, cont>>
         /\ reg'[n].uuid = reg[n].uuid /\ reg'[n].ip = reg[n].ip
         /\ reg'[n].config = reg[n].config /\ reg'[n].status = s
<1> DEFINE r == [reg[n] EXCEPT !.status = s]
<1>1. /\ r \in Registration /\ r.uuid = reg[n].uuid /\ r.ip = reg[n].ip
      /\ r.config = reg[n].config /\ r.status = s
  BY RegistrationIs DEF Registration
<1>2. reg' = [reg EXCEPT ![n] = r]
  BY DEF UpdateStatus
<1>3. HasContainer(n) /\ r.config # NoConfig => cont[reg[n].uuid].config = r.config
  BY <1>1 DEF DbInv, RegistryInv
<1> HIDE DEF r
<1> QED
  BY <1>1, <1>2, <1>3, Rewritten DEF UpdateStatus

LEMMA ConfigUpdated ==
  ASSUME DbInv, NEW n \in Names, Registered(n), NEW c \in Configs,
         HasContainer(n) => cont[reg[n].uuid].config = c, UpdateConfig(n, c)
  PROVE  /\ DbInv' /\ OthersKept(n) /\ Registered(n)' /\ UNCHANGED <<minted, taken, cont>>
         /\ reg'[n].uuid = reg[n].uuid /\ reg'[n].ip = reg[n].ip
         /\ reg'[n].config = c /\ reg'[n].status = reg[n].status
<1> DEFINE r == [reg[n] EXCEPT !.config = c]
<1>1. /\ r \in Registration /\ r.uuid = reg[n].uuid /\ r.ip = reg[n].ip
      /\ r.config = c /\ r.status = reg[n].status
  BY RegistrationIs DEF Registration
<1>2. reg' = [reg EXCEPT ![n] = r]
  BY DEF UpdateConfig
<1> HIDE DEF r
<1> QED
  BY <1>1, <1>2, Rewritten DEF UpdateConfig

LEMMA RegistrationReset ==
  ASSUME DbInv, NEW n \in Names, Registered(n), UpdateStatusAndConfig(n, "registered", NoConfig)
  PROVE  /\ DbInv' /\ OthersKept(n) /\ Registered(n)' /\ UNCHANGED <<minted, taken, cont>>
         /\ reg'[n].uuid = reg[n].uuid /\ reg'[n].ip = reg[n].ip
         /\ reg'[n].config = NoConfig /\ reg'[n].status = "registered"
<1> DEFINE r == [reg[n] EXCEPT !.status = "registered", !.config = NoConfig]
<1>1. /\ r \in Registration /\ r.uuid = reg[n].uuid /\ r.ip = reg[n].ip
      /\ r.config = NoConfig /\ r.status = "registered"
  BY RegistrationIs DEF Registration
<1>2. reg' = [reg EXCEPT ![n] = r]
  BY DEF UpdateStatusAndConfig
<1> HIDE DEF r
<1> QED
  BY <1>1, <1>2, Rewritten DEF UpdateStatusAndConfig

(* A registration may go once its container does not run.                  *)
LEMMA RegistrationDeleted ==
  ASSUME DbInv, NEW n \in Names, Registered(n), ~Running(n), DeleteRegistration(n)
  PROVE  DbInv' /\ OthersKept(n) /\ ~Registered(n)' /\ UNCHANGED <<minted, taken, cont>>
<1> USE DEF DbInv
<1>1. reg'[n] = NoReg /\ \A m \in Names \ {n} : reg'[m] = reg[m]
  BY DEF DeleteRegistration
<1>2. reg' \in [Names -> Registration \cup {NoReg}]
  BY DEF DeleteRegistration
<1>3. RegistryInv'
  BY <1>1 DEF RegistryInv, HasContainer, Registered, DeleteRegistration
<1>4. RunningIsRegistered'
  BY <1>1 DEF RunningIsRegistered, Running, Registered, DeleteRegistration
<1>5. AddressesDistinct'
  BY <1>1 DEF AddressesDistinct, Registered
<1> QED
  BY <1>1, <1>2, <1>3, <1>4, <1>5 DEF OthersKept, Registered, DeleteRegistration

(* The subnet has a first free address when it has any.                    *)
LEMMA FirstFreeIsFree ==
  ASSUME taken # Ip, taken \subseteq Ip
  PROVE  FirstFree \in Ip \ taken
<1> DEFINE F == Ip \ taken
<1>0. Ip \subseteq Nat /\ F # {}
  <2>1. Ip \subseteq Nat
    OBVIOUS
  <2> HIDE DEF Ip
  <2> QED
    BY <2>1, Zenon
<1>1. F \subseteq Nat /\ F # {}
  BY <1>0
<1> HIDE DEF F
<1>2. PICK i \in F : \A j \in F : <<j, i>> \notin OpToRel(<, Nat)
  BY <1>1, NatLessThanWellFounded, WFMin, Zenon
<1>3. \A j \in F : ~(j < i)
  BY <1>1, <1>2, Zenon DEF OpToRel
<1>4. \A j \in F : i <= j
  BY <1>1, <1>3
<1> USE DEF F
<1> QED
  BY <1>4 DEF FirstFree

LEMMA ServiceRegistered ==
  ASSUME DbInv, NEW n \in Names, ~Registered(n), RegisterUserService(n),
         \A m \in Names : Registered(m) => reg[m].ip \in taken
  PROVE  /\ DbInv' /\ OthersKept(n) /\ Fresh(n)' /\ UNCHANGED cont
         /\ taken \subseteq taken' /\ reg'[n].ip \in taken'
<1> DEFINE r == [uuid |-> minted + 1, ip |-> FirstFree, status |-> "registered", config |-> NoConfig]
<1> USE DEF DbInv
<1>1. FirstFree \in Ip \ taken
  BY FirstFreeIsFree DEF RegisterUserService
<1>2. /\ r \in Registration /\ r # NoReg
      /\ r.uuid = minted + 1 /\ r.ip = FirstFree /\ r.status = "registered" /\ r.config = NoConfig
  BY <1>1 DEF Registration, NoReg, RegisterUserService
<1>3. /\ reg' = [reg EXCEPT ![n] = r] /\ taken' = taken \cup {FirstFree}
      /\ minted' = minted + 1 /\ minted' \in 0 .. MaxUuid /\ UNCHANGED cont
  BY DEF RegisterUserService
<1> HIDE DEF r
<1>4. reg'[n] = r /\ \A m \in Names \ {n} : reg'[m] = reg[m]
  BY <1>3
<1>5. reg' \in [Names -> Registration \cup {NoReg}]
  BY <1>2, <1>3
<1>6. cont[r.uuid] = NoCont
  BY <1>2, <1>3 DEF RegistryInv
<1>7. Registered(n)' /\ \A m \in Names \ {n} : Registered(m)' <=> Registered(m)
  BY <1>2, <1>4 DEF Registered
<1>8. RegistryInv'
  BY <1>2, <1>3, <1>4, <1>6, <1>7, RegistrationIs DEF RegistryInv, HasContainer
<1>9. RunningIsRegistered'
  BY <1>3, <1>4, <1>7 DEF RunningIsRegistered
<1>10. AddressesDistinct'
  BY <1>1, <1>2, <1>4, <1>7 DEF AddressesDistinct
<1> QED
  BY <1>1, <1>2, <1>3, <1>4, <1>5, <1>6, <1>7, <1>8, <1>9, <1>10 DEF OthersKept, Fresh

LEMMA AddressReleased ==
  ASSUME DbInv, NEW n \in Names, ReleaseIpAddr(n)
  PROVE  DbInv' /\ UNCHANGED <<reg, minted, cont>> /\ taken' = taken \ {reg[n].ip}
BY DEF DbInv, ReleaseIpAddr, RegistryInv, HasContainer, Registered, RunningIsRegistered,
   AddressesDistinct

(* A container is put, or changed, under a service's UUID: it is the       *)
(* container of that service and of no other.                              *)
LEMMA ContainerSet ==
  ASSUME DbInv, NEW n \in Names, Registered(n), NEW k \in Container \cup {NoCont},
         k # NoCont /\ reg[n].config # NoConfig => k.config = reg[n].config,
         SetContainer(n, k)
  PROVE  /\ DbInv' /\ OthersKept(n) /\ UNCHANGED <<reg, minted, taken>>
         /\ cont'[reg[n].uuid] = k
<1> USE DEF DbInv, SetContainer, dbVars
<1>1. /\ reg[n].uuid \in Uuid /\ cont'[reg[n].uuid] = k
      /\ \A u \in Uuid \ {reg[n].uuid} : cont'[u] = cont[u]
      /\ cont' \in [Uuid -> Container \cup {NoCont}]
  BY RegistrationIs
<1>2. \A m \in Names \ {n} : Registered(m) => cont'[reg[m].uuid] = cont[reg[m].uuid]
  BY <1>1, RegistrationIs DEF RegistryInv
<1>3. RegistryInv'
  BY <1>1, <1>2 DEF RegistryInv, HasContainer, Registered
<1>4. RunningIsRegistered'
  BY <1>1 DEF RunningIsRegistered, Registered
<1>5. AddressesDistinct'
  BY DEF AddressesDistinct, Registered
<1> QED
  BY <1>1, <1>2, <1>3, <1>4, <1>5 DEF OthersKept

-----------------------------------------------------------------------------
(* What each action that calls the backend does, in terms of the calls'    *)
(* lemmas, and that it may make the call.                                  *)
LEMMA NetworkDb == NetworkInv => DbInv
BY DEF NetworkInv, TypeOK, DbInv

LEMMA UpRemoveDoes ==
  ASSUME NetworkInv, NEW n \in Names, UpRemove(n)
  PROVE  /\ DbInv' /\ OthersKept(n) /\ UNCHANGED dbVars
         /\ Registered(n) /\ cont'[reg[n].uuid] = NoCont
<1>1. Registered(n)
  BY DEF UpRemove, NetworkInv, UpdateInv, UpPhase
<1>2. SetContainer(n, NoCont)
  BY DEF UpRemove, RemoveContainer
<1> QED
  BY <1>1, <1>2, NetworkDb, ContainerSet DEF dbVars

LEMMA CreateDoes ==
  ASSUME NetworkInv, NEW n \in Names, Create(n)
  PROVE  /\ DbInv' /\ OthersKept(n) /\ UNCHANGED dbVars
         /\ Fresh(n) /\ cont'[reg[n].uuid] = [status |-> "running", config |-> want]
<1> DEFINE k == [status |-> "running", config |-> want]
<1>1. Fresh(n) /\ want \in Configs
  BY DEF Create, NetworkInv, GoroutineInv, BatchInv, IdleInv, OthersInv, AddInv, OneInv,
     UpPhase, AddPhase, Starting
<1>2. SetContainer(n, k)
  BY DEF Create, CreateContainer
<1>3. k \in Container
  BY <1>1 DEF Container
<1> HIDE DEF k
<1>4. Registered(n) /\ reg[n].config = NoConfig
  BY <1>1 DEF Fresh
<1>5. DbInv' /\ OthersKept(n) /\ UNCHANGED dbVars /\ cont'[reg[n].uuid] = k
  BY <1>2, <1>3, <1>4, NetworkDb, ContainerSet DEF dbVars
<1> QED
  BY <1>1, <1>5 DEF k

LEMMA CreateFailsDoes ==
  ASSUME NetworkInv, NEW n \in Names, CreateFails(n)
  PROVE  /\ DbInv' /\ OthersKept(n) /\ UNCHANGED dbVars /\ Fresh(n)
         /\ cont'[reg[n].uuid] \in {NoCont, [status |-> "stopped", config |-> want],
                                            [status |-> "abandoned", config |-> want]}
<1>1. Fresh(n) /\ want \in Configs
  BY DEF CreateFails, NetworkInv, GoroutineInv, BatchInv, IdleInv, OthersInv, AddInv, OneInv,
     UpPhase, AddPhase, Starting
<1>2. Registered(n) /\ reg[n].config = NoConfig
  BY <1>1 DEF Fresh
<1>3. CASE UNCHANGED backendVars
  BY <1>1, <1>3, NetworkDb DEF backendVars, dbVars, DbInv, RegistryInv, RunningIsRegistered,
     AddressesDistinct, OthersKept, Registered, HasContainer, Fresh
<1>4. ASSUME NEW s \in {"stopped", "abandoned"}, CreateContainer(n, s, want)
      PROVE  DbInv' /\ OthersKept(n) /\ UNCHANGED dbVars
             /\ cont'[reg[n].uuid] = [status |-> s, config |-> want]
  <2> DEFINE k == [status |-> s, config |-> want]
  <2>1. k \in Container /\ k.config = want /\ SetContainer(n, k)
    BY <1>1, <1>4 DEF Container, CreateContainer
  <2> HIDE DEF k
  <2>2. DbInv' /\ OthersKept(n) /\ UNCHANGED dbVars /\ cont'[reg[n].uuid] = k
    BY <1>1, <1>2, <2>1, NetworkDb, ContainerSet DEF dbVars
  <2> QED
    BY <2>2 DEF k
<1> QED
  BY <1>1, <1>3, <1>4 DEF CreateFails

LEMMA DestroyContainerDoes ==
  ASSUME NetworkInv, NEW n \in Names, DestroyContainer(n)
  PROVE  /\ DbInv' /\ OthersKept(n) /\ UNCHANGED dbVars
         /\ Registered(n) /\ cont'[reg[n].uuid] = NoCont
<1>1. Registered(n)
  BY DEF DestroyContainer, NetworkInv, TypeOK
<1>2. SetContainer(n, NoCont)
  BY DEF DestroyContainer, RemoveContainer
<1> QED
  BY <1>1, <1>2, NetworkDb, ContainerSet DEF dbVars

LEMMA DestroyContainerFailsDoes ==
  ASSUME NetworkInv, NEW n \in Names, DestroyContainerFails(n)
  PROVE  /\ DbInv' /\ OthersKept(n) /\ UNCHANGED dbVars /\ Registered(n)
         /\ cont'[reg[n].uuid] \in {NoCont, [status |-> "abandoned", config |-> want]}
<1> DEFINE k == [cont[reg[n].uuid] EXCEPT !.status = "abandoned"]
<1>1. Registered(n) /\ RunsWanted(n) /\ DbInv
  BY NetworkDb DEF DestroyContainerFails, NetworkInv, TypeOK, GoroutineInv
<1>2. k = [status |-> "abandoned", config |-> want] /\ k.config = want
  BY <1>1 DEF RunsWanted
<1>3. cont[reg[n].uuid].config = want /\ HasContainer(n)
  BY <1>1 DEF RunsWanted, HasContainer, NoCont
<1>4. k \in Container
  BY <1>1, <1>2, <1>3, RegistrationIs, ContainerIs DEF HasContainer, Container
<1>5. reg[n].config # NoConfig => k.config = reg[n].config
  BY <1>1, <1>2, <1>3 DEF DbInv, RegistryInv
<1>6. CASE SetContainer(n, k)
  <2> HIDE DEF k
  <2> QED
    BY <1>1, <1>2, <1>4, <1>5, <1>6, ContainerSet DEF dbVars
<1>7. CASE SetContainer(n, NoCont)
  BY <1>1, <1>7, ContainerSet DEF dbVars
<1> QED
  BY <1>6, <1>7 DEF DestroyContainerFails, AbandonContainer, RemoveContainer

(* A call on the container that a service has keeps the config it runs.    *)
LEMMA OneContainer ==
  ASSUME NetworkInv, NEW n \in Names, OnePhase, n \in todo, NEW s \in {"running", "stopped"},
         SetContainer(n, [cont[reg[n].uuid] EXCEPT !.status = s])
  PROVE  /\ DbInv' /\ OthersKept(n) /\ UNCHANGED dbVars /\ Registered(n) /\ HasContainer(n)
         /\ cont'[reg[n].uuid] = [status |-> s, config |-> cont[reg[n].uuid].config]
<1> DEFINE k == [cont[reg[n].uuid] EXCEPT !.status = s]
<1>1. Registered(n) /\ HasContainer(n) /\ DbInv
  BY NetworkDb DEF NetworkInv, BatchInv, IdleInv, OthersInv, AddInv, OneInv
<1>2. cont[reg[n].uuid] \in Container
  BY <1>1, RegistrationIs, ContainerIs DEF HasContainer
<1>3. /\ k \in Container /\ k = [status |-> s, config |-> cont[reg[n].uuid].config]
      /\ k.config = cont[reg[n].uuid].config
  BY <1>2 DEF Container
<1>4. reg[n].config # NoConfig => cont[reg[n].uuid].config = reg[n].config
  BY <1>1 DEF DbInv, RegistryInv
<1> HIDE DEF k
<1>5. SetContainer(n, k)
  BY DEF k
<1> QED
  BY <1>1, <1>3, <1>4, <1>5, ContainerSet DEF dbVars

LEMMA KillDoes ==
  ASSUME NetworkInv, NEW n \in Names, Kill(n)
  PROVE  /\ DbInv' /\ OthersKept(n) /\ UNCHANGED dbVars /\ Registered(n) /\ HasContainer(n)
         /\ cont'[reg[n].uuid] = [status |-> "stopped", config |-> cont[reg[n].uuid].config]
BY OneContainer DEF Kill, KillContainer, OnePhase

LEMMA RestartDoes ==
  ASSUME NetworkInv, NEW n \in Names, Restart(n)
  PROVE  /\ DbInv' /\ OthersKept(n) /\ UNCHANGED dbVars /\ Registered(n) /\ HasContainer(n)
         /\ cont'[reg[n].uuid] = [status |-> "running", config |-> cont[reg[n].uuid].config]
BY OneContainer DEF Restart, StartContainer, OnePhase

LEMMA UpResetDoes ==
  ASSUME NetworkInv, NEW n \in Names, UpReset(n)
  PROVE  /\ DbInv' /\ OthersKept(n) /\ Registered(n) /\ Registered(n)'
         /\ UNCHANGED <<minted, taken, cont>>
         /\ reg'[n].uuid = reg[n].uuid /\ reg'[n].ip = reg[n].ip
         /\ reg'[n].config = NoConfig /\ reg'[n].status = "registered"
<1>1. Registered(n)
  BY DEF UpReset, NetworkInv, UpdateInv, UpPhase
<1> QED
  BY <1>1, NetworkDb, RegistrationReset DEF UpReset

(* Every change of status is of a registered service.                      *)
LEMMA StatusDoes ==
  ASSUME NetworkInv, NEW n \in Names, NEW s \in {"started", "stopped"}, UpdateStatus(n, s),
         Mark(n) \/ MarkStarted(n) \/ MarkStopped(n) \/ MarkRestarted(n)
  PROVE  /\ DbInv' /\ OthersKept(n) /\ Registered(n) /\ Registered(n)'
         /\ UNCHANGED <<minted, taken, cont>>
         /\ reg'[n].uuid = reg[n].uuid /\ reg'[n].ip = reg[n].ip
         /\ reg'[n].config = reg[n].config /\ reg'[n].status = s
<1>1. Registered(n)
  BY DEF Mark, MarkStarted, MarkStopped, MarkRestarted, NetworkInv, TypeOK, BatchInv, IdleInv,
     OthersInv, AddInv, OneInv, UpdateInv, AdditionInv,
     Deployed, RunsWanted, AddPhase, OnePhase, adds
<1> QED
  BY <1>1, NetworkDb, StatusUpdated

LEMMA PortsOpenDoes ==
  ASSUME NetworkInv, NEW n \in Names, PortsOpen(n)
  PROVE  /\ DbInv' /\ OthersKept(n) /\ Registered(n) /\ Registered(n)'
         /\ UNCHANGED <<minted, taken, cont>>
         /\ reg'[n].uuid = reg[n].uuid /\ reg'[n].ip = reg[n].ip
         /\ reg'[n].config = want /\ reg'[n].status = reg[n].status
<1>1. /\ Registered(n) /\ want \in Configs /\ cont[reg[n].uuid].config = want
  BY DEF PortsOpen, NetworkInv, GoroutineInv, BatchInv, IdleInv, OthersInv, AddInv, OneInv,
     RunsWanted, UpPhase, AddPhase, Starting
<1> QED
  BY <1>1, NetworkDb, ConfigUpdated DEF PortsOpen

LEMMA RegisterDoes ==
  ASSUME NetworkInv, NEW n \in Names, Register(n)
  PROVE  /\ DbInv' /\ OthersKept(n) /\ Fresh(n)' /\ UNCHANGED cont
         /\ ~Registered(n) /\ taken \subseteq taken' /\ reg'[n].ip \in taken'
<1>1. ~Registered(n)
  <2>1. n \in adds \ good
    BY DEF Register, NetworkInv, AdditionInv, AddPhase, BatchInv, IdleInv, OthersInv, AddInv,
       OneInv
  <2> QED
    BY <2>1 DEF Register, NetworkInv, AdditionInv
<1>2. \A m \in Names : Registered(m) => reg[m].ip \in taken
  BY DEF Register, NetworkInv, AddressInv, GoroutineInv, Starting, Idle
<1> QED
  BY <1>1, <1>2, NetworkDb, ServiceRegistered DEF Register

LEMMA DeleteDoes ==
  ASSUME NetworkInv, NEW n \in Names,
         Delete(n) \/ DestroyRegistration(n) \/ (Unregister(n) /\ Registered(n))
  PROVE  /\ DbInv' /\ OthersKept(n) /\ Registered(n) /\ ~Registered(n)'
         /\ UNCHANGED <<minted, taken, cont>>
<1>1. Registered(n)
  BY DEF Delete, DestroyRegistration, NetworkInv, TypeOK, BatchInv, IdleInv, OthersInv, AddInv,
     OneInv, OnePhase
<1>2. ~Running(n)
  BY NetworkDb, ContainerIs, RegistrationIs DEF Unregister, Delete, DestroyRegistration,
     NetworkInv,
     BatchInv, IdleInv, OthersInv, AddInv, OneInv, OnePhase, GoroutineInv, AdditionInv, Running,
     HasContainer, NoCont
<1> QED
  BY <1>1, <1>2, NetworkDb, RegistrationDeleted DEF Unregister, Delete, DestroyRegistration

LEMMA UnregisterDoes ==
  ASSUME NetworkInv, NEW n \in Names, Unregister(n)
  PROVE  DbInv' /\ OthersKept(n) /\ ~Registered(n)' /\ UNCHANGED <<minted, taken, cont>>
<1>1. CASE Registered(n)
  BY <1>1, DeleteDoes
<1>2. CASE ~Registered(n)
  BY <1>2, NetworkDb DEF Unregister, backendVars, dbVars, DbInv, RegistryInv, RunningIsRegistered,
     AddressesDistinct, OthersKept, Registered, HasContainer
<1> QED
  BY <1>1, <1>2

LEMMA DestroyReleaseDoes ==
  ASSUME NetworkInv, NEW n \in Names, DestroyRelease(n)
  PROVE  DbInv' /\ UNCHANGED <<reg, minted, cont>> /\ taken' = taken \ {reg[n].ip} /\ Registered(n)
BY NetworkDb, AddressReleased DEF DestroyRelease, NetworkInv, TypeOK


-----------------------------------------------------------------------------
(* Each action that calls the backend keeps the invariant: first what it   *)
(* does to its service, then one step for each part of the invariant that  *)
(* needs the same facts.                                                   *)
LEMMA SeenKept ==
  ASSUME NEW n \in Names, OthersKept(n), NEW m \in Names \ {n}
  PROVE  Seen'[m] = Seen[m]
<1>1. reg'[m] = reg[m] /\ (Registered(m) => cont'[reg[m].uuid] = cont[reg[m].uuid])
  BY DEF OthersKept
<1>2. CASE ~Registered(m)
  BY <1>1, <1>2 DEF Seen, Registered
<1>3. CASE Registered(m)
  <2>1. cont'[reg'[m].uuid] = cont[reg[m].uuid]
    BY <1>1, <1>3
  <2>2. /\ (reg'[m].status = "started" /\ cont'[reg'[m].uuid] = [status |-> "running", config |-> reg'[m].config])
           = (reg[m].status = "started" /\ cont[reg[m].uuid] = [status |-> "running", config |-> reg[m].config])
    BY <1>1, <2>1, Zenon
  <2> QED
    BY <1>1, <1>3, <2>2, Zenon DEF Seen, Registered
<1> QED
  BY <1>2, <1>3

LEMMA StatusStep ==
  ASSUME NetworkInv, NEW n \in Names, OthersKept(n), crashes' = crashes,
         \A m \in Names \ {n} : InFlight(m) => InFlight(m)',
         Registered(n)' /\ reg'[n].config # NoConfig =>
           (reg'[n].status = "started" <=> Running(n)') \/ InFlight(n)'
  PROVE  StatusInv'
<1>1. \A m \in Names \ {n} : /\ reg'[m] = reg[m] /\ (Registered(m)' <=> Registered(m))
                             /\ Running(m)' <=> Running(m)
  BY DEF OthersKept, Registered, Running
<1> QED
  BY <1>1 DEF NetworkInv, StatusInv

LEMMA UpRemoveKeeps == ASSUME NetworkInv, NEW n \in Names, UpRemove(n) PROVE NetworkInv'
<1>1. /\ DbInv' /\ OthersKept(n) /\ UNCHANGED dbVars /\ Registered(n)
      /\ cont'[reg[n].uuid] = NoCont
  BY UpRemoveDoes DEF UpRemove
<1>2. RegistryInv' /\ RunningIsRegistered' /\ AddressesDistinct'
  BY <1>1 DEF DbInv
<1> USE DEF UpRemove, NetworkInv, BatchInv, Took, Over, GoTo, Ends, Goes, Succeeds, FailsWith,
            outerVars, loopVars, opVars, gorVars, runVars, Starting, Active, adds, UpPhase,
            AddPhase, OnePhase, Idle, Enter, Dies, HasUpdates, Registered, HasContainer, Running,
            OthersKept, Fresh, RunsWanted, Deployed, Seen, DbInv, Validated, backendVars, dbVars
<1>3. TypeOK' /\ AddressInv' /\ OneInv' /\ GoroutineInv' /\ AdditionInv' /\ StatusInv'
  BY <1>1 DEF TypeOK, AddressInv, OneInv, GoroutineInv, AdditionInv, StatusInv, InFlight
<1>4. IdleInv' /\ AddInv' /\ UpdateInv'
  BY <1>1 DEF IdleInv, GoroutineInv, OthersInv, AddInv, OneInv, UpdateInv
<1>5. OthersInv'
  BY <1>1 DEF OthersInv, TypeOK, GoroutineInv, UpdateInv, AdditionInv, IdleInv, AddInv, OneInv
<1> QED
  BY <1>1, <1>2, <1>3, <1>4, <1>5 DEF NetworkInv, BatchInv

LEMMA CreateKeeps == ASSUME NetworkInv, NEW n \in Names, Create(n) PROVE NetworkInv'
<1>1. /\ DbInv' /\ OthersKept(n) /\ UNCHANGED dbVars /\ Fresh(n)
      /\ cont'[reg[n].uuid] = [status |-> "running", config |-> want]
  BY CreateDoes DEF Create
<1>2. RegistryInv' /\ RunningIsRegistered' /\ AddressesDistinct'
  BY <1>1 DEF DbInv
<1> USE DEF Create, NetworkInv, BatchInv, Took, Over, GoTo, Ends, Goes, Succeeds, FailsWith,
            outerVars, loopVars, opVars, gorVars, runVars, Starting, Active, adds, UpPhase,
            AddPhase, OnePhase, Idle, Enter, Dies, HasUpdates, Registered, HasContainer, Running,
            OthersKept, Fresh, RunsWanted, Deployed, Seen, DbInv, Validated, backendVars, dbVars
<1>3. TypeOK'
  BY <1>1 DEF TypeOK
<1>4. AddressInv'
  BY <1>1 DEF AddressInv, GoroutineInv, IdleInv, OthersInv, AddInv, OneInv
<1>5. IdleInv'
  BY <1>1 DEF IdleInv, GoroutineInv, OthersInv, AddInv, OneInv
<1>6. OthersInv'
  BY <1>1 DEF OthersInv, GoroutineInv, IdleInv, AddInv, OneInv
<1>7. AddInv'
  BY <1>1 DEF AddInv, GoroutineInv, IdleInv, OthersInv, OneInv
<1>8. OneInv'
  BY <1>1 DEF OneInv, GoroutineInv, IdleInv, OthersInv, AddInv
<1>9. AdditionInv'
  BY <1>1 DEF AdditionInv, GoroutineInv, IdleInv, OthersInv, AddInv, OneInv
<1>10. GoroutineInv'
  BY <1>1 DEF GoroutineInv, TypeOK, UpdateInv, AdditionInv, IdleInv, OthersInv, AddInv, OneInv
<1>11. UpdateInv'
  BY <1>1 DEF UpdateInv, TypeOK, GoroutineInv, AdditionInv, IdleInv, OthersInv, AddInv, OneInv
<1>12. StatusInv'
  BY <1>1
     DEF StatusInv, TypeOK, GoroutineInv, UpdateInv, AdditionInv, IdleInv, OthersInv, AddInv,
         OneInv, InFlight
<1> QED
  BY <1>1, <1>2, <1>3, <1>4, <1>5, <1>6, <1>7, <1>8, <1>9, <1>10, <1>11, <1>12
     DEF NetworkInv, BatchInv

LEMMA CreateFailsKeeps == ASSUME NetworkInv, NEW n \in Names, CreateFails(n) PROVE NetworkInv'
<1>1. /\ DbInv' /\ OthersKept(n) /\ UNCHANGED dbVars /\ Fresh(n)
      /\ cont'[reg[n].uuid] \in {NoCont, [status |-> "stopped", config |-> want],
                                         [status |-> "abandoned", config |-> want]}
  BY CreateFailsDoes DEF CreateFails
<1>2. RegistryInv' /\ RunningIsRegistered' /\ AddressesDistinct'
  BY <1>1 DEF DbInv
<1>3. GoroutineInv'
  <2>2. ~Running(n)' /\ Registered(n)'
    BY <1>1 DEF Running, Registered, Fresh, NoCont, dbVars
  <2>3. \A m \in Names \ {n} : /\ Registered(m)' <=> Registered(m)
                               /\ Fresh(m)' <=> Fresh(m)
                               /\ Running(m)' <=> Running(m)
                               /\ Registered(m) => (HasContainer(m)' <=> HasContainer(m))
                               /\ reg'[m] = reg[m]
    BY <1>1 DEF OthersKept, Registered, Fresh, Running, HasContainer
  <2>4. /\ gor' = [gor EXCEPT ![n] = "none"] /\ gfailed' = gfailed \cup {n}
        /\ UNCHANGED <<op, started, todo, batch, want>> /\ Starting
    BY DEF CreateFails, FailsWith, outerVars, loopVars, opVars, NetworkInv, GoroutineInv
  <2>5. \A m \in Names \ {n} : /\ RunsWanted(m)' <=> RunsWanted(m)
                               /\ Deployed(m)' <=> Deployed(m)
    BY <1>1, <2>3, <2>4 DEF OthersKept, Deployed, RunsWanted
  <2>6. n \notin todo \cup started \cup gfailed /\ n \in batch
    BY DEF CreateFails, NetworkInv, GoroutineInv
  <2>7. gor'[n] = "none" /\ \A m \in Names \ {n} : gor'[m] = gor[m]
    BY <2>4 DEF NetworkInv, TypeOK
  <2>8. \A m \in Names : gor[m] # "none" => Registered(m)
    BY DEF NetworkInv, TypeOK
  <2>9. \A m \in Names : gor'[m] # "none" => m \in batch' \ (todo' \cup started' \cup gfailed')
    BY <2>4, <2>7 DEF NetworkInv, GoroutineInv
  <2>10. \A m \in Names :
         /\ gor'[m] = "create" => Starting' /\ Fresh(m)'
         /\ gor'[m] = "mark" => Starting' /\ RunsWanted(m)'
                               /\ reg'[m].status = "registered" /\ reg'[m].config = NoConfig
         /\ gor'[m] = "ports" => Starting' /\ RunsWanted(m)'
                               /\ reg'[m].status = "started" /\ reg'[m].config = NoConfig
         /\ gor'[m] = "destroy" => RunsWanted(m)' /\ reg'[m].status = "started"
                                   /\ (Starting' => reg'[m].config = NoConfig)
         /\ gor'[m] \in {"release", "delete"} => ~HasContainer(m)'
    BY <2>3, <2>4, <2>5, <2>7, <2>8 DEF NetworkInv, GoroutineInv, Starting
  <2>11. Starting' =>
         /\ \A m \in todo' : Fresh(m)' /\ m \notin started' \cup gfailed'
         /\ \A m \in started' : Deployed(m)' /\ m \notin gfailed'
         /\ \A m \in gfailed' : ~Running(m)'
    BY <2>2, <2>3, <2>4, <2>5, <2>6 DEF NetworkInv, GoroutineInv, TypeOK, BatchInv, OthersInv,
       Starting
  <2> QED
    BY <2>4, <2>9, <2>10, <2>11 DEF GoroutineInv, Starting
<1> USE DEF CreateFails, NetworkInv, BatchInv, Took, Over, GoTo, Ends, Goes, Succeeds, FailsWith,
            outerVars, loopVars, opVars, gorVars, runVars, Starting, Active, adds, UpPhase,
            AddPhase, OnePhase, Idle, Enter, Dies, HasUpdates, Registered, HasContainer, Running,
            OthersKept, Fresh, RunsWanted, Deployed, Seen, DbInv, Validated, backendVars, dbVars
<1>4. StatusInv'
  BY <1>1 DEF StatusInv, InFlight
<1>5. TypeOK'
  BY <1>1 DEF TypeOK, GoroutineInv, IdleInv, OthersInv, AddInv, OneInv
<1>6. AddressInv'
  BY <1>1 DEF AddressInv, GoroutineInv, IdleInv, OthersInv, AddInv, OneInv
<1>7. IdleInv'
  BY <1>1 DEF IdleInv, GoroutineInv, OthersInv, AddInv, OneInv
<1>8. AddInv'
  BY <1>1 DEF AddInv, GoroutineInv, IdleInv, OthersInv, OneInv
<1>9. OneInv'
  BY <1>1 DEF OneInv, GoroutineInv, IdleInv, OthersInv, AddInv
<1>10. UpdateInv'
  BY <1>1 DEF UpdateInv, GoroutineInv, IdleInv, OthersInv, AddInv, OneInv
<1>11. OthersInv'
  BY <1>1 DEF OthersInv, TypeOK, GoroutineInv, UpdateInv, AdditionInv, IdleInv, AddInv, OneInv
<1>12. AdditionInv'
  BY <1>1 DEF AdditionInv, TypeOK, GoroutineInv, UpdateInv, IdleInv, OthersInv, AddInv, OneInv
<1> QED
  BY <1>1, <1>2, <1>3, <1>4, <1>5, <1>6, <1>7, <1>8, <1>9, <1>10, <1>11, <1>12
     DEF NetworkInv, BatchInv

LEMMA DestroyContainerKeeps ==
  ASSUME NetworkInv, NEW n \in Names, DestroyContainer(n)
  PROVE NetworkInv'
<1>1. /\ DbInv' /\ OthersKept(n) /\ UNCHANGED dbVars /\ Registered(n)
      /\ cont'[reg[n].uuid] = NoCont
  BY DestroyContainerDoes DEF DestroyContainer
<1>2. RegistryInv' /\ RunningIsRegistered' /\ AddressesDistinct'
  BY <1>1 DEF DbInv
<1>3. AdditionInv'
  <2>2. \A m \in Names \ {n} : reg'[m] = reg[m] /\ (Registered(m) => cont'[reg[m].uuid] = cont[reg[m].uuid])
    BY <1>1 DEF OthersKept
  <2>3. /\ gor' = [gor EXCEPT ![n] = "release"]
        /\ UNCHANGED <<op, todo, good, failed, batch, updates, want, started, gfailed>>
        /\ gor[n] = "destroy"
    BY DEF DestroyContainer, Goes, outerVars, loopVars, opVars
  <2>4. op \in {"upStart", "addStart", "destroy"} /\ n \notin todo \cup started \cup gfailed
    BY <2>3 DEF NetworkInv, GoroutineInv, Starting, Idle
  <2>5. ~Running(n)' /\ reg' = reg
    BY <1>1 DEF Running, NoCont, dbVars
  <2>6. \A m \in Names \ {n} : Deployed(m) <=> Deployed(m)'
    BY <2>2, <2>3 DEF Deployed, RunsWanted, Registered
  <2>7. \A m \in Names \ {n} : /\ Running(m) <=> Running(m)'
                               /\ Fresh(m) <=> Fresh(m)'
    BY <2>2 DEF Running, Fresh, Registered
  <2>8. gor'[n] = "release" /\ \A m \in Names \ {n} : gor'[m] = gor[m]
    BY <2>3 DEF NetworkInv, TypeOK
  <2>9. CASE op = "upStart"
    BY <2>3, <2>9 DEF AdditionInv, AddPhase
  <2>10. CASE op = "addStart"
    <3>1. Active' = Active
      BY <2>3, <2>8 DEF Active
    <3>2. \A m \in adds : m \in todo \cup Active \cup started \cup gfailed \/ Fresh(m)'
      BY <2>3, <2>7, <2>10, <3>1 DEF NetworkInv, AdditionInv, Active, TypeOK, BatchInv,
         OthersInv, adds
    <3> QED
      BY <2>3, <2>10, <3>1, <3>2 DEF NetworkInv, AdditionInv, AddPhase, adds
  <2>11. CASE op = "destroy"
    <3>1. \A m \in todo : Deployed(m)'
      BY <2>4, <2>6, <2>11 DEF NetworkInv, AdditionInv, TypeOK, BatchInv, OthersInv
    <3>2. \A m \in adds \ todo : Running(m)' => gor'[m] = "destroy"
      BY <2>2, <2>5, <2>7, <2>8, <2>11 DEF NetworkInv, AdditionInv, TypeOK, BatchInv, OthersInv,
         adds, Registered
    <3> QED
      BY <2>3, <2>11, <3>1, <3>2 DEF NetworkInv, AdditionInv, AddPhase, adds
  <2> QED
    BY <2>4, <2>9, <2>10, <2>11
<1> USE DEF DestroyContainer, NetworkInv, BatchInv, Took, Over, GoTo, Ends, Goes, Succeeds,
            FailsWith, outerVars, loopVars, opVars, gorVars, runVars, Starting, Active, adds,
            UpPhase, AddPhase, OnePhase, Idle, Enter, Dies, HasUpdates, Registered, HasContainer,
            Running, OthersKept, Fresh, RunsWanted, Deployed, Seen, DbInv, Validated, backendVars,
            dbVars
<1>4. TypeOK'
  BY <1>1 DEF TypeOK
<1>5. AddressInv'
  BY <1>1 DEF AddressInv
<1>6. IdleInv'
  BY <1>1 DEF IdleInv, GoroutineInv, OthersInv, AddInv, OneInv
<1>7. AddInv'
  BY <1>1 DEF AddInv, GoroutineInv, IdleInv, OthersInv, OneInv
<1>8. OneInv'
  BY <1>1 DEF OneInv, GoroutineInv, IdleInv, OthersInv, AddInv
<1>9. UpdateInv'
  BY <1>1 DEF UpdateInv, GoroutineInv, IdleInv, OthersInv, AddInv, OneInv
<1>10. OthersInv'
  BY <1>1 DEF OthersInv, TypeOK, GoroutineInv, UpdateInv, AdditionInv, IdleInv, AddInv, OneInv
<1>11. GoroutineInv'
  BY <1>1 DEF GoroutineInv, TypeOK, UpdateInv, AdditionInv, IdleInv, OthersInv, AddInv, OneInv
<1>12. StatusInv'
  BY <1>1
     DEF StatusInv, TypeOK, GoroutineInv, UpdateInv, AdditionInv, IdleInv, OthersInv, AddInv,
         OneInv, InFlight
<1> QED
  BY <1>1, <1>2, <1>3, <1>4, <1>5, <1>6, <1>7, <1>8, <1>9, <1>10, <1>11, <1>12
     DEF NetworkInv, BatchInv

LEMMA DestroyContainerFailsKeeps ==
  ASSUME NetworkInv, NEW n \in Names, DestroyContainerFails(n)
  PROVE NetworkInv'
<1>1. /\ DbInv' /\ OthersKept(n) /\ UNCHANGED dbVars /\ Registered(n)
      /\ cont'[reg[n].uuid] \in {NoCont, [status |-> "abandoned", config |-> want]}
  BY DestroyContainerFailsDoes DEF DestroyContainerFails
<1>2. RegistryInv' /\ RunningIsRegistered' /\ AddressesDistinct'
  BY <1>1 DEF DbInv
<1>3. GoroutineInv'
  <2>2. ~Running(n)' /\ Registered(n)'
    BY <1>1 DEF Running, Registered, Fresh, NoCont, dbVars
  <2>3. \A m \in Names \ {n} : /\ Registered(m)' <=> Registered(m)
                               /\ Fresh(m)' <=> Fresh(m)
                               /\ Running(m)' <=> Running(m)
                               /\ Registered(m) => (HasContainer(m)' <=> HasContainer(m))
                               /\ reg'[m] = reg[m]
    BY <1>1 DEF OthersKept, Registered, Fresh, Running, HasContainer
  <2>4. /\ gor' = [gor EXCEPT ![n] = "none"] /\ gfailed' = gfailed \cup {n}
        /\ UNCHANGED <<op, started, todo, batch, want>> /\ (Starting \/ op = "destroy")
    BY DEF DestroyContainerFails, FailsWith, outerVars, loopVars, opVars, NetworkInv,
       GoroutineInv, Idle
  <2>5. \A m \in Names \ {n} : /\ RunsWanted(m)' <=> RunsWanted(m)
                               /\ Deployed(m)' <=> Deployed(m)
    BY <1>1, <2>3, <2>4 DEF OthersKept, Deployed, RunsWanted
  <2>6. n \notin todo \cup started \cup gfailed /\ n \in batch
    BY DEF DestroyContainerFails, NetworkInv, GoroutineInv
  <2>7. gor'[n] = "none" /\ \A m \in Names \ {n} : gor'[m] = gor[m]
    BY <2>4 DEF NetworkInv, TypeOK
  <2>8. \A m \in Names : gor[m] # "none" => Registered(m)
    BY DEF NetworkInv, TypeOK
  <2>9. \A m \in Names : gor'[m] # "none" => m \in batch' \ (todo' \cup started' \cup gfailed')
    BY <2>4, <2>7 DEF NetworkInv, GoroutineInv
  <2>10. \A m \in Names :
         /\ gor'[m] = "create" => Starting' /\ Fresh(m)'
         /\ gor'[m] = "mark" => Starting' /\ RunsWanted(m)'
                               /\ reg'[m].status = "registered" /\ reg'[m].config = NoConfig
         /\ gor'[m] = "ports" => Starting' /\ RunsWanted(m)'
                               /\ reg'[m].status = "started" /\ reg'[m].config = NoConfig
         /\ gor'[m] = "destroy" => RunsWanted(m)' /\ reg'[m].status = "started"
                                   /\ (Starting' => reg'[m].config = NoConfig)
         /\ gor'[m] \in {"release", "delete"} => ~HasContainer(m)'
    BY <2>3, <2>4, <2>5, <2>7, <2>8 DEF NetworkInv, GoroutineInv, Starting
  <2>11. Starting' =>
         /\ \A m \in todo' : Fresh(m)' /\ m \notin started' \cup gfailed'
         /\ \A m \in started' : Deployed(m)' /\ m \notin gfailed'
         /\ \A m \in gfailed' : ~Running(m)'
    BY <2>2, <2>3, <2>4, <2>5, <2>6 DEF NetworkInv, GoroutineInv, TypeOK, BatchInv, OthersInv,
       Starting
  <2>12. op = "destroy" => started = {} /\ todo \cap gfailed = {}
    BY DEF NetworkInv, GoroutineInv
  <2> QED
    BY <2>4, <2>6, <2>9, <2>10, <2>11, <2>12 DEF GoroutineInv, Starting
<1>4. StatusInv'
  <2>1. /\ gor[n] = "destroy" /\ gor' = [gor EXCEPT ![n] = "none"]
        /\ UNCHANGED <<op, todo, good, batch, updates, crashes>>
        /\ n \in batch /\ (Starting \/ op = "destroy")
    BY DEF DestroyContainerFails, FailsWith, outerVars, loopVars, opVars, NetworkInv,
       GoroutineInv, Idle
  <2>2. \A m \in Names \ {n} : InFlight(m) => InFlight(m)'
    BY <2>1 DEF InFlight, adds, NetworkInv, TypeOK
  <2>3. CASE Starting
    BY <1>1, <2>1, <2>2, <2>3, StatusStep DEF NetworkInv, GoroutineInv, dbVars
  <2>4. CASE op = "destroy"
    <3>1. n \in adds
      BY <2>1, <2>4 DEF NetworkInv, UpdateInv, AddPhase, adds
    <3>2. InFlight(n)'
      BY <2>1, <2>4, <3>1 DEF InFlight, adds
    <3> QED
      BY <1>1, <2>1, <2>2, <3>2, StatusStep
  <2> QED
    BY <2>1, <2>3, <2>4
<1>12. AdditionInv'
  <2>2. \A m \in Names \ {n} : reg'[m] = reg[m] /\ (Registered(m) => cont'[reg[m].uuid] = cont[reg[m].uuid])
    BY <1>1 DEF OthersKept
  <2>3. /\ gor' = [gor EXCEPT ![n] = "none"] /\ gfailed' = gfailed \cup {n}
        /\ UNCHANGED <<op, todo, good, failed, batch, updates, want, started>>
        /\ gor[n] = "destroy"
    BY DEF DestroyContainerFails, FailsWith, outerVars, loopVars, opVars
  <2>4. /\ op \in {"upStart", "addStart", "destroy"}
        /\ n \in batch \ (todo \cup started \cup gfailed)
    BY <2>3 DEF NetworkInv, GoroutineInv, Starting, Idle
  <2>5. ~Running(n)' /\ reg' = reg
    BY <1>1 DEF Running, NoCont, dbVars
  <2>6. \A m \in Names \ {n} : Deployed(m) <=> Deployed(m)'
    BY <2>2, <2>3 DEF Deployed, RunsWanted, Registered
  <2>7. \A m \in Names \ {n} : /\ Running(m) <=> Running(m)'
                               /\ Fresh(m) <=> Fresh(m)'
    BY <2>2 DEF Running, Fresh, Registered
  <2>8. gor'[n] = "none" /\ \A m \in Names \ {n} : gor'[m] = gor[m]
    BY <2>3 DEF NetworkInv, TypeOK
  <2>9. CASE op = "upStart"
    BY <2>3, <2>9 DEF AdditionInv, AddPhase
  <2>10. op # "upStart" => n \in adds
    BY <2>3, <2>4 DEF NetworkInv, UpdateInv, AddPhase, adds
  <2>11. CASE op = "addStart"
    <3>1. Active \subseteq Active' \cup {n}
      BY <2>3, <2>8 DEF Active
    <3>2. \A m \in adds : m \in todo \cup Active' \cup started \cup gfailed' \/ Fresh(m)'
      BY <2>3, <2>7, <2>11, <3>1 DEF NetworkInv, AdditionInv, TypeOK, BatchInv, OthersInv, adds
    <3> QED
      BY <2>3, <2>10, <2>11, <3>1, <3>2 DEF NetworkInv, AdditionInv, AddPhase, adds
  <2>12. CASE op = "destroy"
    <3>1. \A m \in todo : Deployed(m)'
      BY <2>4, <2>6, <2>12 DEF NetworkInv, AdditionInv, TypeOK, BatchInv, OthersInv
    <3>2. \A m \in adds \ todo : Running(m)' => gor'[m] = "destroy"
      BY <2>2, <2>5, <2>7, <2>8, <2>12 DEF NetworkInv, AdditionInv, TypeOK, BatchInv, OthersInv,
         adds, Registered
    <3> QED
      BY <2>3, <2>10, <2>12, <3>1, <3>2 DEF NetworkInv, AdditionInv, AddPhase, adds
  <2> QED
    BY <2>4, <2>9, <2>11, <2>12
<1> USE DEF DestroyContainerFails, NetworkInv, BatchInv, Took, Over, GoTo, Ends, Goes, Succeeds, FailsWith,
            outerVars, loopVars, opVars, gorVars, runVars, Starting, Active, adds, UpPhase,
            AddPhase, OnePhase, Idle, Enter, Dies, HasUpdates, Registered, HasContainer, Running,
            OthersKept, Fresh, RunsWanted, Deployed, Seen, DbInv, Validated, backendVars, dbVars
<1>5. TypeOK'
  BY <1>1 DEF TypeOK, GoroutineInv, IdleInv, OthersInv, AddInv, OneInv
<1>6. AddressInv'
  BY <1>1 DEF AddressInv, GoroutineInv, IdleInv, OthersInv, AddInv, OneInv
<1>7. IdleInv'
  BY <1>1 DEF IdleInv, GoroutineInv, OthersInv, AddInv, OneInv
<1>8. AddInv'
  BY <1>1 DEF AddInv, GoroutineInv, IdleInv, OthersInv, OneInv
<1>9. OneInv'
  BY <1>1 DEF OneInv, GoroutineInv, IdleInv, OthersInv, AddInv
<1>10. UpdateInv'
  BY <1>1 DEF UpdateInv, GoroutineInv, IdleInv, OthersInv, AddInv, OneInv
<1>11. OthersInv'
  BY <1>1 DEF OthersInv, TypeOK, GoroutineInv, UpdateInv, AdditionInv, IdleInv, AddInv, OneInv
<1> QED
  BY <1>1, <1>2, <1>3, <1>4, <1>5, <1>6, <1>7, <1>8, <1>9, <1>10, <1>11, <1>12
     DEF NetworkInv, BatchInv

LEMMA KillKeeps == ASSUME NetworkInv, NEW n \in Names, Kill(n) PROVE NetworkInv'
<1>1. /\ DbInv' /\ OthersKept(n) /\ UNCHANGED dbVars /\ Registered(n) /\ HasContainer(n)
      /\ cont'[reg[n].uuid] = [status |-> "stopped", config |-> cont[reg[n].uuid].config]
  BY KillDoes DEF Kill
<1>2. RegistryInv' /\ RunningIsRegistered' /\ AddressesDistinct'
  BY <1>1 DEF DbInv
<1> USE DEF Kill, NetworkInv, BatchInv, Took, Over, GoTo, Ends, Goes, Succeeds, FailsWith,
            outerVars, loopVars, opVars, gorVars, runVars, Starting, Active, adds, UpPhase,
            AddPhase, OnePhase, Idle, Enter, Dies, HasUpdates, Registered, HasContainer, Running,
            OthersKept, Fresh, RunsWanted, Deployed, Seen, DbInv, Validated, backendVars, dbVars
<1>3. /\ TypeOK' /\ AddressInv' /\ AddInv' /\ GoroutineInv' /\ UpdateInv' /\ AdditionInv'
      /\ StatusInv'
  BY <1>1
     DEF TypeOK, AddressInv, AddInv, GoroutineInv, UpdateInv, AdditionInv, StatusInv, InFlight
<1>4. IdleInv' /\ OthersInv'
  BY <1>1 DEF IdleInv, GoroutineInv, OthersInv, AddInv, OneInv
<1>5. OneInv'
  BY <1>1, NetworkDb, RegistrationIs, ContainerIs, SMTT(30)
     DEF OneInv, TypeOK, GoroutineInv, UpdateInv, AdditionInv, IdleInv, OthersInv, AddInv, NoReg,
         NoCont, Matching, RegistryInv
<1> QED
  BY <1>1, <1>2, <1>3, <1>4, <1>5 DEF NetworkInv, BatchInv

LEMMA RestartKeeps == ASSUME NetworkInv, NEW n \in Names, Restart(n) PROVE NetworkInv'
<1>1. /\ DbInv' /\ OthersKept(n) /\ UNCHANGED dbVars /\ Registered(n) /\ HasContainer(n)
      /\ cont'[reg[n].uuid] = [status |-> "running", config |-> cont[reg[n].uuid].config]
  BY RestartDoes DEF Restart
<1>2. RegistryInv' /\ RunningIsRegistered' /\ AddressesDistinct'
  BY <1>1 DEF DbInv
<1>3. OneInv'
  <2>2. /\ reg[n].config # NoConfig /\ op' = "restarted" /\ todo' = todo /\ n \in todo
        /\ UNCHANGED opVars /\ op = "start"
    BY DEF Restart, GoTo
  <2>3. /\ todo = {n} /\ batch = {n} /\ before[n] # NoReg /\ reg[n].uuid = before[n].uuid
        /\ reg[n].config = before[n].config /\ kind = "start" /\ want = NoConfig
    BY <2>2 DEF NetworkInv, BatchInv, OneInv, OnePhase
  <2>4. Registered(n)' /\ HasContainer(n)' /\ reg' = reg /\ cont'[reg[n].uuid].status = "running"
    BY <1>1 DEF Registered, HasContainer, NoCont, dbVars
  <2> QED
    BY <2>2, <2>3, <2>4 DEF OneInv, OnePhase, opVars
<1> USE DEF Restart, NetworkInv, BatchInv, Took, Over, GoTo, Ends, Goes, Succeeds, FailsWith,
            outerVars, loopVars, opVars, gorVars, runVars, Starting, Active, adds, UpPhase,
            AddPhase, OnePhase, Idle, Enter, Dies, HasUpdates, Registered, HasContainer, Running,
            OthersKept, Fresh, RunsWanted, Deployed, Seen, DbInv, Validated, backendVars, dbVars
<1>4. TypeOK'
  BY <1>1 DEF TypeOK
<1>5. AddressInv'
  BY <1>1 DEF AddressInv
<1>6. AddInv'
  BY <1>1 DEF AddInv
<1>7. GoroutineInv'
  BY <1>1 DEF GoroutineInv
<1>8. UpdateInv'
  BY <1>1 DEF UpdateInv
<1>9. AdditionInv'
  BY <1>1 DEF AdditionInv
<1>10. StatusInv'
  BY <1>1 DEF StatusInv, InFlight
<1>11. IdleInv'
  BY <1>1 DEF IdleInv, GoroutineInv, OthersInv, AddInv, OneInv
<1>12. OthersInv'
  BY <1>1 DEF OthersInv, GoroutineInv, IdleInv, AddInv, OneInv
<1> QED
  BY <1>1, <1>2, <1>3, <1>4, <1>5, <1>6, <1>7, <1>8, <1>9, <1>10, <1>11, <1>12
     DEF NetworkInv, BatchInv

LEMMA UpResetKeeps == ASSUME NetworkInv, NEW n \in Names, UpReset(n) PROVE NetworkInv'
<1>1. /\ DbInv' /\ OthersKept(n) /\ Registered(n) /\ Registered(n)'
      /\ UNCHANGED <<minted, taken, cont>> /\ reg'[n].uuid = reg[n].uuid
      /\ reg'[n].ip = reg[n].ip /\ reg'[n].config = NoConfig /\ reg'[n].status = "registered"
  BY UpResetDoes DEF UpReset
<1>2. RegistryInv' /\ RunningIsRegistered' /\ AddressesDistinct'
  BY <1>1 DEF DbInv
<1> USE DEF UpReset, NetworkInv, BatchInv, Took, Over, GoTo, Ends, Goes, Succeeds, FailsWith,
            outerVars, loopVars, opVars, gorVars, runVars, Starting, Active, adds, UpPhase,
            AddPhase, OnePhase, Idle, Enter, Dies, HasUpdates, Registered, HasContainer, Running,
            OthersKept, Fresh, RunsWanted, Deployed, Seen, DbInv, Validated, backendVars, dbVars
<1>3. TypeOK' /\ AddressInv' /\ OneInv' /\ GoroutineInv' /\ AdditionInv'
  BY <1>1 DEF TypeOK, AddressInv, OneInv, GoroutineInv, AdditionInv
<1>4. IdleInv' /\ AddInv'
  BY <1>1 DEF IdleInv, GoroutineInv, OthersInv, AddInv, OneInv
<1>5. OthersInv' /\ UpdateInv'
  BY <1>1 DEF OthersInv, TypeOK, GoroutineInv, UpdateInv, AdditionInv, IdleInv, AddInv, OneInv
<1>6. StatusInv'
  BY <1>1, NetworkDb, RegistrationIs, ContainerIs
     DEF StatusInv, TypeOK, GoroutineInv, UpdateInv, AdditionInv, IdleInv, OthersInv, AddInv,
         OneInv, InFlight
<1> QED
  BY <1>1, <1>2, <1>3, <1>4, <1>5, <1>6 DEF NetworkInv, BatchInv

LEMMA PortsOpenKeeps == ASSUME NetworkInv, NEW n \in Names, PortsOpen(n) PROVE NetworkInv'
<1>1. /\ DbInv' /\ OthersKept(n) /\ Registered(n) /\ Registered(n)'
      /\ UNCHANGED <<minted, taken, cont>> /\ reg'[n].uuid = reg[n].uuid
      /\ reg'[n].ip = reg[n].ip /\ reg'[n].config = want /\ reg'[n].status = reg[n].status
  BY PortsOpenDoes DEF PortsOpen
<1>2. RegistryInv' /\ RunningIsRegistered' /\ AddressesDistinct'
  BY <1>1 DEF DbInv
<1>3. TypeOK'
  <2>2. n \in batch /\ \A m \in Names : Registered(m) => Registered(m)'
    BY <1>1 DEF OthersKept, Registered, PortsOpen, NetworkInv, GoroutineInv
  <2> QED
    BY <1>1, <2>2 DEF PortsOpen, Succeeds, outerVars, loopVars, opVars, NetworkInv, TypeOK, DbInv
<1>8. StatusInv'
  <2>1. /\ RunsWanted(n) /\ reg[n].status = "started" /\ gor' = [gor EXCEPT ![n] = "none"]
        /\ UNCHANGED <<op, todo, good, batch, updates, crashes>>
    BY DEF PortsOpen, Succeeds, outerVars, loopVars, opVars, NetworkInv, GoroutineInv
  <2>2. \A m \in Names \ {n} : InFlight(m) => InFlight(m)'
    BY <2>1 DEF InFlight, adds, NetworkInv, TypeOK
  <2>3. Running(n)' /\ reg'[n].status = "started"
    BY <1>1, <2>1 DEF RunsWanted, Running
  <2> QED
    BY <1>1, <2>1, <2>2, <2>3, StatusStep
<1>9. UpdateInv'
  <2>1. /\ RunsWanted(n) /\ reg[n].status = "started" /\ gor' = [gor EXCEPT ![n] = "none"]
        /\ started' = started \cup {n} /\ op \in {"upStart", "addStart"} /\ n \in batch
        /\ UNCHANGED <<op, todo, good, failed, gfailed, batch, updates, before, want>>
    BY DEF PortsOpen, Succeeds, outerVars, loopVars, opVars, NetworkInv, GoroutineInv, Starting
  <2>2. gor'[n] = "none" /\ \A m \in Names \ {n} : gor'[m] = gor[m]
    BY <2>1 DEF NetworkInv, TypeOK
  <2>3. \A m \in Names \ {n} : /\ Registered(m)' <=> Registered(m)
                               /\ reg'[m] = reg[m] /\ (Deployed(m) => Deployed(m)')
    BY <1>1, <2>1 DEF OthersKept, Registered, Deployed, RunsWanted
  <2>4. updates \subseteq batch /\ batch \subseteq Names
    BY <2>1 DEF NetworkInv, TypeOK, BatchInv, OthersInv
  <2>5. \A m \in updates : Registered(m)' => reg'[m].uuid = before[m].uuid
    BY <1>1, <2>1, <2>3, <2>4 DEF NetworkInv, UpdateInv, UpPhase, AddPhase
  <2>6. CASE op = "upStart"
    <3>1. n \in updates
      BY <1>1, <2>1, <2>6 DEF NetworkInv, UpdateInv, UpPhase
    <3>2. \A m \in batch \ updates : ~Registered(m)' /\ gor'[m] = "none"
      BY <2>2, <2>3, <2>4, <2>6, <3>1 DEF NetworkInv, UpdateInv, UpPhase
    <3>3. gfailed' = {} => updates \ failed \subseteq todo \cup Active' \cup started'
      BY <2>1, <2>2, <2>4, <2>6 DEF NetworkInv, UpdateInv, Active
    <3> QED
      BY <2>1, <2>5, <2>6, <3>1, <3>2, <3>3 DEF NetworkInv, UpdateInv, UpPhase, AddPhase
  <2>7. CASE op = "addStart"
    <3>1. n \notin updates
      BY <2>1, <2>7 DEF PortsOpen, NetworkInv, UpdateInv, AddPhase
    <3> QED
      BY <2>1, <2>2, <2>3, <2>4, <2>5, <2>7, <3>1 DEF NetworkInv, UpdateInv, UpPhase, AddPhase
  <2> QED
    BY <2>1, <2>6, <2>7
<1> USE DEF PortsOpen, NetworkInv, BatchInv, Took, Over, GoTo, Ends, Goes, Succeeds, FailsWith,
            outerVars, loopVars, opVars, gorVars, runVars, Starting, Active, adds, UpPhase,
            AddPhase, OnePhase, Idle, Enter, Dies, HasUpdates, Registered, HasContainer, Running,
            OthersKept, Fresh, RunsWanted, Deployed, Seen, DbInv, Validated, backendVars, dbVars
<1>4. AddressInv'
  BY <1>1 DEF AddressInv
<1>5. IdleInv' /\ AddInv' /\ OneInv'
  BY <1>1 DEF IdleInv, GoroutineInv, OthersInv, AddInv, OneInv
<1>6. GoroutineInv' /\ AdditionInv'
  BY <1>1 DEF GoroutineInv, TypeOK, UpdateInv, AdditionInv, IdleInv, OthersInv, AddInv, OneInv
<1>7. OthersInv'
  BY <1>1, NetworkDb, RegistrationIs, ContainerIs, SMTT(60)
     DEF OthersInv, TypeOK, GoroutineInv, UpdateInv, AdditionInv, IdleInv, AddInv, OneInv
<1> QED
  BY <1>1, <1>2, <1>3, <1>4, <1>5, <1>6, <1>7, <1>8, <1>9 DEF NetworkInv, BatchInv

LEMMA RegisterKeeps == ASSUME NetworkInv, NEW n \in Names, Register(n) PROVE NetworkInv'
<1>1. /\ DbInv' /\ OthersKept(n) /\ Fresh(n)' /\ UNCHANGED cont /\ ~Registered(n)
      /\ taken \subseteq taken' /\ reg'[n].ip \in taken'
  BY RegisterDoes DEF Register
<1>2. RegistryInv' /\ RunningIsRegistered' /\ AddressesDistinct'
  BY <1>1 DEF DbInv
<1>3. UpdateInv'
  <2>2. op = "register" /\ n \in todo /\ UNCHANGED <<op, failed, opVars, gorVars>>
    BY DEF Register
  <2>3. n \notin updates /\ updates \subseteq Names
    BY <2>2 DEF NetworkInv, TypeOK, AdditionInv, AddPhase, adds, BatchInv, OthersInv
  <2>4. \A m \in updates : reg'[m] = reg[m] /\ (Deployed(m) => Deployed(m)')
    BY <1>1, <2>2, <2>3 DEF Deployed, RunsWanted, OthersKept, Registered, opVars
  <2> QED
    BY <2>2, <2>3, <2>4 DEF NetworkInv, UpdateInv, UpPhase, AddPhase, opVars, gorVars, Registered
<1> USE DEF Register, NetworkInv, BatchInv, Took, Over, GoTo, Ends, Goes, Succeeds, FailsWith,
            outerVars, loopVars, opVars, gorVars, runVars, Starting, Active, adds, UpPhase,
            AddPhase, OnePhase, Idle, Enter, Dies, HasUpdates, Registered, HasContainer, Running,
            OthersKept, Fresh, RunsWanted, Deployed, Seen, DbInv, Validated, backendVars, dbVars
<1>4. TypeOK' /\ OneInv' /\ GoroutineInv'
  BY <1>1 DEF TypeOK, OneInv, GoroutineInv
<1>5. IdleInv' /\ AddInv' /\ AdditionInv'
  BY <1>1 DEF IdleInv, GoroutineInv, OthersInv, AddInv, OneInv, AdditionInv
<1>6. AddressInv'
  BY <1>1, NetworkDb, RegistrationIs, ContainerIs
     DEF AddressInv, TypeOK, GoroutineInv, UpdateInv, AdditionInv, IdleInv, OthersInv, AddInv,
         OneInv
<1>7. OthersInv'
  BY <1>1, NetworkDb, RegistrationIs, ContainerIs
     DEF OthersInv, TypeOK, GoroutineInv, UpdateInv, AdditionInv, IdleInv, AddInv, OneInv
<1>8. StatusInv'
  BY <1>1, NetworkDb, RegistrationIs, ContainerIs, SMTT(30)
     DEF StatusInv, TypeOK, GoroutineInv, UpdateInv, AdditionInv, IdleInv, OthersInv, AddInv,
         OneInv, InFlight, NoReg, NoCont, Matching, RegistryInv
<1> QED
  BY <1>1, <1>2, <1>3, <1>4, <1>5, <1>6, <1>7, <1>8 DEF NetworkInv, BatchInv

LEMMA DestroyReleaseKeeps ==
  ASSUME NetworkInv, NEW n \in Names, DestroyRelease(n)
  PROVE NetworkInv'
<1>1. /\ DbInv' /\ UNCHANGED <<reg, minted, cont>> /\ taken' = taken \ {reg[n].ip}
      /\ Registered(n)
  BY DestroyReleaseDoes DEF DestroyRelease
<1>2. RegistryInv' /\ RunningIsRegistered' /\ AddressesDistinct'
  BY <1>1 DEF DbInv
<1>3. AddressInv'
  <2>2. /\ gor' = [gor EXCEPT ![n] = "delete"] /\ op # "idle"
        /\ gor \in [Names -> {"none", "create", "mark", "ports", "destroy", "release", "delete"}]
    BY DEF DestroyRelease, Goes, NetworkInv, GoroutineInv, Starting, Idle, TypeOK
  <2>3. ASSUME NEW m \in Names \ {n}, Registered(m) PROVE reg[m].ip \in taken' \/ gor'[m] = "delete"
    BY <1>1, <2>2, <2>3 DEF NetworkInv, AddressInv, AddressesDistinct
  <2> QED
    BY <1>1, <2>2, <2>3 DEF AddressInv, Registered
<1> USE DEF DestroyRelease, NetworkInv, BatchInv, Took, Over, GoTo, Ends, Goes, Succeeds,
            FailsWith, outerVars, loopVars, opVars, gorVars, runVars, Starting, Active, adds,
            UpPhase, AddPhase, OnePhase, Idle, Enter, Dies, HasUpdates, Registered, HasContainer,
            Running, OthersKept, Fresh, RunsWanted, Deployed, Seen, DbInv, Validated, backendVars,
            dbVars
<1>4. TypeOK' /\ GoroutineInv' /\ UpdateInv' /\ AdditionInv' /\ StatusInv'
  BY <1>1 DEF TypeOK, GoroutineInv, UpdateInv, AdditionInv, StatusInv, InFlight
<1>5. IdleInv' /\ OthersInv' /\ AddInv' /\ OneInv'
  BY <1>1 DEF IdleInv, GoroutineInv, OthersInv, AddInv, OneInv
<1> QED
  BY <1>1, <1>2, <1>3, <1>4, <1>5 DEF NetworkInv, BatchInv

LEMMA MarkKeeps == ASSUME NetworkInv, NEW n \in Names, Mark(n) PROVE NetworkInv'
<1>1. /\ DbInv' /\ OthersKept(n) /\ Registered(n) /\ Registered(n)'
      /\ UNCHANGED <<minted, taken, cont>> /\ reg'[n].uuid = reg[n].uuid
      /\ reg'[n].ip = reg[n].ip /\ reg'[n].config = reg[n].config /\ reg'[n].status = "started"
  BY StatusDoes DEF Mark
<1>2. RegistryInv' /\ RunningIsRegistered' /\ AddressesDistinct'
  BY <1>1 DEF DbInv
<1>3. UpdateInv'
  <2>2. /\ op \in {"upMark", "addMark"} /\ n \in todo
        /\ UNCHANGED <<op, good, failed, opVars, gorVars>>
        /\ todo' = todo \ {n}
    BY DEF Mark, Took
  <2>3. Deployed(n)
    BY <2>2 DEF NetworkInv, TypeOK, UpdateInv, AdditionInv, AddPhase, adds
  <2>4. \A m \in Names : Deployed(m) => Deployed(m)'
    BY <1>1, <2>2, <2>3 DEF Deployed, RunsWanted, OthersKept, Registered, opVars
  <2>5. updates \subseteq Names /\ todo \subseteq Names
    BY <2>2 DEF NetworkInv, TypeOK, BatchInv, OthersInv
  <2>6. \A m \in updates : Registered(m)' => reg'[m].uuid = before[m].uuid
    BY <1>1, <2>2, <2>5 DEF NetworkInv, UpdateInv, UpPhase, AddPhase, OthersKept, Registered
  <2>7. CASE op = "upMark"
    <3>1. n \in updates
      BY <2>2, <2>7 DEF NetworkInv, UpdateInv, UpPhase
    <3>2. \A m \in batch \ updates : ~Registered(m)' /\ gor'[m] = "none"
      BY <1>1, <2>2, <2>7, <3>1 DEF NetworkInv, UpdateInv, UpPhase, OthersKept, Registered,
         TypeOK,
         BatchInv, OthersInv, opVars, gorVars
    <3> QED
      BY <2>2, <2>4, <2>5, <2>6, <2>7, <3>2 DEF NetworkInv, UpdateInv, UpPhase, AddPhase,
         opVars, gorVars
  <2>8. CASE op = "addMark"
    BY <2>2, <2>4, <2>5, <2>6, <2>8 DEF NetworkInv, UpdateInv, UpPhase, AddPhase, opVars, gorVars
  <2> QED
    BY <2>2, <2>7, <2>8
<1>7. StatusInv'
  <2>1. /\ Deployed(n) /\ UNCHANGED <<op, gor, crashes>> /\ gor = Idle
        /\ op \in {"upMark", "addMark"} /\ reg'[n].status = "started"
    BY <1>1 DEF Mark, UpdateStatus, opVars, gorVars, NetworkInv, GoroutineInv, UpdateInv,
       AdditionInv, AddPhase, adds, TypeOK, BatchInv, OthersInv, Starting
  <2>2. \A m \in Names : ~InFlight(m)
    BY <2>1 DEF InFlight, Idle
  <2>3. Running(n)'
    BY <1>1, <2>1 DEF Deployed, RunsWanted, Running
  <2> QED
    BY <1>1, <2>1, <2>2, <2>3, StatusStep
<1> USE DEF Mark, NetworkInv, BatchInv, Took, Over, GoTo, Ends, Goes, Succeeds, FailsWith,
            outerVars, loopVars, opVars, gorVars, runVars, Starting, Active, adds, UpPhase,
            AddPhase, OnePhase, Idle, Enter, Dies, HasUpdates, Registered, HasContainer, Running,
            OthersKept, Fresh, RunsWanted, Deployed, Seen, DbInv, Validated, backendVars, dbVars
<1>4. TypeOK' /\ AddressInv' /\ OneInv' /\ GoroutineInv'
  BY <1>1 DEF TypeOK, AddressInv, OneInv, GoroutineInv
<1>5. IdleInv' /\ AddInv' /\ AdditionInv'
  BY <1>1 DEF IdleInv, GoroutineInv, OthersInv, AddInv, OneInv, AdditionInv
<1>6. OthersInv'
  BY <1>1 DEF OthersInv, TypeOK, GoroutineInv, UpdateInv, AdditionInv, IdleInv, AddInv, OneInv
<1> QED
  BY <1>1, <1>2, <1>3, <1>4, <1>5, <1>6, <1>7 DEF NetworkInv, BatchInv

LEMMA MarkStartedKeeps == ASSUME NetworkInv, NEW n \in Names, MarkStarted(n) PROVE NetworkInv'
<1>1. /\ DbInv' /\ OthersKept(n) /\ Registered(n) /\ Registered(n)'
      /\ UNCHANGED <<minted, taken, cont>> /\ reg'[n].uuid = reg[n].uuid
      /\ reg'[n].ip = reg[n].ip /\ reg'[n].config = reg[n].config /\ reg'[n].status = "started"
  BY StatusDoes DEF MarkStarted
<1>2. RegistryInv' /\ RunningIsRegistered' /\ AddressesDistinct'
  BY <1>1 DEF DbInv
<1>3. TypeOK'
  <2>2. \A m \in Names : Registered(m) => Registered(m)'
    BY <1>1 DEF OthersKept, Registered
  <2> QED
    BY <1>1, <2>2 DEF MarkStarted, Goes, outerVars, loopVars, opVars, NetworkInv, TypeOK, DbInv
<1>4. GoroutineInv'
  <2>2. /\ gor[n] = "mark" /\ gor' = [gor EXCEPT ![n] = "ports"]
        /\ UNCHANGED <<op, todo, started, gfailed, batch, want>>
    BY DEF MarkStarted, Goes, outerVars, loopVars, opVars
  <2>3. gor'[n] = "ports" /\ \A m \in Names \ {n} : gor'[m] = gor[m]
    BY <2>2 DEF NetworkInv, TypeOK
  <2>4. /\ Starting /\ RunsWanted(n) /\ reg[n].config = NoConfig
        /\ n \in batch \ (todo \cup started \cup gfailed)
    BY <2>2 DEF NetworkInv, GoroutineInv
  <2>5. RunsWanted(n)' /\ Starting'
    BY <1>1, <2>2, <2>4 DEF RunsWanted, Starting
  <2>6. \A m \in Names \ {n} : /\ reg'[m] = reg[m]
                               /\ Registered(m)' <=> Registered(m)
                               /\ Fresh(m)' <=> Fresh(m)
                               /\ Running(m)' <=> Running(m)
                               /\ RunsWanted(m)' <=> RunsWanted(m)
                               /\ Deployed(m)' <=> Deployed(m)
                               /\ HasContainer(m)' <=> HasContainer(m)
    BY <1>1, <2>2 DEF OthersKept, Registered, Fresh, Running, HasContainer, RunsWanted, Deployed
  <2>7. todo \cup started \cup gfailed \subseteq Names \ {n}
    BY <2>4 DEF NetworkInv, TypeOK, BatchInv, OthersInv, Starting
  <2>8. /\ \A m \in todo : Fresh(m)' /\ m \notin started \cup gfailed
        /\ \A m \in started : Deployed(m)' /\ m \notin gfailed
        /\ \A m \in gfailed : ~Running(m)'
    BY <2>4, <2>6, <2>7 DEF NetworkInv, GoroutineInv
  <2>9. \A m \in Names \ {n} :
         /\ gor[m] = "create" => Fresh(m)'
         /\ gor[m] = "mark" => RunsWanted(m)' /\ reg'[m].status = "registered" /\ reg'[m].config = NoConfig
         /\ gor[m] = "ports" => RunsWanted(m)' /\ reg'[m].status = "started" /\ reg'[m].config = NoConfig
         /\ gor[m] = "destroy" => RunsWanted(m)' /\ reg'[m].status = "started"
                                  /\ (Starting => reg'[m].config = NoConfig)
         /\ gor[m] \in {"release", "delete"} => ~HasContainer(m)'
         /\ gor[m] # "none" => m \in batch \ (todo \cup started \cup gfailed)
    BY <2>6 DEF NetworkInv, GoroutineInv
  <2> QED
    BY <1>1, <2>2, <2>3, <2>4, <2>5, <2>8, <2>9 DEF GoroutineInv, Starting
<1>5. UpdateInv'
  <2>2. /\ gor[n] = "mark" /\ gor' = [gor EXCEPT ![n] = "ports"]
        /\ op \in {"upStart", "addStart", "destroy"}
        /\ UNCHANGED <<op, todo, good, failed, started, batch, updates, before, want>>
        /\ gfailed' = gfailed
    BY DEF MarkStarted, Goes, outerVars, loopVars, opVars, NetworkInv, GoroutineInv, Starting,
       Idle
  <2>3. gor'[n] = "ports" /\ \A m \in Names \ {n} : gor'[m] = gor[m]
    BY <2>2 DEF NetworkInv, TypeOK
  <2>4. n \in batch /\ batch \subseteq Names /\ updates \subseteq batch
    BY <2>2 DEF NetworkInv, GoroutineInv, TypeOK, BatchInv, OthersInv
  <2>5. \A m \in Names \ {n} : /\ Registered(m)' <=> Registered(m)
                               /\ reg'[m] = reg[m] /\ (Deployed(m) => Deployed(m)')
    BY <1>1, <2>2 DEF OthersKept, Registered, Deployed, RunsWanted
  <2>6. \A m \in updates : Registered(m)' => reg'[m].uuid = before[m].uuid
    BY <1>1, <2>2, <2>4, <2>5 DEF NetworkInv, UpdateInv, UpPhase, AddPhase
  <2>7. CASE op = "upStart"
    <3>1. n \in updates
      BY <2>2, <2>4, <2>7 DEF NetworkInv, UpdateInv, UpPhase
    <3>2. \A m \in batch \ updates : ~Registered(m)' /\ gor'[m] = "none"
      BY <2>3, <2>4, <2>5, <2>7, <3>1 DEF NetworkInv, UpdateInv, UpPhase
    <3>3. todo \cup good \cup started \cup gfailed' \subseteq updates
      BY <2>2, <2>7, <3>1 DEF NetworkInv, UpdateInv, UpPhase
    <3>4. gfailed' = {} => updates \ failed \subseteq todo \cup Active' \cup started
      BY <2>2, <2>3, <2>4, <2>7 DEF NetworkInv, UpdateInv, Active
    <3> QED
      BY <2>2, <2>6, <2>7, <3>2, <3>3, <3>4 DEF UpdateInv, UpPhase, AddPhase
  <2>8. CASE op \in {"addStart", "destroy"}
    <3>1. n \notin updates
      BY <2>2, <2>8 DEF NetworkInv, UpdateInv, AddPhase
    <3>2. \A m \in updates : gor'[m] = "none" /\ (Deployed(m) => Deployed(m)')
      BY <2>3, <2>4, <2>5, <2>8, <3>1 DEF NetworkInv, UpdateInv, AddPhase
    <3> QED
      BY <2>2, <2>6, <2>8, <3>2 DEF NetworkInv, UpdateInv, UpPhase, AddPhase
  <2> QED
    BY <2>2, <2>7, <2>8
<1> USE DEF MarkStarted, NetworkInv, BatchInv, Took, Over, GoTo, Ends, Goes, Succeeds, FailsWith,
            outerVars, loopVars, opVars, gorVars, runVars, Starting, Active, adds, UpPhase,
            AddPhase, OnePhase, Idle, Enter, Dies, HasUpdates, Registered, HasContainer, Running,
            OthersKept, Fresh, RunsWanted, Deployed, Seen, DbInv, Validated, backendVars, dbVars
<1>6. AddressInv'
  BY <1>1 DEF AddressInv
<1>7. IdleInv'
  BY <1>1 DEF IdleInv, GoroutineInv, OthersInv, AddInv, OneInv
<1>8. AddInv'
  BY <1>1 DEF AddInv, GoroutineInv, IdleInv, OthersInv, OneInv
<1>9. OneInv'
  BY <1>1 DEF OneInv, GoroutineInv, IdleInv, OthersInv, AddInv
<1>10. AdditionInv'
  BY <1>1 DEF AdditionInv, GoroutineInv, IdleInv, OthersInv, AddInv, OneInv
<1>11. StatusInv'
  BY <1>1 DEF StatusInv, GoroutineInv, IdleInv, OthersInv, AddInv, OneInv, InFlight
<1>12. OthersInv'
  BY <1>1 DEF OthersInv, TypeOK, GoroutineInv, UpdateInv, AdditionInv, IdleInv, AddInv, OneInv
<1> QED
  BY <1>1, <1>2, <1>3, <1>4, <1>5, <1>6, <1>7, <1>8, <1>9, <1>10, <1>11, <1>12
     DEF NetworkInv, BatchInv

LEMMA MarkStoppedKeeps == ASSUME NetworkInv, NEW n \in Names, MarkStopped(n) PROVE NetworkInv'
<1>1. /\ DbInv' /\ OthersKept(n) /\ Registered(n) /\ Registered(n)'
      /\ UNCHANGED <<minted, taken, cont>> /\ reg'[n].uuid = reg[n].uuid
      /\ reg'[n].ip = reg[n].ip /\ reg'[n].config = reg[n].config /\ reg'[n].status = "stopped"
  BY StatusDoes DEF MarkStopped
<1>2. RegistryInv' /\ RunningIsRegistered' /\ AddressesDistinct'
  BY <1>1 DEF DbInv
<1>3. IdleInv'
  <2>2. crashes' \in Nat /\ (op' = "delete" \/ (op' = "idle" /\ todo' = {}))
    BY DEF MarkStopped, GoTo, Ends, NetworkInv, BatchInv, IdleInv
  <2>3. batch = {n} /\ HasContainer(n)
    BY DEF MarkStopped, NetworkInv, BatchInv, OneInv, OnePhase
  <2>4. \A m \in Names \ {n} : Registered(m) => HasContainer(m)
    BY <2>3 DEF MarkStopped, NetworkInv, BatchInv, OthersInv
  <2>5. Validated'
    BY <1>1, <2>3, <2>4 DEF Validated, OthersKept, Registered, HasContainer
  <2> QED
    BY <2>2, <2>5 DEF IdleInv
<1> USE DEF MarkStopped, NetworkInv, BatchInv, Took, Over, GoTo, Ends, Goes, Succeeds, FailsWith,
            outerVars, loopVars, opVars, gorVars, runVars, Starting, Active, adds, UpPhase,
            AddPhase, OnePhase, Idle, Enter, Dies, HasUpdates, Registered, HasContainer, Running,
            OthersKept, Fresh, RunsWanted, Deployed, Seen, DbInv, Validated, backendVars, dbVars
<1>4. TypeOK' /\ AddressInv' /\ AddInv' /\ GoroutineInv' /\ UpdateInv' /\ AdditionInv'
  BY <1>1 DEF TypeOK, AddressInv, AddInv, GoroutineInv, UpdateInv, AdditionInv
<1>5. OneInv' /\ StatusInv'
  BY <1>1 DEF OneInv, GoroutineInv, IdleInv, OthersInv, AddInv, StatusInv, InFlight
<1>6. OthersInv'
  BY <1>1 DEF OthersInv, TypeOK, GoroutineInv, UpdateInv, AdditionInv, IdleInv, AddInv, OneInv
<1> QED
  BY <1>1, <1>2, <1>3, <1>4, <1>5, <1>6 DEF NetworkInv, BatchInv

LEMMA MarkRestartedKeeps == ASSUME NetworkInv, NEW n \in Names, MarkRestarted(n) PROVE NetworkInv'
<1>1. /\ DbInv' /\ OthersKept(n) /\ Registered(n) /\ Registered(n)'
      /\ UNCHANGED <<minted, taken, cont>> /\ reg'[n].uuid = reg[n].uuid
      /\ reg'[n].ip = reg[n].ip /\ reg'[n].config = reg[n].config /\ reg'[n].status = "started"
  BY StatusDoes DEF MarkRestarted
<1>2. RegistryInv' /\ RunningIsRegistered' /\ AddressesDistinct'
  BY <1>1 DEF DbInv
<1>3. IdleInv'
  <2>2. crashes' \in Nat /\ op' = "idle" /\ todo' = {}
    BY DEF MarkRestarted, GoTo, Ends, NetworkInv, BatchInv, IdleInv
  <2>3. batch = {n} /\ HasContainer(n)
    BY DEF MarkRestarted, NetworkInv, BatchInv, OneInv, OnePhase
  <2>4. \A m \in Names \ {n} : Registered(m) => HasContainer(m)
    BY <2>3 DEF MarkRestarted, NetworkInv, BatchInv, OthersInv
  <2>5. Validated'
    BY <1>1, <2>3, <2>4 DEF Validated, OthersKept, Registered, HasContainer
  <2> QED
    BY <2>2, <2>5 DEF IdleInv
<1> USE DEF MarkRestarted, NetworkInv, BatchInv, Took, Over, GoTo, Ends, Goes, Succeeds,
            FailsWith, outerVars, loopVars, opVars, gorVars, runVars, Starting, Active, adds,
            UpPhase, AddPhase, OnePhase, Idle, Enter, Dies, HasUpdates, Registered, HasContainer,
            Running, OthersKept, Fresh, RunsWanted, Deployed, Seen, DbInv, Validated, backendVars,
            dbVars
<1>4. /\ TypeOK' /\ AddressInv' /\ OthersInv' /\ AddInv' /\ OneInv' /\ GoroutineInv'
      /\ UpdateInv' /\ AdditionInv'
  BY <1>1 DEF TypeOK, AddressInv, OthersInv, AddInv, OneInv, GoroutineInv, UpdateInv, AdditionInv
<1>5. StatusInv'
  BY <1>1 DEF StatusInv, GoroutineInv, IdleInv, OthersInv, AddInv, OneInv, InFlight
<1> QED
  BY <1>1, <1>2, <1>3, <1>4, <1>5 DEF NetworkInv, BatchInv

LEMMA DeleteKeeps == ASSUME NetworkInv, NEW n \in Names, Delete(n) PROVE NetworkInv'
<1>1. /\ DbInv' /\ OthersKept(n) /\ Registered(n) /\ ~Registered(n)'
      /\ UNCHANGED <<minted, taken, cont>>
  BY DeleteDoes DEF Delete
<1>2. RegistryInv' /\ RunningIsRegistered' /\ AddressesDistinct'
  BY <1>1 DEF DbInv
<1>3. IdleInv'
  <2>2. crashes' \in Nat /\ op' = "idle" /\ todo' = {}
    BY DEF Delete, GoTo, Ends, NetworkInv, BatchInv, IdleInv
  <2>3. batch = {n}
    BY DEF Delete, NetworkInv, BatchInv, OneInv, OnePhase
  <2>4. \A m \in Names \ {n} : Registered(m) => HasContainer(m)
    BY <2>3 DEF Delete, NetworkInv, BatchInv, OthersInv
  <2>5. Validated'
    BY <1>1, <2>3, <2>4 DEF Validated, OthersKept, Registered, HasContainer
  <2> QED
    BY <2>2, <2>5 DEF IdleInv
<1> USE DEF Delete, NetworkInv, BatchInv, Took, Over, GoTo, Ends, Goes, Succeeds, FailsWith,
            outerVars, loopVars, opVars, gorVars, runVars, Starting, Active, adds, UpPhase,
            AddPhase, OnePhase, Idle, Enter, Dies, HasUpdates, Registered, HasContainer, Running,
            OthersKept, Fresh, RunsWanted, Deployed, Seen, DbInv, Validated, backendVars, dbVars
<1>4. /\ AddressInv' /\ OthersInv' /\ AddInv' /\ OneInv' /\ GoroutineInv' /\ UpdateInv'
      /\ AdditionInv' /\ StatusInv'
  BY <1>1
     DEF AddressInv, OthersInv, AddInv, OneInv, GoroutineInv, UpdateInv, AdditionInv, StatusInv,
         InFlight
<1>5. TypeOK'
  BY <1>1 DEF TypeOK, GoroutineInv, IdleInv, OthersInv, AddInv, OneInv
<1> QED
  BY <1>1, <1>2, <1>3, <1>4, <1>5 DEF NetworkInv, BatchInv

LEMMA DestroyRegistrationKeeps ==
  ASSUME NetworkInv, NEW n \in Names, DestroyRegistration(n)
  PROVE NetworkInv'
<1>1. /\ DbInv' /\ OthersKept(n) /\ Registered(n) /\ ~Registered(n)'
      /\ UNCHANGED <<minted, taken, cont>>
  BY DeleteDoes DEF DestroyRegistration
<1>2. RegistryInv' /\ RunningIsRegistered' /\ AddressesDistinct'
  BY <1>1 DEF DbInv
<1>3. TypeOK'
  <2>2. n \in batch /\ \A m \in Names \ {n} : Registered(m) => Registered(m)'
    BY <1>1 DEF OthersKept, Registered, DestroyRegistration, NetworkInv, GoroutineInv
  <2> QED
    BY <1>1, <2>2 DEF DestroyRegistration, FailsWith, outerVars, loopVars, opVars, NetworkInv,
       TypeOK, DbInv
<1>4. UpdateInv'
  <2>2. /\ gor[n] = "delete" /\ gor' = [gor EXCEPT ![n] = "none"]
        /\ op \in {"upStart", "addStart", "destroy"}
        /\ UNCHANGED <<op, todo, good, failed, started, batch, updates, before, want>>
        /\ gfailed' = gfailed \cup {n}
    BY DEF DestroyRegistration, FailsWith, outerVars, loopVars, opVars, NetworkInv,
       GoroutineInv, Starting, Idle
  <2>3. gor'[n] = "none" /\ \A m \in Names \ {n} : gor'[m] = gor[m]
    BY <2>2 DEF NetworkInv, TypeOK
  <2>4. n \in batch /\ batch \subseteq Names /\ updates \subseteq batch
    BY <2>2 DEF NetworkInv, GoroutineInv, TypeOK, BatchInv, OthersInv
  <2>5. \A m \in Names \ {n} : /\ Registered(m)' <=> Registered(m)
                               /\ reg'[m] = reg[m] /\ (Deployed(m) => Deployed(m)')
    BY <1>1, <2>2 DEF OthersKept, Registered, Deployed, RunsWanted
  <2>6. \A m \in updates : Registered(m)' => reg'[m].uuid = before[m].uuid
    BY <1>1, <2>2, <2>4, <2>5 DEF NetworkInv, UpdateInv, UpPhase, AddPhase
  <2>7. CASE op = "upStart"
    <3>1. n \in updates
      BY <2>2, <2>4, <2>7 DEF NetworkInv, UpdateInv, UpPhase
    <3>2. \A m \in batch \ updates : ~Registered(m)' /\ gor'[m] = "none"
      BY <2>3, <2>4, <2>5, <2>7, <3>1 DEF NetworkInv, UpdateInv, UpPhase
    <3>3. todo \cup good \cup started \cup gfailed' \subseteq updates
      BY <2>2, <2>7, <3>1 DEF NetworkInv, UpdateInv, UpPhase
    <3>4. gfailed' = {} => updates \ failed \subseteq todo \cup Active' \cup started
      BY <2>2, <2>3, <2>4, <2>7 DEF NetworkInv, UpdateInv, Active
    <3> QED
      BY <2>2, <2>6, <2>7, <3>2, <3>3, <3>4 DEF UpdateInv, UpPhase, AddPhase
  <2>8. CASE op \in {"addStart", "destroy"}
    <3>1. n \notin updates
      BY <2>2, <2>8 DEF NetworkInv, UpdateInv, AddPhase
    <3>2. \A m \in updates : gor'[m] = "none" /\ (Deployed(m) => Deployed(m)')
      BY <2>3, <2>4, <2>5, <2>8, <3>1 DEF NetworkInv, UpdateInv, AddPhase
    <3> QED
      BY <2>2, <2>6, <2>8, <3>2 DEF NetworkInv, UpdateInv, UpPhase, AddPhase
  <2> QED
    BY <2>2, <2>7, <2>8
<1>10. OthersInv'
  <2>1. n \in batch /\ op # "idle" /\ UNCHANGED <<op, batch, before, last, want>>
    BY DEF DestroyRegistration, outerVars, loopVars, opVars, runVars, NetworkInv, GoroutineInv,
       Starting, Idle
  <2>2. \A m \in Names \ batch : Seen'[m] = Seen[m]
    BY <1>1, <2>1, SeenKept
  <2>3. \A m \in Names \ batch : Registered(m)' => HasContainer(m)'
    BY <1>1, <2>1 DEF OthersKept, Registered, HasContainer, NetworkInv, BatchInv, OthersInv
  <2> QED
    BY <2>1, <2>2, <2>3 DEF OthersInv, NetworkInv, BatchInv
<1> USE DEF DestroyRegistration, NetworkInv, BatchInv, Took, Over, GoTo, Ends, Goes, Succeeds,
            FailsWith, outerVars, loopVars, opVars, gorVars, runVars, Starting, Active, adds,
            UpPhase, AddPhase, OnePhase, Idle, Enter, Dies, HasUpdates, Registered, HasContainer,
            Running, OthersKept, Fresh, RunsWanted, Deployed, Seen, DbInv, Validated, backendVars,
            dbVars
<1>5. AddressInv'
  BY <1>1 DEF AddressInv
<1>6. StatusInv'
  BY <1>1 DEF StatusInv, InFlight
<1>7. IdleInv'
  BY <1>1 DEF IdleInv, GoroutineInv, OthersInv, AddInv, OneInv
<1>8. AddInv'
  BY <1>1 DEF AddInv, GoroutineInv, IdleInv, OthersInv, OneInv
<1>9. OneInv'
  BY <1>1 DEF OneInv, GoroutineInv, IdleInv, OthersInv, AddInv
<1>11. GoroutineInv'
  BY <1>1 DEF GoroutineInv, TypeOK, UpdateInv, AdditionInv, IdleInv, OthersInv, AddInv, OneInv
<1>12. AdditionInv'
  BY <1>1 DEF AdditionInv, TypeOK, GoroutineInv, UpdateInv, IdleInv, OthersInv, AddInv, OneInv
<1> QED
  BY <1>1, <1>2, <1>3, <1>4, <1>5, <1>6, <1>7, <1>8, <1>9, <1>10, <1>11, <1>12
     DEF NetworkInv, BatchInv

LEMMA UnregisterKeeps == ASSUME NetworkInv, NEW n \in Names, Unregister(n) PROVE NetworkInv'
<1>1. /\ DbInv' /\ OthersKept(n) /\ ~Registered(n)' /\ UNCHANGED <<minted, taken, cont>>
  BY UnregisterDoes DEF Unregister
<1>2. RegistryInv' /\ RunningIsRegistered' /\ AddressesDistinct'
  BY <1>1 DEF DbInv
<1>3. TypeOK'
  <2>2. gor' = Idle
    BY DEF Unregister, gorVars, NetworkInv, GoroutineInv, Starting
  <2> QED
    BY <1>1, <2>2 DEF Unregister, Took, Idle, opVars, gorVars, NetworkInv, TypeOK, DbInv
<1> USE DEF Unregister, NetworkInv, BatchInv, Took, Over, GoTo, Ends, Goes, Succeeds, FailsWith,
            outerVars, loopVars, opVars, gorVars, runVars, Starting, Active, adds, UpPhase,
            AddPhase, OnePhase, Idle, Enter, Dies, HasUpdates, Registered, HasContainer, Running,
            OthersKept, Fresh, RunsWanted, Deployed, Seen, DbInv, Validated, backendVars, dbVars
<1>4. AddressInv'
  BY <1>1 DEF AddressInv
<1>5. OneInv'
  BY <1>1 DEF OneInv
<1>6. GoroutineInv'
  BY <1>1 DEF GoroutineInv
<1>7. StatusInv'
  BY <1>1 DEF StatusInv, InFlight
<1>8. IdleInv'
  BY <1>1 DEF IdleInv, GoroutineInv, OthersInv, AddInv, OneInv
<1>9. AddInv'
  BY <1>1 DEF AddInv, GoroutineInv, IdleInv, OthersInv, OneInv
<1>10. AdditionInv'
  BY <1>1 DEF AdditionInv, GoroutineInv, IdleInv, OthersInv, AddInv, OneInv
<1>11. OthersInv'
  BY <1>1 DEF OthersInv, TypeOK, GoroutineInv, UpdateInv, AdditionInv, IdleInv, AddInv, OneInv
<1>12. UpdateInv'
  BY <1>1 DEF UpdateInv, TypeOK, GoroutineInv, AdditionInv, IdleInv, OthersInv, AddInv, OneInv
<1> QED
  BY <1>1, <1>2, <1>3, <1>4, <1>5, <1>6, <1>7, <1>8, <1>9, <1>10, <1>11, <1>12
     DEF NetworkInv, BatchInv


(* The steps that do not call the backend.                                 *)
QuietStep ==
  \/ RequestAdd \/ RequestOther
  \/ UpRemoveEnds \/ UpResetEnds \/ UpMarkEnds \/ RegisterEnds \/ DestroyEnds \/ AddEnds
  \/ StopScheduling \/ StartEnds \/ Finish \/ Crash
  \/ \E n \in Names :
       \/ UpRemoveFails(n) \/ RegisterFails(n) \/ Destroy(n) \/ Schedule(n) \/ PortsStayClosed(n)
       \/ KillFails(n) \/ StartFails(n) \/ Panic(n)

LEMMA QuietKeeps == ASSUME NetworkInv, QuietStep PROVE NetworkInv'
<1>1. UNCHANGED backendVars
  BY DEF QuietStep, RequestAdd, RequestOther, UpRemoveEnds, UpResetEnds, UpMarkEnds, RegisterEnds,
         DestroyEnds, AddEnds, Finish, StopScheduling, StartEnds, Crash, UpRemoveFails,
         RegisterFails, Destroy, Schedule, KillFails, StartFails, Panic, PortsStayClosed, Enter,
         Dies
<1>2. RegistryInv' /\ RunningIsRegistered' /\ AddressesDistinct'
  BY <1>1 DEF NetworkInv, RegistryInv, RunningIsRegistered, AddressesDistinct, Registered,
     HasContainer,
     backendVars, dbVars
<1>13. ASSUME RequestOther PROVE OneInv'
  <2>1. PICK n \in Names, k \in {"remove", "stop", "start"} :
          /\ Registered(n) /\ Enter(k, {n}, NoConfig) /\ todo' = {n}
          /\ op' = (IF k = "start" THEN "start" ELSE "kill")
    BY <1>13 DEF RequestOther
  <2>2. /\ kind' = k /\ want' = NoConfig /\ batch' = {n} /\ before' = Seen /\ Validated
        /\ UNCHANGED <<reg, cont>>
    BY <2>1 DEF Enter, NetworkInv, BatchInv, IdleInv, backendVars, dbVars
  <2>3. Registered(n)' /\ HasContainer(n)'
    BY <2>1, <2>2 DEF Validated, Registered, HasContainer
  <2>4. /\ before'[n] # NoReg /\ reg'[n].uuid = before'[n].uuid /\ reg'[n].config = before'[n].config
    BY <2>1, <2>2 DEF Seen, Registered, NoReg
  <2> QED
    BY <2>1, <2>2, <2>3, <2>4 DEF OneInv, OnePhase
<1> USE DEF NetworkInv, BatchInv, Took, Over, GoTo, Ends, Goes, Succeeds, FailsWith, outerVars,
            loopVars, opVars, gorVars, runVars, Starting, Active, adds, UpPhase, AddPhase,
            OnePhase, Idle, Enter, Dies, HasUpdates, Registered, HasContainer, Running,
            OthersKept, Fresh, RunsWanted, Deployed, Seen, DbInv, Validated, backendVars, dbVars
<1>3. TypeOK'
  <2> USE DEF TypeOK
  <2>1. CASE AddEnds
    BY <2>1 DEF AddEnds
  <2>2. CASE DestroyEnds
    BY <2>2 DEF DestroyEnds
  <2>3. CASE RegisterEnds
    BY <2>3 DEF RegisterEnds
  <2>4. CASE StartEnds
    BY <2>4 DEF StartEnds
  <2>5. CASE StopScheduling
    BY <2>5 DEF StopScheduling
  <2>6. CASE UpMarkEnds
    BY <2>6 DEF UpMarkEnds
  <2>7. CASE UpRemoveEnds
    BY <2>7 DEF UpRemoveEnds
  <2>8. CASE UpResetEnds
    BY <2>8 DEF UpResetEnds
  <2>9. CASE Finish
    BY <2>9 DEF Finish
  <2>10. CASE Crash
    BY <2>10 DEF Crash
  <2>11. ASSUME NEW n \in Names, RegisterFails(n) PROVE TypeOK'
    BY <2>11 DEF RegisterFails
  <2>12. ASSUME NEW n \in Names, UpRemoveFails(n) PROVE TypeOK'
    BY <2>12 DEF UpRemoveFails
  <2>13. ASSUME NEW n \in Names, KillFails(n) PROVE TypeOK'
    BY <2>13 DEF KillFails
  <2>14. ASSUME NEW n \in Names, Panic(n) PROVE TypeOK'
    BY <2>14 DEF Panic
  <2>15. ASSUME NEW n \in Names, StartFails(n) PROVE TypeOK'
    BY <2>15 DEF StartFails
  <2>16. ASSUME NEW n \in Names, PortsStayClosed(n) PROVE TypeOK'
    BY <2>16 DEF PortsStayClosed
  <2> USE DEF GoroutineInv, IdleInv, OthersInv, AddInv, OneInv
  <2>17. CASE RequestOther
    BY <2>17 DEF RequestOther
  <2>18. ASSUME NEW n \in Names, Schedule(n) PROVE TypeOK'
    BY <2>18 DEF Schedule
  <2> USE DEF UpdateInv, AdditionInv
  <2>19. ASSUME NEW n \in Names, Destroy(n) PROVE TypeOK'
    BY <2>19 DEF Destroy
  <2> USE DEF NoReg, NoCont, Matching, RegistryInv
  <2>20. CASE RequestAdd
    BY <2>20, NetworkDb, RegistrationIs, ContainerIs, SMTT(60) DEF RequestAdd
  <2> QED
    BY <2>1, <2>2, <2>3, <2>4, <2>5, <2>6, <2>7, <2>8, <2>9, <2>10, <2>11, <2>12, <2>13, <2>14,
       <2>15, <2>16, <2>17, <2>18, <2>19, <2>20
       DEF QuietStep
<1>4. AddressInv'
  <2> USE DEF AddressInv
  <2>1. CASE RequestAdd
    BY <2>1 DEF RequestAdd
  <2>2. CASE RequestOther
    BY <2>2 DEF RequestOther
  <2>3. CASE UpRemoveEnds \/ UpResetEnds \/ UpMarkEnds \/ RegisterEnds
            \/ DestroyEnds \/ AddEnds \/ StopScheduling \/ StartEnds
    BY <2>3
       DEF UpRemoveEnds, UpResetEnds, UpMarkEnds, RegisterEnds, DestroyEnds, AddEnds,
           StopScheduling, StartEnds
  <2>4. CASE Finish
    BY <2>4 DEF Finish
  <2>5. ASSUME NEW n \in Names, UpRemoveFails(n) \/ RegisterFails(n) PROVE AddressInv'
    BY <2>5 DEF UpRemoveFails, RegisterFails
  <2>6. ASSUME NEW n \in Names, PortsStayClosed(n) PROVE AddressInv'
    BY <2>6 DEF PortsStayClosed
  <2>7. ASSUME NEW n \in Names, Destroy(n) PROVE AddressInv'
    BY <2>7 DEF Destroy
  <2> USE DEF GoroutineInv, IdleInv, OthersInv, AddInv, OneInv
  <2>8. ASSUME NEW n \in Names, KillFails(n) \/ StartFails(n) \/ Panic(n) PROVE AddressInv'
    BY <2>8 DEF KillFails, StartFails, Panic
  <2>9. ASSUME NEW n \in Names, Schedule(n) PROVE AddressInv'
    BY <2>9 DEF Schedule
  <2>10. CASE Crash
    <3>1. op' = "idle" /\ inRun' = FALSE /\ UNCHANGED backendVars /\ op # "idle"
      BY <2>10 DEF Crash, Dies, Ends
    <3> QED
      BY <3>1 DEF NetworkInv, AddressInv, GoroutineInv, Registered, HasContainer, backendVars,
         dbVars
  <2> QED
    BY <2>1, <2>2, <2>3, <2>4, <2>5, <2>6, <2>7, <2>8, <2>9, <2>10 DEF QuietStep
<1>5. IdleInv'
  <2> USE DEF IdleInv, GoroutineInv, OthersInv, AddInv, OneInv
  <2>1. CASE RequestAdd
    BY <2>1 DEF RequestAdd
  <2>2. CASE RequestOther
    BY <2>2 DEF RequestOther
  <2>3. CASE UpRemoveEnds \/ UpResetEnds \/ UpMarkEnds \/ RegisterEnds
            \/ DestroyEnds \/ AddEnds \/ StopScheduling \/ StartEnds
    BY <2>3
       DEF UpRemoveEnds, UpResetEnds, UpMarkEnds, RegisterEnds, DestroyEnds, AddEnds,
           StopScheduling, StartEnds
  <2>4. ASSUME NEW n \in Names, UpRemoveFails(n) \/ RegisterFails(n) PROVE IdleInv'
    BY <2>4 DEF UpRemoveFails, RegisterFails
  <2>5. ASSUME NEW n \in Names, Schedule(n) \/ PortsStayClosed(n) PROVE IdleInv'
    BY <2>5 DEF Schedule, PortsStayClosed
  <2>6. ASSUME NEW n \in Names, Destroy(n) PROVE IdleInv'
    BY <2>6 DEF Destroy
  <2>7. CASE Finish
    <3>1. crashes' \in Nat /\ op' = "idle" /\ todo' = {} /\ UNCHANGED backendVars
      BY <2>7 DEF Finish, GoTo, Ends, NetworkInv, BatchInv, IdleInv
    <3>2. CASE failed = {}
      <4>1. \A m \in batch : Deployed(m)
        BY <2>7, <3>2 DEF Finish, NetworkInv, UpdateInv, AdditionInv, AddPhase, adds
      <4>2. \A m \in Names \ batch : Registered(m) => HasContainer(m)
        BY <2>7 DEF Finish, NetworkInv, BatchInv, OthersInv
      <4>3. Validated
        BY <4>1, <4>2 DEF Validated, Deployed, RunsWanted, HasContainer, NoCont
      <4> QED
        BY <3>1, <4>3 DEF IdleInv, Validated, Registered, HasContainer, backendVars, dbVars
    <3>3. CASE failed # {}
      <4>1. inRun' = FALSE
        BY <2>7, <3>3 DEF Finish, Ends
      <4> QED
        BY <3>1, <4>1 DEF IdleInv
    <3> QED
      BY <3>2, <3>3
  <2>8. CASE Crash
    <3>1. op' = "idle" /\ todo' = {} /\ crashes' \in Nat
      BY <2>8 DEF Crash, Ends, Dies, NetworkInv, BatchInv, IdleInv
    <3>2. inRun' = FALSE
      BY <2>8 DEF Crash, Dies, Ends
    <3> QED
      BY <3>1, <3>2 DEF IdleInv
  <2>9. ASSUME NEW n \in Names, KillFails(n) PROVE IdleInv'
    <3>1. op' = "idle" /\ todo' = {} /\ crashes' \in Nat
      BY <2>9 DEF KillFails, Ends, Dies, NetworkInv, BatchInv, IdleInv
    <3>2. inRun' = FALSE
      BY <2>9 DEF KillFails, Dies, Ends
    <3> QED
      BY <3>1, <3>2 DEF IdleInv
  <2>10. ASSUME NEW n \in Names, StartFails(n) PROVE IdleInv'
    <3>1. op' = "idle" /\ todo' = {} /\ crashes' \in Nat
      BY <2>10 DEF StartFails, Ends, Dies, NetworkInv, BatchInv, IdleInv
    <3>2. inRun' = FALSE
      BY <2>10 DEF StartFails, Dies, Ends
    <3> QED
      BY <3>1, <3>2 DEF IdleInv
  <2>11. ASSUME NEW n \in Names, Panic(n) PROVE IdleInv'
    <3>1. op' = "idle" /\ todo' = {} /\ crashes' \in Nat
      BY <2>11 DEF Panic, Ends, Dies, NetworkInv, BatchInv, IdleInv
    <3>2. inRun' = FALSE
      BY <2>11 DEF Panic, Dies, Ends
    <3> QED
      BY <3>1, <3>2 DEF IdleInv
  <2> QED
    BY <2>1, <2>2, <2>3, <2>4, <2>5, <2>6, <2>7, <2>8, <2>9, <2>10, <2>11 DEF QuietStep
<1>6. OthersInv'
  <2> USE DEF OthersInv
  <2>1. CASE Finish
    BY <2>1 DEF Finish
  <2>2. CASE Crash
    BY <2>2 DEF Crash
  <2>3. ASSUME NEW n \in Names, KillFails(n) \/ StartFails(n) \/ Panic(n) PROVE OthersInv'
    BY <2>3 DEF KillFails, StartFails, Panic
  <2> USE DEF GoroutineInv, IdleInv, AddInv, OneInv
  <2>4. ASSUME NEW n \in Names, UpRemoveFails(n) \/ RegisterFails(n) PROVE OthersInv'
    BY <2>4 DEF UpRemoveFails, RegisterFails
  <2>5. ASSUME NEW n \in Names, Schedule(n) \/ PortsStayClosed(n) PROVE OthersInv'
    <3>1. CASE Schedule(n)
      BY <3>1 DEF Schedule
    <3>2. CASE PortsStayClosed(n)
      BY <3>2 DEF PortsStayClosed
    <3> QED
      BY <2>5, <3>1, <3>2
  <2>6. ASSUME NEW n \in Names, Destroy(n) PROVE OthersInv'
    BY <2>6 DEF Destroy
  <2> USE DEF TypeOK, UpdateInv, AdditionInv
  <2>7. CASE UpRemoveEnds \/ UpResetEnds \/ UpMarkEnds \/ RegisterEnds
            \/ DestroyEnds \/ AddEnds \/ StopScheduling \/ StartEnds
    BY <2>7
       DEF UpRemoveEnds, UpResetEnds, UpMarkEnds, RegisterEnds, DestroyEnds, AddEnds,
           StopScheduling, StartEnds
  <2>8. CASE RequestAdd
    BY <2>8, NetworkDb, RegistrationIs, ContainerIs DEF RequestAdd
  <2>9. CASE RequestOther
    BY <2>9, NetworkDb, RegistrationIs, ContainerIs, SMTT(60) DEF RequestOther
  <2> QED
    BY <2>1, <2>2, <2>3, <2>4, <2>5, <2>6, <2>7, <2>8, <2>9 DEF QuietStep
<1>7. AddInv'
  <2> USE DEF AddInv
  <2>1. CASE RequestOther
    BY <2>1 DEF RequestOther
  <2>2. CASE Finish
    BY <2>2 DEF Finish
  <2>3. CASE Crash
    BY <2>3 DEF Crash
  <2>4. ASSUME NEW n \in Names, KillFails(n) \/ StartFails(n) \/ Panic(n) PROVE AddInv'
    BY <2>4 DEF KillFails, StartFails, Panic
  <2> USE DEF GoroutineInv, IdleInv, OthersInv, OneInv
  <2>5. CASE UpRemoveEnds \/ UpResetEnds \/ UpMarkEnds \/ RegisterEnds
            \/ DestroyEnds \/ AddEnds \/ StopScheduling \/ StartEnds
    BY <2>5
       DEF UpRemoveEnds, UpResetEnds, UpMarkEnds, RegisterEnds, DestroyEnds, AddEnds,
           StopScheduling, StartEnds
  <2>6. ASSUME NEW n \in Names, UpRemoveFails(n) \/ RegisterFails(n) PROVE AddInv'
    BY <2>6 DEF UpRemoveFails, RegisterFails
  <2>7. ASSUME NEW n \in Names, Schedule(n) \/ PortsStayClosed(n) PROVE AddInv'
    BY <2>7 DEF Schedule, PortsStayClosed
  <2>8. ASSUME NEW n \in Names, Destroy(n) PROVE AddInv'
    BY <2>8 DEF Destroy
  <2>9. CASE RequestAdd
    <3>1. PICK ns \in SUBSET Names, c \in Configs : Enter("add", ns, c) /\ op' \in {"upRemove", "register"}
      BY <2>9 DEF RequestAdd
    <3>2. /\ kind' = "add" /\ want' = c /\ batch' = ns /\ before' = Seen
          /\ updates' = {n \in ns : Registered(n)}
      BY <3>1 DEF Enter
    <3>3. \A n \in ns : Seen[n] # NoReg <=> Registered(n)
      BY DEF Seen, NoReg, Registered
    <3>4. updates' = {n \in batch' : before'[n] # NoReg}
      <4> HIDE DEF Seen, Registered, NetworkInv
      <4> QED
        BY <3>2, <3>3
    <3> QED
      BY <3>2, <3>4 DEF AddInv
  <2> QED
    BY <2>1, <2>2, <2>3, <2>4, <2>5, <2>6, <2>7, <2>8, <2>9 DEF QuietStep
<1>8. OneInv'
  <2> USE DEF OneInv
  <2>1. CASE RequestAdd
    BY <2>1 DEF RequestAdd
  <2>2. CASE UpRemoveEnds \/ UpResetEnds \/ UpMarkEnds \/ RegisterEnds
            \/ DestroyEnds \/ AddEnds \/ StopScheduling \/ StartEnds
    BY <2>2
       DEF UpRemoveEnds, UpResetEnds, UpMarkEnds, RegisterEnds, DestroyEnds, AddEnds,
           StopScheduling, StartEnds
  <2>3. CASE Finish
    BY <2>3 DEF Finish
  <2>4. CASE Crash
    BY <2>4 DEF Crash
  <2>5. ASSUME NEW n \in Names, UpRemoveFails(n) \/ RegisterFails(n) PROVE OneInv'
    BY <2>5 DEF UpRemoveFails, RegisterFails
  <2>6. ASSUME NEW n \in Names, KillFails(n) \/ StartFails(n) \/ Panic(n) PROVE OneInv'
    BY <2>6 DEF KillFails, StartFails, Panic
  <2>7. ASSUME NEW n \in Names, Destroy(n) PROVE OneInv'
    BY <2>7 DEF Destroy
  <2> USE DEF GoroutineInv, IdleInv, OthersInv, AddInv
  <2>8. ASSUME NEW n \in Names, Schedule(n) \/ PortsStayClosed(n) PROVE OneInv'
    BY <2>8 DEF Schedule, PortsStayClosed
  <2> QED
    BY <1>13, <2>1, <2>2, <2>3, <2>4, <2>5, <2>6, <2>7, <2>8 DEF QuietStep
<1>9. GoroutineInv'
  <2> USE DEF GoroutineInv
  <2>1. CASE RequestAdd
    BY <2>1, SMTT(60) DEF RequestAdd
  <2>2. CASE RequestOther
    BY <2>2 DEF RequestOther
  <2>3. CASE Finish
    BY <2>3 DEF Finish
  <2>4. CASE Crash
    BY <2>4 DEF Crash
  <2>5. ASSUME NEW n \in Names, UpRemoveFails(n) \/ RegisterFails(n) PROVE GoroutineInv'
    BY <2>5 DEF UpRemoveFails, RegisterFails
  <2>6. ASSUME NEW n \in Names, KillFails(n) \/ StartFails(n) \/ Panic(n) PROVE GoroutineInv'
    BY <2>6 DEF KillFails, StartFails, Panic
  <2> USE DEF TypeOK, UpdateInv, AdditionInv, IdleInv, OthersInv, AddInv, OneInv
  <2>7. CASE UpRemoveEnds \/ UpResetEnds \/ UpMarkEnds \/ RegisterEnds
            \/ DestroyEnds \/ AddEnds \/ StopScheduling \/ StartEnds
    BY <2>7
       DEF UpRemoveEnds, UpResetEnds, UpMarkEnds, RegisterEnds, DestroyEnds, AddEnds,
           StopScheduling, StartEnds
  <2>8. ASSUME NEW n \in Names, Schedule(n) \/ PortsStayClosed(n) PROVE GoroutineInv'
    BY <2>8, SMTT(60) DEF Schedule, PortsStayClosed
  <2>9. ASSUME NEW n \in Names, Destroy(n) PROVE GoroutineInv'
    <3>1. gor' = [gor EXCEPT ![n] = "destroy"] /\ \A m \in Names : gor[m] = "none"
      BY <2>9 DEF Destroy
    <3>2. Deployed(n) /\ n \in batch \ gfailed /\ started = {} /\ op = "destroy" /\ n \in todo
      BY <2>9 DEF Destroy, NetworkInv, GoroutineInv, TypeOK, AdditionInv
    <3>3. gor'[n] = "destroy" /\ \A m \in Names \ {n} : gor'[m] = "none"
      BY <3>1 DEF NetworkInv, TypeOK
    <3>4. /\ RunsWanted(n)' /\ reg'[n].status = "started"
          /\ UNCHANGED <<op, batch, started, gfailed>> /\ todo' = todo \ {n}
      BY <2>9, <3>2 DEF Destroy, Took, opVars, backendVars, dbVars, Deployed, RunsWanted,
         Registered
    <3> QED
      BY <3>2, <3>3, <3>4 DEF GoroutineInv, Starting, NetworkInv
  <2> QED
    BY <2>1, <2>2, <2>3, <2>4, <2>5, <2>6, <2>7, <2>8, <2>9 DEF QuietStep
<1>10. UpdateInv'
  <2> USE DEF UpdateInv
  <2>1. CASE RequestOther
    BY <2>1 DEF RequestOther
  <2>2. CASE Finish
    BY <2>2 DEF Finish
  <2>3. CASE Crash
    BY <2>3 DEF Crash
  <2>4. ASSUME NEW n \in Names, UpRemoveFails(n) \/ RegisterFails(n) PROVE UpdateInv'
    BY <2>4 DEF UpRemoveFails, RegisterFails
  <2>5. ASSUME NEW n \in Names, KillFails(n) \/ StartFails(n) \/ Panic(n) PROVE UpdateInv'
    BY <2>5 DEF KillFails, StartFails, Panic
  <2> USE DEF GoroutineInv, IdleInv, OthersInv, AddInv, OneInv
  <2>6. CASE UpRemoveEnds \/ UpResetEnds \/ UpMarkEnds \/ RegisterEnds
            \/ DestroyEnds \/ AddEnds \/ StopScheduling \/ StartEnds
    BY <2>6
       DEF UpRemoveEnds, UpResetEnds, UpMarkEnds, RegisterEnds, DestroyEnds, AddEnds,
           StopScheduling, StartEnds
  <2> USE DEF TypeOK, AdditionInv
  <2>7. ASSUME NEW n \in Names, Schedule(n) \/ PortsStayClosed(n) PROVE UpdateInv'
    BY <2>7 DEF Schedule, PortsStayClosed
  <2>8. ASSUME NEW n \in Names, Destroy(n) PROVE UpdateInv'
    BY <2>8 DEF Destroy
  <2> USE DEF NoReg, NoCont, Matching, RegistryInv
  <2>9. CASE RequestAdd
    BY <2>9, NetworkDb, RegistrationIs, ContainerIs DEF RequestAdd
  <2> QED
    BY <2>1, <2>2, <2>3, <2>4, <2>5, <2>6, <2>7, <2>8, <2>9 DEF QuietStep
<1>11. AdditionInv'
  <2> USE DEF AdditionInv
  <2>1. CASE RequestOther
    BY <2>1 DEF RequestOther
  <2>2. CASE AddEnds
    BY <2>2 DEF AddEnds
  <2>3. CASE UpRemoveEnds
    BY <2>3 DEF UpRemoveEnds
  <2>4. CASE UpResetEnds
    BY <2>4 DEF UpResetEnds
  <2>5. CASE Finish
    BY <2>5 DEF Finish
  <2>6. CASE Crash
    BY <2>6 DEF Crash
  <2>7. ASSUME NEW n \in Names, UpRemoveFails(n) \/ RegisterFails(n) PROVE AdditionInv'
    BY <2>7 DEF UpRemoveFails, RegisterFails
  <2>8. ASSUME NEW n \in Names, KillFails(n) \/ StartFails(n) \/ Panic(n) PROVE AdditionInv'
    BY <2>8 DEF KillFails, StartFails, Panic
  <2> USE DEF GoroutineInv, IdleInv, OthersInv, AddInv, OneInv
  <2>9. CASE RequestAdd
    BY <2>9 DEF RequestAdd
  <2>10. CASE DestroyEnds
    BY <2>10 DEF DestroyEnds
  <2>11. CASE StopScheduling
    BY <2>11 DEF StopScheduling
  <2> USE DEF TypeOK, UpdateInv
  <2>12. CASE UpMarkEnds
    BY <2>12 DEF UpMarkEnds
  <2>13. ASSUME NEW n \in Names, Schedule(n) \/ PortsStayClosed(n) PROVE AdditionInv'
    BY <2>13 DEF Schedule, PortsStayClosed
  <2>14. ASSUME NEW n \in Names, Destroy(n) PROVE AdditionInv'
    BY <2>14 DEF Destroy
  <2>15. CASE RegisterEnds
    BY <2>15, NetworkDb, RegistrationIs, ContainerIs DEF RegisterEnds
  <2>16. CASE StartEnds
    <3>1. todo = {} /\ gor = Idle /\ failed' = failed \cup gfailed /\ good' = {} /\ started' = {}
          /\ gfailed' = {} /\ UNCHANGED <<gor, batch, updates, want>>
      BY <2>16 DEF StartEnds, GoTo, opVars
    <3>2. /\ \A m \in Names : (Deployed(m) <=> Deployed(m)') /\ (Running(m) <=> Running(m)')
                              /\ (Registered(m) <=> Registered(m)') /\ reg'[m] = reg[m]
          /\ adds' = adds /\ adds \subseteq Names
      BY <2>16, <3>1 DEF StartEnds, backendVars, dbVars, Deployed, RunsWanted, Running,
         Registered, adds,
         NetworkInv, BatchInv, OthersInv, Starting
    <3>3. CASE op = "upStart"
      BY <2>16, <3>1, <3>3 DEF StartEnds, AdditionInv, AddPhase, GoTo
    <3>4. CASE op = "addStart"
      <4>1. /\ started \cup gfailed \subseteq adds
            /\ gfailed = {} => adds \subseteq started
            /\ \A m \in adds : m \in started \cup gfailed \/ Fresh(m)
        BY <3>1, <3>4 DEF NetworkInv, AdditionInv, AddPhase, Active, Idle
      <4>2. /\ \A m \in started : Deployed(m)
            /\ \A m \in gfailed : ~Running(m)
        BY <3>4 DEF NetworkInv, GoroutineInv, Starting
      <4>3. CASE gfailed = {}
        <5>1. op' = "addMark" /\ todo' = started
          BY <2>16, <3>4, <4>3 DEF StartEnds, GoTo
        <5> QED
          BY <3>1, <3>2, <4>1, <4>2, <4>3, <5>1 DEF AdditionInv, AddPhase, adds
      <4>4. CASE gfailed # {}
        <5>1. op' = "destroy" /\ todo' = started
          BY <2>16, <3>4, <4>4 DEF StartEnds, GoTo
        <5>2. \A m \in adds \ started : ~Running(m)
          BY <4>1, <4>2 DEF Fresh, Running, NoCont
        <5>3. failed' \cap adds # {}
          BY <3>1, <4>1, <4>4
        <5> QED
          BY <3>1, <3>2, <4>1, <4>2, <5>1, <5>2, <5>3 DEF AdditionInv, AddPhase, adds
      <4> QED
        BY <4>3, <4>4
    <3> QED
      BY <2>16, <3>3, <3>4 DEF StartEnds, Starting
  <2> QED
    BY <2>1, <2>2, <2>3, <2>4, <2>5, <2>6, <2>7, <2>8, <2>9, <2>10, <2>11, <2>12, <2>13, <2>14,
       <2>15, <2>16
       DEF QuietStep
<1>12. StatusInv'
  <2> USE DEF StatusInv, InFlight
  <2>1. CASE RequestAdd
    BY <2>1 DEF RequestAdd
  <2>2. CASE RequestOther
    BY <2>2 DEF RequestOther
  <2>3. CASE UpRemoveEnds \/ UpResetEnds \/ UpMarkEnds \/ RegisterEnds
            \/ DestroyEnds \/ AddEnds \/ StopScheduling \/ StartEnds
    <3>1. CASE UpRemoveEnds \/ UpResetEnds \/ UpMarkEnds \/ RegisterEnds
      BY <3>1 DEF UpRemoveEnds, UpResetEnds, UpMarkEnds, RegisterEnds
    <3>2. CASE DestroyEnds \/ StopScheduling
      BY <3>2 DEF DestroyEnds, StopScheduling
    <3>3. CASE AddEnds
      BY <3>3 DEF AddEnds, AdditionInv, GoroutineInv
    <3>4. CASE StartEnds
      BY <3>4 DEF StartEnds
    <3> QED
      BY <2>3, <3>1, <3>2, <3>3, <3>4
  <2>4. CASE Finish
    BY <2>4 DEF Finish
  <2>5. ASSUME NEW n \in Names, UpRemoveFails(n) \/ RegisterFails(n) PROVE StatusInv'
    BY <2>5 DEF UpRemoveFails, RegisterFails
  <2>6. ASSUME NEW n \in Names, PortsStayClosed(n) PROVE StatusInv'
    BY <2>6 DEF PortsStayClosed
  <2>7. ASSUME NEW n \in Names, Destroy(n) PROVE StatusInv'
    BY <2>7 DEF Destroy
  <2> USE DEF GoroutineInv, IdleInv, OthersInv, AddInv, OneInv
  <2>8. CASE Crash
    BY <2>8 DEF Crash
  <2>9. ASSUME NEW n \in Names, KillFails(n) \/ StartFails(n) \/ Panic(n) PROVE StatusInv'
    BY <2>9 DEF KillFails, StartFails, Panic
  <2>10. ASSUME NEW n \in Names, Schedule(n) PROVE StatusInv'
    BY <2>10 DEF Schedule
  <2> QED
    BY <2>1, <2>2, <2>3, <2>4, <2>5, <2>6, <2>7, <2>8, <2>9, <2>10 DEF QuietStep
<1> QED
  BY <1>1, <1>2, <1>3, <1>4, <1>5, <1>6, <1>7, <1>8, <1>9, <1>10, <1>11, <1>12
     DEF NetworkInv, BatchInv


LEMMA InitNetwork == Init => NetworkInv
<1> SUFFICES ASSUME Init PROVE NetworkInv
  OBVIOUS
<1>1. /\ \A n \in Names : reg[n] = NoReg /\ ~Registered(n)
      /\ \A u \in Uuid : cont[u] = NoCont
      /\ 0 \in 0 .. MaxUuid
  BY DEF Init, InitServices, Registered
<1>2. TypeOK
  BY <1>1 DEF Init, InitServices, TypeOK, Idle, Registered
<1>3. RegistryInv /\ RunningIsRegistered /\ AddressesDistinct /\ AddressInv
  BY <1>1 DEF RegistryInv, RunningIsRegistered, AddressesDistinct, AddressInv, NoCont
<1>4. BatchInv
  BY <1>1 DEF Init, BatchInv, IdleInv, OthersInv, AddInv, OneInv, UpPhase, AddPhase, OnePhase
<1>5. GoroutineInv
  BY <1>1 DEF Init, GoroutineInv, Starting, Idle
<1>6. UpdateInv /\ AdditionInv /\ StatusInv
  BY <1>1 DEF Init, UpdateInv, AdditionInv, StatusInv, UpPhase, AddPhase
<1> QED
  BY <1>2, <1>3, <1>4, <1>5, <1>6 DEF NetworkInv

LEMMA NextNetwork == NetworkInv /\ [Next]_vars => NetworkInv'
<1> SUFFICES ASSUME NetworkInv, [Next]_vars PROVE NetworkInv'
  OBVIOUS
<1>1. CASE QuietStep
  BY <1>1, QuietKeeps
<1>2. ASSUME NEW n \in Names,
             \/ UpRemove(n) \/ UpReset(n) \/ Mark(n) \/ Register(n) \/ Unregister(n)
             \/ Kill(n) \/ MarkStopped(n) \/ Delete(n) \/ Restart(n) \/ MarkRestarted(n)
      PROVE  NetworkInv'
  BY <1>2, UpRemoveKeeps, UpResetKeeps, MarkKeeps, RegisterKeeps, UnregisterKeeps, KillKeeps,
     MarkStoppedKeeps, DeleteKeeps, RestartKeeps, MarkRestartedKeeps
<1>3. ASSUME NEW n \in Names,
             \/ Create(n) \/ CreateFails(n) \/ MarkStarted(n) \/ PortsOpen(n)
             \/ DestroyContainer(n) \/ DestroyContainerFails(n)
             \/ DestroyRelease(n) \/ DestroyRegistration(n)
      PROVE  NetworkInv'
  BY <1>3, CreateKeeps, CreateFailsKeeps, MarkStartedKeeps, PortsOpenKeeps,
     DestroyContainerKeeps, DestroyContainerFailsKeeps, DestroyReleaseKeeps,
     DestroyRegistrationKeeps
<1>4. CASE UNCHANGED vars
  BY <1>4 DEF vars, backendVars, dbVars, opVars, loopVars, gorVars, runVars, NetworkInv, TypeOK,
     RegistryInv, RunningIsRegistered, AddressInv, AddressesDistinct, BatchInv, IdleInv,
     OthersInv, AddInv,
     OneInv, GoroutineInv, UpdateInv, AdditionInv, StatusInv, InFlight, Starting, UpPhase,
     AddPhase,
     OnePhase, Fresh, RunsWanted, Deployed, Registered, HasContainer, Running, Validated, Seen,
     adds,
     Active, Idle
<1> QED
  BY <1>1, <1>2, <1>3, <1>4 DEF Next, Operation, Goroutine, QuietStep

LEMMA NetworkInvariant == Spec => []NetworkInv
BY InitNetwork, NextNetwork, PTL DEF Spec

(* Whatever fails and wherever the API container dies, in any batch: the   *)
(* registry is well-typed, no two services share an address, and, while    *)
(* nothing crashed, a registration says started when its container runs,   *)
(* but for a service whose update failed.                                  *)
THEOREM RegistryIsRight == Spec => []RegistryOK
<1>1. NetworkInv => RegistryOK
  BY DEF NetworkInv, RegistryOK, StatusIsTrue, StatusInv, InFlight, BatchInv, IdleInv,
     GoroutineInv,
     Starting, Idle
<1> QED
  BY <1>1, NetworkInvariant, PTL

(* Whatever fails and wherever the API container dies, what runs belongs to *)
(* a registered service or is abandoned: it could not be removed or killed, *)
(* and the log asks the user to stop it.                                    *)
THEOREM NothingRunsUnregistered == Spec => []RunningIsRegistered
<1>1. NetworkInv => RunningIsRegistered
  BY DEF NetworkInv
<1> QED
  BY <1>1, NetworkInvariant, PTL

-----------------------------------------------------------------------------
(* The refinement.  What a script sees of a service.                       *)
SeenRecord == [uuid : Uuid, config : Configs \cup {NoConfig}, up : BOOLEAN]

LEMMA SeenIs ==
  ASSUME NetworkInv, NEW n \in Names
  PROVE  /\ Registered(n) <=> Seen[n] # NoReg
         /\ Registered(n) =>
              /\ Seen[n] \in SeenRecord
              /\ Seen[n].uuid = reg[n].uuid /\ Seen[n].config = reg[n].config
              /\ Seen[n].up <=> (reg[n].status = "started"
                                  /\ cont[reg[n].uuid] = [status |-> "running", config |-> reg[n].config])
<1>1. Registered(n) => reg[n].uuid \in Uuid /\ reg[n].config \in Configs \cup {NoConfig}
  BY NetworkDb, RegistrationIs
<1> QED
  BY <1>1 DEF Seen, SeenRecord, NoReg, Registered

LEMMA EndsOnce ==
  ASSUME NetworkInv, NetworkInv', op # "idle", op' = "idle", UNCHANGED <<kind, batch, want, before>>,
         \A n \in Names \ batch : Seen'[n] = Seen[n]
  PROVE  E!End
<1>1. \A n \in Names \ batch : Seen'[n] = before[n]
  BY DEF NetworkInv, BatchInv, OthersInv
<1>2. \A m, n \in Names : m # n /\ Seen'[m] # NoReg /\ Seen'[n] # NoReg
                           => Seen'[m].uuid # Seen'[n].uuid
  <2>1. \A n \in Names : Seen'[n] # NoReg => Registered(n)' /\ Seen'[n].uuid = reg'[n].uuid
    BY DEF Seen, Registered, NoReg
  <2> QED
    BY <2>1 DEF NetworkInv, RegistryInv
<1> QED
  BY <1>1, <1>2 DEF E!End, E!Identified

(* Each action that ends an instruction ends it as Enclave says.           *)
LEMMA FinishEnds == ASSUME NetworkInv, NetworkInv', Finish PROVE E!Next
<1>1. /\ op = "finish" /\ op' = "idle" /\ kind = "add"
      /\ UNCHANGED <<kind, batch, want, before, reg, cont, updates>>
  BY DEF Finish, Ends, opVars, backendVars, dbVars, NetworkInv, BatchInv, AddInv, AddPhase
<1>2. Seen' = Seen
  BY <1>1 DEF Seen, Registered
<1>3. E!End
  BY <1>1, <1>2, EndsOnce
<1>4. /\ updates = {n \in batch : before[n] # NoReg} /\ batch \subseteq Names
      /\ \A n \in updates : Registered(n) => reg[n].uuid = before[n].uuid
  BY <1>1 DEF NetworkInv, BatchInv, OthersInv, AddInv, UpdateInv, AddPhase
<1>5. \A n \in batch : Deployed(n) => Seen[n] # NoReg /\ Seen[n].up /\ Seen[n].config = want
  BY <1>4, SeenIs DEF Deployed, RunsWanted
<1>6. \A n \in updates : Seen[n] = NoReg \/ (Seen[n] # NoReg /\ Seen[n].uuid = before[n].uuid)
  BY <1>4, SeenIs
<1>7. CASE failed = {} /\ last' = "success"
  <2>1. \A n \in batch : Deployed(n)
    BY <1>1, <1>7 DEF NetworkInv, UpdateInv, AdditionInv, AddPhase, adds
  <2> QED
    BY <1>1, <1>2, <1>3, <1>4, <1>5, <1>6, <1>7, <2>1
       DEF E!Next, E!Succeed, E!Deploys, E!Keeps, E!New
<1>8. CASE last' = "failure"
  <2>1. (\A n \in adds : Deployed(n)) \/ (\A n \in adds : ~Registered(n))
    BY <1>1 DEF NetworkInv, AdditionInv
  <2>2. (\A n \in adds : Seen[n] # NoReg /\ Seen[n].up /\ Seen[n].config = want)
        \/ (\A n \in adds : Seen[n] = NoReg)
    BY <1>4, <1>5, <2>1 DEF Seen, adds
  <2>3. /\ adds = {n \in batch : before[n] = NoReg}
        /\ batch \ adds = updates
    BY <1>4 DEF adds
  <2> QED
    BY <1>1, <1>2, <1>3, <1>6, <1>8, <2>2, <2>3
       DEF E!Next, E!Fail, E!Deploys, E!Keeps, E!New
<1> QED
  BY <1>7, <1>8 DEF Finish, Ends

(* One service, which keeps its registration, up to its status.            *)
LEMMA OneServiceEnds ==
  ASSUME NetworkInv, NetworkInv', OnePhase, op' = "idle", UNCHANGED <<kind, batch, want, before>>,
         NEW n \in Names, n \in todo, OthersKept(n), Registered(n)',
         reg'[n].uuid = reg[n].uuid, reg'[n].config = reg[n].config
  PROVE  /\ E!End /\ batch = {n} /\ before[n] \in SeenRecord
         /\ \E up \in BOOLEAN : Seen'[n] = [before[n] EXCEPT !.up = up]
         /\ \A up \in BOOLEAN : (Seen'[n].up <=> up) => Seen'[n] = [before[n] EXCEPT !.up = up]
<1>1. /\ batch = {n} /\ before[n] # NoReg /\ Registered(n)
      /\ reg[n].uuid = before[n].uuid /\ reg[n].config = before[n].config
  BY DEF NetworkInv, BatchInv, OneInv
<1>2. before[n] \in SeenRecord
  BY <1>1 DEF NetworkInv, BatchInv, OthersInv, OnePhase, SeenRecord
<1>3. \A m \in Names \ batch : Seen'[m] = Seen[m]
  BY <1>1, SeenKept
<1>4. E!End
  BY <1>3, EndsOnce DEF OnePhase
<1>5. /\ Seen'[n] \in SeenRecord
      /\ Seen'[n].uuid = before[n].uuid /\ Seen'[n].config = before[n].config
  <2>1. reg'[n].uuid \in Uuid /\ reg'[n].config \in Configs \cup {NoConfig}
    BY <1>1, NetworkDb, RegistrationIs
  <2> QED
    BY <1>1, <2>1 DEF Seen, SeenRecord
<1>6. \A up \in BOOLEAN : (Seen'[n].up <=> up) => Seen'[n] = [before[n] EXCEPT !.up = up]
  BY <1>2, <1>5 DEF SeenRecord
<1>7. Seen'[n].up \in BOOLEAN
  BY <1>5 DEF SeenRecord
<1> QED
  BY <1>1, <1>2, <1>4, <1>6, <1>7

LEMMA OneFails ==
  ASSUME NetworkInv, NetworkInv', NEW n \in Names, KillFails(n) \/ StartFails(n)
  PROVE  E!Next
<1>1. /\ OnePhase /\ op' = "idle" /\ last' = "failure" /\ n \in todo
      /\ UNCHANGED <<kind, batch, want, before, reg, cont>>
  BY DEF KillFails, StartFails, Ends, OnePhase, opVars, backendVars, dbVars
<1>2. Registered(n) /\ kind # "add"
  BY <1>1 DEF NetworkInv, BatchInv, OneInv
<1>3. OthersKept(n) /\ Registered(n)'
  BY <1>1, <1>2 DEF OthersKept, Registered
<1>4. E!End /\ batch = {n} /\ \E up \in BOOLEAN : Seen'[n] = [before[n] EXCEPT !.up = up]
  BY <1>1, <1>2, <1>3, OneServiceEnds
<1> QED
  BY <1>1, <1>2, <1>4 DEF E!Next, E!Fail, E!Sets, OnePhase

LEMMA MarkStoppedEnds ==
  ASSUME NetworkInv, NetworkInv', NEW n \in Names, MarkStopped(n), op' = "idle"
  PROVE  E!Next
<1>1. /\ op = "stopped" /\ kind = "stop" /\ last' = "success" /\ n \in todo
      /\ UNCHANGED <<kind, batch, want, before>>
  BY DEF MarkStopped, GoTo, Ends, opVars, NetworkInv, BatchInv, OneInv, OnePhase
<1>2. /\ OthersKept(n) /\ Registered(n)' /\ reg'[n].uuid = reg[n].uuid
      /\ reg'[n].config = reg[n].config /\ reg'[n].status = "stopped"
  BY StatusDoes DEF MarkStopped
<1>3. Seen'[n].up = FALSE
  BY <1>2 DEF Seen
<1>4. E!End /\ batch = {n} /\ Seen'[n] = [before[n] EXCEPT !.up = FALSE]
  BY <1>1, <1>2, <1>3, OneServiceEnds DEF OnePhase
<1> QED
  BY <1>1, <1>4 DEF E!Next, E!Succeed, E!Sets, MarkStopped

LEMMA MarkRestartedEnds ==
  ASSUME NetworkInv, NetworkInv', NEW n \in Names, MarkRestarted(n)
  PROVE  E!Next
<1>1. /\ op = "restarted" /\ op' = "idle" /\ kind = "start" /\ last' = "success" /\ n \in todo
      /\ UNCHANGED <<kind, batch, want, before>>
  BY DEF MarkRestarted, Ends, opVars, NetworkInv, BatchInv, OneInv, OnePhase
<1>2. /\ OthersKept(n) /\ Registered(n) /\ Registered(n)' /\ reg'[n].uuid = reg[n].uuid
      /\ reg'[n].config = reg[n].config /\ reg'[n].status = "started" /\ UNCHANGED cont
  BY StatusDoes DEF MarkRestarted
<1>3. cont[reg[n].uuid] = [status |-> "running", config |-> reg[n].config]
  <2>1. HasContainer(n) /\ cont[reg[n].uuid].status = "running" /\ reg[n].config # NoConfig
    BY <1>1 DEF NetworkInv, BatchInv, OneInv, OnePhase
  <2>2. cont[reg[n].uuid].config = reg[n].config
    BY <1>2, <2>1 DEF NetworkInv, RegistryInv
  <2>3. cont[reg[n].uuid] \in Container
    BY <1>2, <2>1, NetworkDb, RegistrationIs, ContainerIs DEF HasContainer
  <2> QED
    BY <2>1, <2>2, <2>3 DEF Container
<1>4. Seen'[n].up = TRUE
  BY <1>2, <1>3 DEF Seen
<1>5. E!End /\ batch = {n} /\ Seen'[n] = [before[n] EXCEPT !.up = TRUE]
  BY <1>1, <1>2, <1>4, OneServiceEnds DEF OnePhase
<1> QED
  BY <1>1, <1>5 DEF E!Next, E!Succeed, E!Sets

LEMMA DeleteEnds ==
  ASSUME NetworkInv, NetworkInv', NEW n \in Names, Delete(n)
  PROVE  E!Next
<1>1. /\ op = "delete" /\ op' = "idle" /\ kind = "remove" /\ last' = "success" /\ batch = {n}
      /\ UNCHANGED <<kind, batch, want, before>>
  BY DEF Delete, Ends, opVars, NetworkInv, BatchInv, OneInv, OnePhase
<1>2. OthersKept(n) /\ ~Registered(n)'
  BY DeleteDoes
<1>3. Seen'[n] = NoReg /\ \A m \in Names \ batch : Seen'[m] = Seen[m]
  BY <1>1, <1>2, SeenKept DEF Seen
<1>4. E!End
  BY <1>1, <1>3, EndsOnce
<1> QED
  BY <1>1, <1>3, <1>4 DEF E!Next, E!Succeed

LEMMA DeathBreaks ==
  ASSUME NetworkInv, NetworkInv', Crash \/ \E n \in Names : Panic(n)
  PROVE  E!Next
<1>1. /\ op # "idle" /\ op' = "idle" /\ last' = "none"
      /\ UNCHANGED <<kind, batch, want, before, reg, cont>>
  BY DEF Crash, Panic, Dies, Ends, opVars, backendVars, dbVars
<1>2. Seen' = Seen
  BY <1>1 DEF Seen, Registered
<1> QED
  BY <1>1, <1>2, EndsOnce DEF E!Next, E!Break

LEMMA RequestBegins == ASSUME NetworkInv, RequestAdd \/ RequestOther PROVE E!Next
<1>1. PICK ns \in SUBSET Names, c \in Configs \cup {NoConfig}, k \in {"add", "remove", "stop", "start"} :
        Enter(k, ns, c) /\ op' \in {"upRemove", "register", "start", "kill"}
  <2>1. CASE RequestAdd
    BY <2>1 DEF RequestAdd
  <2>2. ASSUME NEW n \in Names, NEW k \in {"remove", "stop", "start"}, Enter(k, {n}, NoConfig),
               op' = (IF k = "start" THEN "start" ELSE "kill")
        PROVE  \E ns \in SUBSET Names, c \in Configs \cup {NoConfig}, l \in {"add", "remove", "stop", "start"} :
                 Enter(l, ns, c) /\ op' \in {"upRemove", "register", "start", "kill"}
    BY <2>2
  <2> QED
    BY <2>1, <2>2 DEF RequestOther
<1>2. /\ op = "idle" /\ op' # "idle" /\ kind' = k /\ batch' = ns /\ want' = c
      /\ before' = Seen /\ last' = "none"
  BY <1>1 DEF Enter
<1>3. [kind |-> kind, names |-> batch, config |-> want]' \in E!Request
  BY <1>2 DEF E!Request
<1> QED
  BY <1>2, <1>3 DEF E!Next, E!Begin

(* Every other step is inside an instruction, and nobody sees it.          *)
InsideStep ==
  \/ UpRemoveEnds \/ UpResetEnds \/ UpMarkEnds \/ RegisterEnds \/ DestroyEnds \/ AddEnds
  \/ StopScheduling \/ StartEnds
  \/ \E n \in Names :
       \/ UpRemove(n) \/ UpRemoveFails(n) \/ UpReset(n) \/ Mark(n)
       \/ Register(n) \/ RegisterFails(n) \/ Destroy(n) \/ Unregister(n) \/ Schedule(n)
       \/ Kill(n) \/ Restart(n) \/ (MarkStopped(n) /\ op' # "idle")
  \/ \E n \in Names : Goroutine(n)

LEMMA InsideStutters == ASSUME NetworkInv, InsideStep PROVE UNCHANGED E!vars
<1> DEFINE Inside == op # "idle" /\ op' # "idle" /\ UNCHANGED <<kind, batch, want, before, last>>
<1>1. Inside
  <2>1. ASSUME NEW n \in Names, Goroutine(n) PROVE Inside
    <3>1. gor[n] # "none" /\ UNCHANGED outerVars
      BY <2>1 DEF Goroutine, Create, CreateFails, MarkStarted, PortsOpen, PortsStayClosed,
         DestroyContainer, DestroyContainerFails, DestroyRelease, DestroyRegistration
    <3>2. op # "idle"
      BY <3>1 DEF NetworkInv, GoroutineInv, Starting, Idle
    <3> QED
      BY <3>1, <3>2 DEF outerVars, loopVars, opVars, runVars
  <2>2. CASE UpRemoveEnds \/ UpResetEnds \/ UpMarkEnds \/ RegisterEnds \/ DestroyEnds \/ AddEnds
             \/ StopScheduling \/ StartEnds
    BY <2>2 DEF UpRemoveEnds, UpResetEnds, UpMarkEnds, RegisterEnds, DestroyEnds, AddEnds,
       StopScheduling, StartEnds, Over, GoTo, Starting, opVars, runVars
  <2>3. ASSUME NEW n \in Names,
               \/ UpRemove(n) \/ UpRemoveFails(n) \/ UpReset(n) \/ Mark(n)
               \/ Register(n) \/ RegisterFails(n) \/ Destroy(n) \/ Unregister(n) \/ Schedule(n)
               \/ Kill(n) \/ Restart(n) \/ (MarkStopped(n) /\ op' # "idle")
        PROVE  Inside
    BY <2>3 DEF UpRemove, UpRemoveFails, UpReset, Mark, Register, RegisterFails, Destroy,
       Unregister,
       Schedule, Kill, Restart, MarkStopped, GoTo, Ends, Starting, opVars, runVars
  <2> HIDE DEF Inside
  <2> QED
    BY <2>1, <2>2, <2>3 DEF InsideStep
<1> QED
  BY <1>1 DEF E!vars

(* Seen from outside, an instruction is one step: the network implements   *)
(* Enclave.  It holds for batches of any size, however their goroutines    *)
(* interleave, whatever calls fail and wherever the API container dies.    *)
THEOREM InstructionsAreOneStep == Spec => ImplementsEnclave
<1>1. Init => E!Init
  <2> SUFFICES ASSUME Init PROVE E!Init
    OBVIOUS
  <2>1. Seen = [n \in Names |-> NoReg] /\ op = "idle" /\ last = "none"
    BY DEF Init, InitServices, Seen, Registered
  <2> QED
    BY <2>1 DEF E!Init
<1>2. NetworkInv /\ NetworkInv' /\ [Next]_vars => [E!Next]_(E!vars)
  <2> SUFFICES ASSUME NetworkInv, NetworkInv', [Next]_vars PROVE [E!Next]_(E!vars)
    OBVIOUS
  <2>1. CASE RequestAdd \/ RequestOther
    BY <2>1, RequestBegins
  <2>2. CASE Finish
    BY <2>2, FinishEnds
  <2>3. CASE Crash \/ \E n \in Names : Panic(n)
    BY <2>3, DeathBreaks
  <2>4. ASSUME NEW n \in Names,
               \/ KillFails(n) \/ StartFails(n) \/ MarkRestarted(n) \/ Delete(n)
               \/ (MarkStopped(n) /\ op' = "idle")
        PROVE  E!Next
    BY <2>4, OneFails, MarkStoppedEnds, MarkRestartedEnds, DeleteEnds
  <2>5. CASE InsideStep
    BY <2>5, InsideStutters
  <2>6. CASE UNCHANGED vars
    BY <2>6 DEF vars, backendVars, dbVars, opVars, loopVars, runVars, E!vars, Seen, Registered
  <2> QED
    BY <2>1, <2>2, <2>3, <2>4, <2>5, <2>6 DEF Next, Operation, InsideStep
<1> QED
  BY <1>1, <1>2, NetworkInvariant, PTL DEF Spec, ImplementsEnclave, E!Spec
=============================================================================
