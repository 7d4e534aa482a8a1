---------------------------- MODULE UserServices ----------------------------
(***************************************************************************)
(* The services of one enclave on Docker (user_services_functions/): the   *)
(* registrations and the taken addresses, both in the enclave's database,  *)
(* and the containers.  The definitions here are the single calls of the   *)
(* backend, one Docker call or one database transaction each, that         *)
(* ServiceNetwork strings together.                                        *)
(***************************************************************************)
EXTENDS Naturals, FiniteSets

CONSTANTS
  Names,       \* the services' names
  Configs,     \* the service configs scripts ask for
  NoConfig,    \* "config is nil"
  MaxUuid,     \* bound on the registrations ever made
  MaxIp        \* the addresses of the enclave's subnet are 1 .. MaxIp

Uuid == 1 .. MaxUuid
Ip   == 1 .. MaxIp

ASSUME ServicesAssumption ==
  /\ NoConfig \notin Configs
  /\ MaxUuid \in Nat /\ MaxIp \in Nat

VARIABLES
  reg,       \* the service registrations, by name
  minted,    \* the number of UUIDs generated
  taken,     \* the addresses of the free-ip-addr-tracker bucket
  cont       \* the containers, by the UUID of their service

dbVars == <<reg, minted, taken>>
backendVars == <<dbVars, cont>>

Registration == [uuid : Uuid, ip : Ip, status : {"registered", "started", "stopped"},
                 config : Configs \cup {NoConfig}]
NoReg == [status |-> "none"]

(* abandoned: it runs, Kurtosis failed to remove or kill it, and the log   *)
(* asks the user to do so.                                                 *)
Container == [status : {"running", "abandoned", "stopped"}, config : Configs]
NoCont == [status |-> "none"]

InitServices ==
  /\ reg = [n \in Names |-> NoReg]
  /\ minted = 0
  /\ taken = {}
  /\ cont = [u \in Uuid |-> NoCont]

Registered(n) == reg[n] # NoReg

(* GetMatchingUserServiceObjsAndDockerResourcesNoMutex on one service.     *)
HasContainer(n) == cont[reg[n].uuid] # NoCont
Running(n) == Registered(n) /\ cont[reg[n].uuid].status = "running"

(* The same on a set of services: an empty filter matches every container. *)
Matching(ns) ==
  {n \in Names : Registered(n) /\ HasContainer(n) /\ (ns = {} \/ n \in ns)}

-----------------------------------------------------------------------------
(* GetFreeIpAddr: the first address of the subnet that is not taken.       *)
FirstFree == CHOOSE i \in Ip \ taken : \A j \in Ip \ taken : i <= j

(* registerUserServices, for one service.                                  *)
RegisterSameAddress(n) ==   \* mutant: the address is not put into the bucket
  /\ taken # Ip /\ minted < MaxUuid
  /\ minted' = minted + 1
  /\ reg' = [reg EXCEPT ![n] = [uuid |-> minted', ip |-> FirstFree,
                                status |-> "registered", config |-> NoConfig]]
  /\ UNCHANGED <<taken, cont>>

RegisterUserService(n) ==
  /\ taken # Ip /\ minted < MaxUuid
  /\ minted' = minted + 1
  /\ taken' = taken \cup {FirstFree}
  /\ reg' = [reg EXCEPT ![n] = [uuid |-> minted', ip |-> FirstFree,
                                status |-> "registered", config |-> NoConfig]]
  /\ UNCHANGED cont

(* The transactions of the registration repository.                        *)
UpdateStatus(n, s) ==
  /\ reg' = [reg EXCEPT ![n].status = s]
  /\ UNCHANGED <<minted, taken, cont>>

UpdateConfig(n, c) ==
  /\ reg' = [reg EXCEPT ![n].config = c]
  /\ UNCHANGED <<minted, taken, cont>>

UpdateStatusAndConfig(n, s, c) ==
  /\ reg' = [reg EXCEPT ![n].status = s, ![n].config = c]
  /\ UNCHANGED <<minted, taken, cont>>

DeleteRegistration(n) ==
  /\ reg' = [reg EXCEPT ![n] = NoReg]
  /\ UNCHANGED <<minted, taken, cont>>

ReleaseIpAddr(n) ==
  /\ taken' = taken \ {reg[n].ip}
  /\ UNCHANGED <<reg, minted, cont>>

(* The calls of the Docker manager on the container of a service.          *)
SetContainer(n, k) ==
  /\ cont' = [cont EXCEPT ![reg[n].uuid] = k]
  /\ UNCHANGED dbVars

CreateContainer(n, s, c) == SetContainer(n, [status |-> s, config |-> c])
RemoveContainer(n) == SetContainer(n, NoCont)
KillContainer(n)   == SetContainer(n, [cont[reg[n].uuid] EXCEPT !.status = "stopped"])
StartContainer(n)  == SetContainer(n, [cont[reg[n].uuid] EXCEPT !.status = "running"])

(* A removal that fails: the error is only logged.                         *)
AbandonContainer(n) == SetContainer(n, [cont[reg[n].uuid] EXCEPT !.status = "abandoned"])
=============================================================================
