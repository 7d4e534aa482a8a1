---------------------------- MODULE EnclaveManager ----------------------------
(***************************************************************************)
(* The engine's enclave manager (enclave_manager.go) on the Kubernetes     *)
(* backend: the request handlers, which hold the manager's mutex for their *)
(* whole duration and are stepped here between their backend calls and     *)
(* channel operations, composed with the pool's goroutines and with the    *)
(* life of the engine process (start, crash, interrupt, restart).          *)
(***************************************************************************)
EXTENDS EnclavePool, Functions

CONSTANTS
  MaxRequests,  \* bound on the requests of a behaviour
  MaxRestarts,  \* bound on the restarts of the engine
  MayClose,     \* may the engine be interrupted?
  MayCrash,     \* may it be killed?
  Operations    \* the operations the clients of this instance call

ASSUME ManagerAssumption ==
  /\ MaxRequests \in Nat /\ MaxRestarts \in Nat
  /\ MayClose \in BOOLEAN /\ MayCrash \in BOOLEAN
  /\ Operations \subseteq {"createTest", "createOther", "clean", "cleanAll", "stop", "destroy"}

VARIABLES
  op,           \* where the holder of manager.mutex is; "free": not held
  opEnc,        \* the enclave it works on
  opSet,        \* Clean's enclaveUUIDsToClean
  opAll,        \* Clean's shouldCleanAll
  identifiers,  \* allExistingAndHistoricalIdentifiers, by UUID
  reqs,         \* requests received so far
  restarts      \* restarts so far

opVars  == <<op, opEnc, opSet, opAll, identifiers, reqs>>
vars    == <<poolVars, opVars, restarts>>

-----------------------------------------------------------------------------
(* A request that finds the mutex free.                                    *)
Request(name) ==
  /\ Up /\ toInit = 0 /\ op = "free"
  /\ name \in Operations
  /\ reqs < MaxRequests
  /\ reqs' = reqs + 1
  /\ UNCHANGED <<poolVars, identifiers, restarts>>

Release ==
  /\ op' = "free" /\ opEnc' = NoUuid
  /\ opSet' = {} /\ opAll' = FALSE

Continue(pc) == op' = pc /\ UNCHANGED <<opEnc, opSet, opAll>>

(* CreateEnclave: a test enclave whose parameters are the pool's asks the  *)
(* pool, if there is one; any other is created directly.                   *)
RequestCreate ==
  \/ Request("createTest")  /\ Continue(IF PoolSize > 0 THEN "idleCheck" ELSE "create")
  \/ Request("createOther") /\ Continue("create")

(* GetEnclave: nil when nothing is buffered, so as not to block.           *)
GetIdleCheck ==
  /\ Up /\ op = "idleCheck"
  /\ Continue(IF idle = <<>> THEN "create" ELSE "receive")
  /\ UNCHANGED <<poolVars, identifiers, reqs, restarts>>

GetPeek ==   \* mutant: the enclave stays in the channel
  /\ Up /\ op = "receive" /\ idle # <<>>
  /\ op' = "signal" /\ opEnc' = Head(idle)
  /\ UNCHANGED <<poolVars, opSet, opAll, identifiers, reqs, restarts>>

GetReceive ==
  /\ Up /\ op = "receive"
  /\ \/ /\ idle # <<>>
        /\ op' = "signal" /\ opEnc' = Head(idle) /\ idle' = Tail(idle)
     \/ /\ idle = <<>> /\ idleClosed
        /\ op' = "create" /\ UNCHANGED <<opEnc, idle>>
  /\ UNCHANGED <<kubeVars, toInit, fill, runVars, oldVars, closeVars, proc,
                 opSet, opAll, identifiers, reqs, restarts>>

(* fillChan <- fill.  On a closed channel it panics: the HTTP server       *)
(* recovers, the mutex is released and the enclave taken is forgotten.     *)
GetNoSignal ==   \* mutant: the subroutine is not told
  /\ Up /\ op = "signal"
  /\ Continue("verify")
  /\ UNCHANGED <<poolVars, identifiers, reqs, restarts>>

GetSignalStuck ==   \* mutant: waits when the channel is gone
  /\ Up /\ op = "signal" /\ ~fillClosed /\ fill < PoolSize
  /\ fill' = fill + 1
  /\ Continue("verify")
  /\ UNCHANGED <<kubeVars, toInit, idle, runVars, oldVars, closeVars, proc,
                 identifiers, reqs, restarts>>

GetSignal ==
  /\ Up /\ op = "signal"
  /\ \/ /\ ~fillClosed /\ fill < PoolSize
        /\ fill' = fill + 1
        /\ Continue("verify")
     \/ /\ fillClosed
        /\ UNCHANGED fill
        /\ Release
  /\ UNCHANGED <<kubeVars, toInit, idle, runVars, oldVars, closeVars, proc,
                 identifiers, reqs, restarts>>

(* getRunningEnclave.                                                      *)
GetVerify ==
  /\ Up /\ op = "verify"
  /\ \/ /\ Exists(opEnc) /\ ns[opEnc].status = "running"
        /\ Continue("rename")
     \/ /\ ~Exists(opEnc) \/ ns[opEnc].status # "running" \/ "query" \in Failures
        /\ Continue("giveBack")
  /\ UNCHANGED <<poolVars, identifiers, reqs, restarts>>

(* UpdateEnclave, and CreateEnclave's record of what it returns.           *)
GetRename ==
  /\ Up /\ op = "rename" /\ Exists(opEnc)
  /\ ns' = [ns EXCEPT ![opEnc].kind = "user", ![opEnc].old = sameSecond]
  /\ identifiers' = Append(identifiers, opEnc)
  /\ Release
  /\ UNCHANGED <<minted, thisRun, sameSecond, chanVars, runVars, oldVars, closeVars, proc,
                 reqs, restarts>>

GetRenameFails ==
  /\ Up /\ op = "rename"
  /\ ~Exists(opEnc) \/ "update" \in Failures
  /\ Continue("giveBack")
  /\ UNCHANGED <<poolVars, identifiers, reqs, restarts>>

(* The deferred destruction of the enclave taken; CreateEnclave then falls *)
(* back to the creator.                                                    *)
GetGiveBack ==
  /\ Up /\ op = "giveBack"
  /\ Destroyed({opEnc})
  /\ op' = "create" /\ opEnc' = NoUuid
  /\ UNCHANGED <<chanVars, runVars, oldVars, closeVars, proc,
                 opSet, opAll, identifiers, reqs, restarts>>

(* The creator, called by the handler under the request's context.         *)
DirectCreate ==
  /\ Up /\ op = "create"
  /\ \E u \in Uuid \ minted :
       /\ NewNamespace(u, "user")
       /\ opEnc' = u
  /\ op' = "launch"
  /\ UNCHANGED <<chanVars, runVars, oldVars, closeVars, proc,
                 opSet, opAll, identifiers, reqs, restarts>>

DirectCreateFails ==
  /\ Up /\ op = "create" /\ "create" \in Failures
  /\ \/ UNCHANGED kubeVars
     \/ "lost" \in Failures /\ \E u \in Uuid \ minted : NewNamespace(u, "user")
  /\ Release
  /\ UNCHANGED <<chanVars, runVars, oldVars, closeVars, proc, identifiers, reqs, restarts>>

DirectLaunch ==
  /\ Up /\ op = "launch" /\ Exists(opEnc)
  /\ PodsUp(opEnc)
  /\ identifiers' = Append(identifiers, opEnc)
  /\ Release
  /\ UNCHANGED <<minted, thisRun, sameSecond, chanVars, runVars, oldVars, closeVars, proc,
                 reqs, restarts>>

DirectLaunchFails ==
  /\ Up /\ op = "launch"
  /\ "launch" \in Failures \/ ~Exists(opEnc)
  /\ Continue("undo")
  /\ UNCHANGED <<poolVars, identifiers, reqs, restarts>>

DirectUndo ==
  /\ Up /\ op = "undo"
  /\ Destroyed({opEnc})
  /\ Release
  /\ UNCHANGED <<chanVars, runVars, oldVars, closeVars, proc, identifiers, reqs, restarts>>

-----------------------------------------------------------------------------
(* Clean: list what is not idle, then destroy with that list and a set of  *)
(* statuses as filters.  To the backend an empty list matches everything.  *)
RequestClean ==
  \E all \in BOOLEAN :
    /\ Request(IF all THEN "cleanAll" ELSE "clean")
    /\ op' = "cleanList" /\ opAll' = all
    /\ UNCHANGED <<opEnc, opSet>>

CleanList ==
  /\ Up /\ op = "cleanList"
  /\ op' = "cleanDestroy" /\ opSet' = {u \in Uuid : ns[u].kind = "user"}
  /\ UNCHANGED <<poolVars, opEnc, opAll, identifiers, reqs, restarts>>

CleanListFails ==
  /\ Up /\ op = "cleanList" /\ "list" \in Failures
  /\ Release
  /\ UNCHANGED <<poolVars, identifiers, reqs, restarts>>

CleanStatuses == {"stopped", "empty"} \cup (IF opAll THEN {"running"} ELSE {})

CleanMatches ==
  {u \in Uuid : /\ Exists(u) /\ ns[u].status \in CleanStatuses
                /\ opSet = {} \/ u \in opSet}

CleanDestroy ==
  /\ Up /\ op = "cleanDestroy"
  /\ Destroyed(CleanMatches)
  /\ Release
  /\ UNCHANGED <<chanVars, runVars, oldVars, closeVars, proc, identifiers, reqs, restarts>>

(* StopEnclave and DestroyEnclave resolve the identifier among the         *)
(* enclaves that are not idle, then call the backend.  Stopping removes    *)
(* the pods, which leaves the enclave Empty.                               *)
RequestOnEnclave ==
  \E name \in {"stop", "destroy"}, u \in Uuid :
    /\ Request(name) /\ ns[u].kind = "user"
    /\ op' = name /\ opEnc' = u
    /\ UNCHANGED <<opSet, opAll>>

StopEnclave ==
  /\ Up /\ op = "stop"
  /\ ns' = IF Exists(opEnc) THEN [ns EXCEPT ![opEnc].status = "empty"] ELSE ns
  /\ Release
  /\ UNCHANGED <<minted, thisRun, sameSecond, chanVars, runVars, oldVars, closeVars, proc,
                 identifiers, reqs, restarts>>

DestroyEnclave ==
  /\ Up /\ op = "destroy"
  /\ Destroyed({opEnc})
  /\ Release
  /\ UNCHANGED <<chanVars, runVars, oldVars, closeVars, proc, identifiers, reqs, restarts>>

-----------------------------------------------------------------------------
(* The engine process.                                                     *)
StopProcess(how) ==
  /\ proc' = how
  /\ UNCHANGED <<kubeVars, chanVars, runVars, oldVars, closeVars, opVars, restarts>>

Exit  == Up /\ closePc = "returned" /\ StopProcess("exited")
Crash == Up /\ MayCrash /\ StopProcess("crashed")

(* A new process: CreateEnclavePool makes new channels and starts its      *)
(* goroutines; every enclave it finds is older than itself.                *)
Restart ==
  /\ ~Up /\ restarts < MaxRestarts
  /\ restarts' = restarts + 1
  /\ proc' = "up"
  /\ ns' = [u \in Uuid |-> IF Exists(u) THEN [ns[u] EXCEPT !.old = TRUE] ELSE ns[u]]
  /\ thisRun' = {} /\ sameSecond' = SubSecondStart
  /\ toInit' = InitSignals /\ fill' = 0 /\ idle' = <<>>
  /\ runPc' = (IF PoolSize > 0 THEN "select" ELSE "stopped") /\ runEnc' = NoUuid
  /\ oldPc' = "list" /\ oldTries' = 0 /\ oldFound' = {}
  /\ closePc' = "no" /\ closeFound' = {}
  /\ Release /\ identifiers' = <<>>
  /\ UNCHANGED <<minted, reqs>>

Init ==
  /\ ns = [u \in Uuid |-> Absent] /\ minted = {} /\ thisRun = {}
  /\ sameSecond = SubSecondStart
  /\ toInit = InitSignals /\ fill = 0 /\ idle = <<>>
  /\ runPc = (IF PoolSize > 0 THEN "select" ELSE "stopped") /\ runEnc = NoUuid
  /\ oldPc = "list" /\ oldTries = 0 /\ oldFound = {}
  /\ closePc = "no" /\ closeFound = {} /\ proc = "up"
  /\ op = "free" /\ opEnc = NoUuid /\ opSet = {} /\ opAll = FALSE
  /\ identifiers = <<>> /\ reqs = 0 /\ restarts = 0

RequestStep == RequestCreate \/ RequestClean \/ RequestOnEnclave

HandlerStep ==
  \/ GetIdleCheck \/ GetReceive \/ GetSignal \/ GetVerify
  \/ GetRename \/ GetRenameFails \/ GetGiveBack
  \/ DirectCreate \/ DirectCreateFails \/ DirectLaunch \/ DirectLaunchFails \/ DirectUndo
  \/ CleanList \/ CleanListFails \/ CleanDestroy \/ StopEnclave \/ DestroyEnclave

PoolStep ==
  /\ \/ InitSend \/ RunStep \/ OldStep \/ CloseStep
     \/ MayClose /\ (CloseCancel \/ CloseNilPool)
     \/ PodsDie \/ SecondPasses
  /\ UNCHANGED <<opVars, restarts>>

(* Nothing left to do: the process is down for good, or every goroutine    *)
(* waits for a request the bound no longer allows (or for a UUID).         *)
Waiting ==
  /\ oldPc = "done" /\ toInit = 0
  /\ op = "free" \/ (op = "create" /\ minted = Uuid)
  /\ \/ runPc = "stopped"
     \/ runPc = "select" /\ fill = 0
     \/ runPc = "create" /\ minted = Uuid

Quiet == (~Up \/ Waiting) /\ UNCHANGED vars

Next == RequestStep \/ HandlerStep \/ PoolStep \/ Exit \/ Crash \/ Restart \/ Quiet

Spec == Init /\ [][Next]_vars

(* Goroutines are scheduled and backend calls return; requests, interrupts, *)
(* crashes and restarts need not happen.                                    *)
Fairness ==
  /\ WF_vars(InitSend /\ UNCHANGED <<opVars, restarts>>)
  /\ WF_vars(RunStep /\ UNCHANGED <<opVars, restarts>>)
  /\ WF_vars(OldStep /\ UNCHANGED <<opVars, restarts>>)
  /\ WF_vars(CloseStep /\ UNCHANGED <<opVars, restarts>>)
  /\ WF_vars(HandlerStep)

FairSpec == Spec /\ Fairness

-----------------------------------------------------------------------------
(* Every variable holds a value of its type.                               *)
KubeTypeOK ==
  /\ ns \in [Uuid -> Namespace]
  /\ minted \subseteq Uuid /\ thisRun \subseteq Uuid /\ sameSecond \in BOOLEAN

PoolTypeOK ==
  /\ toInit \in 0..PoolSize /\ fill \in 0..PoolSize
  /\ idle \in Seq(Uuid)
  /\ runPc \in {"select", "create", "launch", "undo", "send", "stopped"}
  /\ runEnc \in Uuid \cup {NoUuid}
  /\ runPc \in {"launch", "undo", "send"} => runEnc \in Uuid
  /\ oldPc \in {"list", "destroy", "done"}
  /\ oldPc # "done" => oldTries < MaxRetries
  /\ oldTries \in 0..MaxRetries /\ oldFound \subseteq Uuid
  /\ closePc \in {"no", "list", "destroy", "closeFill", "closeIdle", "returned"}
  /\ closeFound \subseteq Uuid

HandlerTypeOK ==
  /\ op \in {"free", "idleCheck", "receive", "signal", "verify", "rename", "giveBack",
             "create", "launch", "undo", "cleanList", "cleanDestroy", "stop", "destroy"}
  /\ opEnc \in Uuid \cup {NoUuid}
  /\ op \in {"signal", "verify", "rename", "giveBack", "launch", "undo", "stop", "destroy"}
       => opEnc \in Uuid
  /\ opSet \subseteq Uuid /\ opAll \in BOOLEAN
  /\ identifiers \in Seq(Uuid)
  /\ proc \in {"up", "exited", "crashed", "panicked"}
  /\ reqs \in 0..MaxRequests /\ restarts \in 0..MaxRestarts

TypeOK == KubeTypeOK /\ PoolTypeOK /\ HandlerTypeOK

(* Slots of the pool in use: a signal still to send or buffered, an enclave *)
(* being created, buffered, or taken and not signalled yet.                 *)
CreatingSlot == IF runPc \in {"create", "launch", "send", "undo"} THEN 1 ELSE 0
TakenSlot == IF op = "signal" THEN 1 ELSE 0
SlotsUsed == toInit + fill + CreatingSlot + Len(idle) + TakenSlot

(* The channels were given PoolSize places "for not blocking the caller":   *)
(* neither the handler that holds the mutex, nor init, nor the subroutine   *)
(* ever finds the channel it sends on full.                                 *)
SendsNeverBlock ==
  /\ op = "signal" \/ toInit > 0 => fill < PoolSize
  /\ runPc = "send" => Len(idle) < PoolSize

(* No enclave is in two hands: one buffered is buffered once, is not the    *)
(* one being created or handed over, and was never returned to a user; no   *)
(* UUID is returned twice.  And the handler that saw a buffered enclave     *)
(* receives one: it neither waits on an empty channel nor meets "the        *)
(* internal channel is closed, it shouldn't happen", whatever Close does.   *)
HandedOutOnce ==
  /\ IsInjective(idle) /\ IsInjective(identifiers)
  /\ Range(idle) \cap Range(identifiers) = {}
  /\ {runEnc, opEnc} \cap Range(idle) = {}
  /\ op \in {"signal", "verify", "rename", "giveBack", "launch"} => opEnc \notin Range(identifiers)
  /\ op = "receive" => idle # <<>>

(* No enclave disappears under its owner: one that a user got, or that this *)
(* process made, is destroyed by a request that was told to, by the deferred *)
(* function of its own creation, or by Close (which may meet one handed out *)
(* since it listed the idle ones), never by the remover that was started    *)
(* with the engine: "the beforeTime" is to keep it to idle ones of earlier  *)
(* processes, which it does up to the second of the start.                  *)
Disappears(u) == Exists(u) /\ ~Exists(u)'
HasOwner(u)   == ns[u].kind = "user" \/ u \in thisRun
MadeInFirstSecond(u) == u \in thisRun /\ (ns[u].kind = "idle" => ns[u].old)

ByRight(u) ==
  \/ op \in {"destroy", "cleanDestroy"} /\ op' = "free"
  \/ op \in {"undo", "giveBack"} /\ op' # op /\ u = opEnc
  \/ runPc = "undo" /\ runPc' # runPc /\ u = runEnc
  \/ closePc = "destroy" /\ closePc' # closePc
  \/ oldPc = "destroy" /\ oldPc' # oldPc /\ MadeInFirstSecond(u)

EnclavesSurvive == [][\A u \in Uuid : Disappears(u) /\ HasOwner(u) => ByRight(u)]_vars

(* While the engine runs and the backend does not fail, an idle enclave of  *)
(* this process always has an owner that will hand it out or destroy it.    *)
IdleEnclavesOwned ==
  Up /\ closePc = "no" =>
    \A u \in thisRun : ns[u].kind = "idle" => u \in Range(idle) \cup {runEnc, opEnc}

(* Not so: Clean leaves the pool alone, as idle enclaves "were not created  *)
(* by users" (when there is no other, its empty filter matches them all).   *)
CleanSparesThePool ==
  [][\A u \in Uuid : op = "cleanDestroy" /\ op' = "free" /\ ns[u].kind = "idle"
        => ns'[u].kind = "idle"]_vars

(* Once Close has returned, none of the idle enclaves is left.              *)
CloseRemovesIdle == closePc = "returned" => IdleOnes = {}

(* Not so: stopping the engine does not make it panic.                      *)
NoPanic == proc # "panicked"

(* The mutex is always released: no request hangs while the process lives.  *)
RequestsEnd == op # "free" ~> (op = "free" \/ ~Up)

(* When requests stop, the pool is full again and stays so, unless the      *)
(* engine stops ("it has to fill the pool again").                          *)
PoolRefilled == <>[](Up /\ closePc = "no" => Len(idle) = PoolSize)

(* Once the remover is through, no idle enclave of an earlier process, a    *)
(* crashed one included, is left.                                          *)
PreviousRunsRemoved == Up /\ oldPc = "done" => IdleOnes \subseteq thisRun
=============================================================================
