----------------------------- MODULE EnclavePool -----------------------------
(***************************************************************************)
(* The engine's pool of idle enclaves (enclave_pool.go), the creator it    *)
(* uses (enclave_creator.go) and the Kubernetes namespaces that carry the  *)
(* enclaves.  The module holds the state shared with the manager's request *)
(* handlers, the steps of the pool's own goroutines (the filling           *)
(* subroutine, the remover of idle enclaves of previous runs) and the      *)
(* steps of Close.  EnclaveManager composes them with the handlers and     *)
(* with the life of the engine process.                                    *)
(***************************************************************************)
EXTENDS Integers, Sequences, FiniteSets

CONSTANTS
  Uuid,           \* enclave UUIDs the generator may return; bounds creations
  NoUuid,         \* "no enclave held"
  PoolSize,       \* engine argument; 0 leaves the pool pointer nil
  MaxRetries,     \* destroyEnclaveMaxRetries
  Failures,       \* the kinds of backend call that may fail in this instance
  SubSecondStart  \* may creations share the wall-clock second of the start?

ASSUME PoolAssumption ==
  /\ NoUuid \notin Uuid
  /\ PoolSize \in Nat
  /\ MaxRetries \in Nat \ {0}
  /\ Failures \subseteq {"create", "launch", "query", "list", "update", "destroy", "die", "lost"}
  /\ SubSecondStart \in BOOLEAN

VARIABLES
  ns,          \* Uuid -> what the namespace of the enclave says
  minted,      \* UUIDs used so far, over all runs of the engine
  thisRun,     \* those used by the present engine process
  sameSecond,  \* the clock still shows the second of the process's start
  toInit,      \* signals init() has still to send
  fill,        \* number of signals buffered in fillChan
  idle,        \* the contents of idleEnclavesChan
  runPc,       \* where the filling subroutine is
  runEnc,      \* the enclave it is creating
  oldPc,       \* where destroyIdleEnclavesFromPreviousRuns is
  oldTries,    \* its numRetries
  oldFound,    \* its idleEnclavesToRemove
  closePc,     \* where Close is
  closeFound,  \* its idleEnclavesToRemove
  proc         \* the engine process: up, exited, crashed or panicked

kubeVars  == <<ns, minted, thisRun, sameSecond>>
chanVars  == <<toInit, fill, idle>>
runVars   == <<runPc, runEnc>>
oldVars   == <<oldPc, oldTries, oldFound>>
closeVars == <<closePc, closeFound>>
poolVars  == <<kubeVars, chanVars, runVars, oldVars, closeVars, proc>>

-----------------------------------------------------------------------------
(* Namespaces.  `old` is the outcome of CreationTime.Before(start): the    *)
(* annotation has one-second resolution, so an enclave created in the      *)
(* second of the start reads as older than the start.                      *)
Namespace == [kind : {"none", "idle", "user"},
              status : {"empty", "running", "stopped"},
              old : BOOLEAN]

Absent == [kind |-> "none", status |-> "empty", old |-> FALSE]

Exists(u) == ns[u].kind # "none"

IdleOnes == {u \in Uuid : ns[u].kind = "idle"}

(* CreateNamespace: an enclave without pods, hence of status Empty.        *)
NewNamespace(u, kind) ==
  /\ ns' = [ns EXCEPT ![u] = [kind |-> kind, status |-> "empty", old |-> sameSecond]]
  /\ minted' = minted \cup {u}
  /\ thisRun' = thisRun \cup {u}
  /\ UNCHANGED sameSecond

(* The API container's pod is up.                                          *)
PodsUp(u) == ns' = [ns EXCEPT ![u].status = "running"]

(* DestroyEnclaves on a set of UUIDs: those left are the ones whose        *)
(* removal failed.                                                         *)
Remaining(gone) == [u \in Uuid |-> IF u \in gone THEN Absent ELSE ns[u]]

Destroyed(us) ==
  /\ \E gone \in (IF "destroy" \in Failures THEN SUBSET us ELSE {us}) : ns' = Remaining(gone)
  /\ UNCHANGED <<minted, thisRun, sameSecond>>

Up == proc = "up"

(* Has Close cancelled the subroutine's context, closed each channel?       *)
ctxDoneLate == closePc \notin {"no", "list", "destroy"}   \* mutant: cancelled last
ctxDone     == closePc # "no"
fillClosed  == closePc \in {"closeIdle", "returned"}
idleClosed  == closePc = "returned"

-----------------------------------------------------------------------------
(* init(): one signal per slot, before CreateEnclavePool returns.          *)
OneSignalMore == PoolSize + 1   \* mutant: i <= poolSize
InitSignals   == PoolSize

InitSend ==
  /\ Up /\ toInit > 0 /\ fill < PoolSize
  /\ toInit' = toInit - 1
  /\ fill' = fill + 1
  /\ UNCHANGED <<kubeVars, idle, runVars, oldVars, closeVars, proc>>

(* run(): the select.  A closed fillChan always delivers; under a cancelled *)
(* context the creation fails before it calls the backend.                 *)
RunTakeSignal ==
  /\ Up /\ runPc = "select"
  /\ \/ fill > 0 /\ fill' = fill - 1
     \/ fill = 0 /\ fillClosed /\ UNCHANGED fill
  /\ runPc' = IF ctxDone THEN "select" ELSE "create"
  /\ UNCHANGED <<kubeVars, toInit, idle, runEnc, oldVars, closeVars, proc>>

RunStop ==
  /\ Up /\ runPc = "select" /\ ctxDone
  /\ runPc' = "stopped"
  /\ UNCHANGED <<kubeVars, chanVars, runEnc, oldVars, closeVars, proc>>

(* createNewIdleEnclave, first backend call, in flight: it succeeds, or     *)
(* fails (always, once the context is cancelled) and may have been carried  *)
(* out all the same.  An error is only logged: the signal is not sent again. *)
RunCreate ==
  /\ Up /\ runPc = "create" /\ ~ctxDone
  /\ \E u \in Uuid \ minted :
       /\ NewNamespace(u, "idle")
       /\ runEnc' = u
  /\ runPc' = "launch"
  /\ UNCHANGED <<chanVars, oldVars, closeVars, proc>>

RunCreateFails ==
  /\ Up /\ runPc = "create"
  /\ ctxDone \/ "create" \in Failures
  /\ \/ UNCHANGED kubeVars
     \/ "lost" \in Failures /\ \E u \in Uuid \ minted : NewNamespace(u, "idle")
  /\ runPc' = "select"
  /\ UNCHANGED <<chanVars, runEnc, oldVars, closeVars, proc>>

RunLaunch ==
  /\ Up /\ runPc = "launch" /\ ~ctxDone
  /\ Exists(runEnc)
  /\ PodsUp(runEnc)
  /\ runPc' = "send"
  /\ UNCHANGED <<minted, thisRun, sameSecond, chanVars, runEnc, oldVars, closeVars, proc>>

LaunchFailsNoUndo ==   \* mutant: no deferred destruction
  /\ Up /\ runPc = "launch"
  /\ ctxDone \/ "launch" \in Failures \/ ~Exists(runEnc)
  /\ runPc' = "select" /\ runEnc' = NoUuid
  /\ UNCHANGED <<kubeVars, chanVars, oldVars, closeVars, proc>>

RunLaunchFails ==
  /\ Up /\ runPc = "launch"
  /\ ctxDone \/ "launch" \in Failures \/ ~Exists(runEnc)
  /\ runPc' = "undo"
  /\ UNCHANGED <<kubeVars, chanVars, runEnc, oldVars, closeVars, proc>>

(* The deferred DestroyEnclaves, under a context of its own.               *)
RunUndo ==
  /\ Up /\ runPc = "undo"
  /\ Destroyed({runEnc})
  /\ runPc' = "select"
  /\ runEnc' = NoUuid
  /\ UNCHANGED <<chanVars, oldVars, closeVars, proc>>

(* idleEnclavesChan <- newEnclaveInfo; on a closed channel it panics, in a *)
(* goroutine where nothing recovers.                                       *)
RunSend ==
  /\ Up /\ runPc = "send" /\ ~idleClosed
  /\ Len(idle) < PoolSize
  /\ idle' = Append(idle, runEnc)
  /\ runPc' = "select"
  /\ runEnc' = NoUuid
  /\ UNCHANGED <<kubeVars, toInit, fill, oldVars, closeVars, proc>>

RunSendPanics ==
  /\ Up /\ runPc = "send" /\ idleClosed
  /\ proc' = "panicked"
  /\ UNCHANGED <<kubeVars, chanVars, runVars, oldVars, closeVars>>

-----------------------------------------------------------------------------
(* destroyIdleEnclavesFromPreviousRuns, in a goroutine of its own.         *)
OldRetry ==
  /\ oldTries' = oldTries + 1
  /\ oldPc' = IF oldTries + 1 = MaxRetries THEN "done" ELSE "list"
  /\ oldFound' = {}

OldAnyName == {u \in Uuid : Exists(u) /\ ns[u].old}        \* mutant: no name
OldNewOnes == {u \in IdleOnes : ~ns[u].old}                \* mutant: After
OldIdleOnes == {u \in IdleOnes : ns[u].old}

OldList ==
  /\ Up /\ oldPc = "list"
  /\ oldFound' = OldIdleOnes
  /\ oldPc' = IF OldIdleOnes = {} THEN "done" ELSE "destroy"
  /\ UNCHANGED <<kubeVars, chanVars, runVars, oldTries, closeVars, proc>>

OldListFails ==
  /\ Up /\ oldPc = "list" /\ "query" \in Failures
  /\ OldRetry
  /\ UNCHANGED <<kubeVars, chanVars, runVars, closeVars, proc>>

OldDestroy ==
  /\ Up /\ oldPc = "destroy"
  /\ Destroyed(oldFound)
  /\ \/ /\ \A u \in oldFound : ns'[u] = Absent
        /\ oldPc' = "done" /\ oldFound' = {} /\ UNCHANGED oldTries
     \/ /\ \E u \in oldFound : ns'[u] # Absent
        /\ OldRetry
  /\ UNCHANGED <<chanVars, runVars, closeVars, proc>>

-----------------------------------------------------------------------------
(* Close, called when the server has stopped listening.  It takes no lock: *)
(* requests already accepted and the subroutine go on beside it.  Without  *)
(* a pool the receiver is nil and its first field access panics.           *)
CloseCancel ==
  /\ Up /\ toInit = 0 /\ closePc = "no" /\ PoolSize > 0
  /\ closePc' = "list"
  /\ UNCHANGED <<kubeVars, chanVars, runVars, oldVars, closeFound, proc>>

CloseNilPool ==
  /\ Up /\ closePc = "no" /\ PoolSize = 0
  /\ proc' = "panicked"
  /\ UNCHANGED <<kubeVars, chanVars, runVars, oldVars, closeVars>>

CloseList ==
  /\ Up /\ closePc = "list"
  /\ closeFound' = IdleOnes
  /\ closePc' = IF IdleOnes = {} THEN "closeFill" ELSE "destroy"
  /\ UNCHANGED <<kubeVars, chanVars, runVars, oldVars, proc>>

CloseListFails ==
  /\ Up /\ closePc = "list" /\ "query" \in Failures
  /\ closePc' = "closeFill"
  /\ UNCHANGED <<kubeVars, chanVars, runVars, oldVars, closeFound, proc>>

CloseDestroy ==
  /\ Up /\ closePc = "destroy"
  /\ Destroyed(closeFound)
  /\ closePc' = "closeFill"
  /\ closeFound' = {}
  /\ UNCHANGED <<chanVars, runVars, oldVars, proc>>

CloseChannels ==
  /\ Up
  /\ \/ closePc = "closeFill" /\ closePc' = "closeIdle"
     \/ closePc = "closeIdle" /\ closePc' = "returned"
  /\ UNCHANGED <<kubeVars, chanVars, runVars, oldVars, closeFound, proc>>

-----------------------------------------------------------------------------
(* The environment: pods die, the clock moves on.                          *)
PodsDie ==
  /\ "die" \in Failures
  /\ \E u \in Uuid :
       /\ Exists(u) /\ ns[u].status = "running"
       /\ ns' = [ns EXCEPT ![u].status = "stopped"]
  /\ UNCHANGED <<minted, thisRun, sameSecond, chanVars, runVars, oldVars, closeVars, proc>>

SecondPasses ==
  /\ Up /\ sameSecond
  /\ sameSecond' = FALSE
  /\ UNCHANGED <<ns, minted, thisRun, chanVars, runVars, oldVars, closeVars, proc>>

RunStep   == \/ RunTakeSignal \/ RunStop \/ RunCreate \/ RunCreateFails
             \/ RunLaunch \/ RunLaunchFails \/ RunUndo \/ RunSend \/ RunSendPanics
OldStep   == OldList \/ OldListFails \/ OldDestroy
CloseStep == CloseList \/ CloseListFails \/ CloseDestroy \/ CloseChannels
=============================================================================
