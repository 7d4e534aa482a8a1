------------------------- MODULE EnclaveManagerProofs -------------------------
(***************************************************************************)
(* Proofs about EnclaveManager for every number of UUIDs, every pool size  *)
(* and any number of requests, failures, crashes and restarts.             *)
(* First the types, and the capacity argument by which no channel send     *)
(* blocks.  Then who holds an enclave: it is never in two hands, none      *)
(* disappears under its owner, and, of a backend whose calls succeed, idle *)
(* enclaves always have an owner, none is left by Close and none of an     *)
(* earlier process survives the remover.                                   *)
(***************************************************************************)
EXTENDS EnclaveManager, TLAPS

USE PoolAssumption, ManagerAssumption DEF PoolAssumption, ManagerAssumption

(* A namespace function stays one whatever is created or destroyed in it.  *)
LEMMA NewNamespaceTyped ==
  ASSUME KubeTypeOK, NEW u \in Uuid, NEW kind \in {"idle", "user"}, NewNamespace(u, kind)
  PROVE  KubeTypeOK'
BY DEF NewNamespace, Namespace, KubeTypeOK

LEMMA DestroyedTyped ==
  ASSUME KubeTypeOK, NEW us, Destroyed(us)
  PROVE  KubeTypeOK'
BY DEF Destroyed, Remaining, Absent, Namespace, KubeTypeOK

LEMMA PodsUpTyped ==
  ASSUME KubeTypeOK, NEW u, PodsUp(u), UNCHANGED <<minted, thisRun, sameSecond>>
  PROVE  KubeTypeOK'
BY DEF PodsUp, Namespace, KubeTypeOK

(* The named parts of every step's frame.                                  *)
LEMMA KubeUnchanged == ASSUME KubeTypeOK, UNCHANGED kubeVars PROVE KubeTypeOK'
BY DEF KubeTypeOK, kubeVars
LEMMA HandlerUnchanged == ASSUME HandlerTypeOK, UNCHANGED <<opVars, restarts, proc>> PROVE HandlerTypeOK'
BY DEF HandlerTypeOK, opVars

-----------------------------------------------------------------------------
(* The types are invariant.                                                *)
LEMMA InitTypeOK == Init => TypeOK
<1> SUFFICES ASSUME Init PROVE TypeOK
  OBVIOUS
<1>1. KubeTypeOK
  BY DEF Init, KubeTypeOK, Namespace, Absent
<1>2. PoolTypeOK
  BY DEF Init, PoolTypeOK, InitSignals
<1>3. HandlerTypeOK
  <2>1. opAll \in BOOLEAN
    BY Zenon DEF Init
  <2> QED
    BY <2>1 DEF Init, HandlerTypeOK
<1> QED
  BY <1>1, <1>2, <1>3 DEF TypeOK

(* The steps of the filling subroutine.                                    *)
LEMMA RunTyped == TypeOK /\ RunStep /\ UNCHANGED <<opVars, restarts>> => TypeOK'
<1> SUFFICES ASSUME TypeOK, RunStep, UNCHANGED <<opVars, restarts>> PROVE TypeOK'
  OBVIOUS
<1> USE DEF TypeOK
<1>1. CASE RunTakeSignal
  <2>1. KubeTypeOK'
    BY <1>1, KubeUnchanged DEF RunTakeSignal, poolVars
  <2>2. PoolTypeOK'
    BY <1>1 DEF RunTakeSignal, ctxDone, fillClosed, PoolTypeOK, poolVars, chanVars, runVars, oldVars, closeVars
  <2>3. HandlerTypeOK'
    BY <1>1 DEF RunTakeSignal, ctxDone, fillClosed, HandlerTypeOK, poolVars, opVars
  <2> QED
    BY <2>1, <2>2, <2>3
<1>2. CASE RunStop
  <2>1. KubeTypeOK'
    BY <1>2, KubeUnchanged DEF RunStop, poolVars
  <2>2. PoolTypeOK'
    BY <1>2 DEF RunStop, ctxDone, PoolTypeOK, poolVars, chanVars, runVars, oldVars, closeVars
  <2>3. HandlerTypeOK'
    BY <1>2 DEF RunStop, ctxDone, HandlerTypeOK, poolVars, opVars
  <2> QED
    BY <2>1, <2>2, <2>3
<1>3. CASE RunCreate
  <2>1. KubeTypeOK'
    BY <1>3, NewNamespaceTyped DEF RunCreate
  <2>2. PoolTypeOK'
    BY <1>3 DEF RunCreate, PoolTypeOK, poolVars, chanVars, runVars, oldVars, closeVars
  <2>3. HandlerTypeOK'
    BY <1>3 DEF RunCreate, HandlerTypeOK, poolVars, opVars
  <2> QED
    BY <2>1, <2>2, <2>3
<1>4. CASE RunCreateFails
  <2>1. KubeTypeOK'
    BY <1>4, NewNamespaceTyped, KubeUnchanged DEF RunCreateFails
  <2>2. PoolTypeOK'
    BY <1>4 DEF RunCreateFails, PoolTypeOK, poolVars, chanVars, runVars, oldVars, closeVars
  <2>3. HandlerTypeOK'
    BY <1>4 DEF RunCreateFails, HandlerTypeOK, poolVars, opVars
  <2> QED
    BY <2>1, <2>2, <2>3
<1>5. CASE RunLaunch
  <2>1. KubeTypeOK'
    BY <1>5, PodsUpTyped DEF RunLaunch
  <2>2. PoolTypeOK'
    BY <1>5 DEF RunLaunch, PodsUp, PoolTypeOK, poolVars, chanVars, runVars, oldVars, closeVars
  <2>3. HandlerTypeOK'
    BY <1>5 DEF RunLaunch, PodsUp, HandlerTypeOK, poolVars, opVars
  <2> QED
    BY <2>1, <2>2, <2>3
<1>6. CASE RunLaunchFails
  <2>1. KubeTypeOK'
    BY <1>6, KubeUnchanged DEF RunLaunchFails, poolVars
  <2>2. PoolTypeOK'
    BY <1>6 DEF RunLaunchFails, PoolTypeOK, poolVars, chanVars, runVars, oldVars, closeVars
  <2>3. HandlerTypeOK'
    BY <1>6 DEF RunLaunchFails, HandlerTypeOK, poolVars, opVars
  <2> QED
    BY <2>1, <2>2, <2>3
<1>7. CASE RunUndo
  <2>1. KubeTypeOK'
    BY <1>7, DestroyedTyped DEF RunUndo
  <2>2. PoolTypeOK'
    BY <1>7 DEF RunUndo, PoolTypeOK, poolVars, chanVars, runVars, oldVars, closeVars
  <2>3. HandlerTypeOK'
    BY <1>7 DEF RunUndo, HandlerTypeOK, poolVars, opVars
  <2> QED
    BY <2>1, <2>2, <2>3
<1>8. CASE RunSend
  <2>1. KubeTypeOK'
    BY <1>8, KubeUnchanged DEF RunSend, poolVars
  <2>2. PoolTypeOK'
    BY <1>8 DEF RunSend, idleClosed, PoolTypeOK, poolVars, chanVars, runVars, oldVars, closeVars
  <2>3. HandlerTypeOK'
    BY <1>8 DEF RunSend, idleClosed, HandlerTypeOK, poolVars, opVars
  <2> QED
    BY <2>1, <2>2, <2>3
<1>9. CASE RunSendPanics
  <2>1. KubeTypeOK'
    BY <1>9, KubeUnchanged DEF RunSendPanics, poolVars
  <2>2. PoolTypeOK'
    BY <1>9 DEF RunSendPanics, PoolTypeOK, poolVars, chanVars, runVars, oldVars, closeVars
  <2>3. HandlerTypeOK'
    BY <1>9 DEF RunSendPanics, HandlerTypeOK, poolVars, opVars
  <2> QED
    BY <2>1, <2>2, <2>3
<1> QED
  BY <1>1, <1>2, <1>3, <1>4, <1>5, <1>6, <1>7, <1>8, <1>9 DEF RunStep

(* The steps of the remover of old idle enclaves.                          *)
LEMMA OldTyped == TypeOK /\ OldStep /\ UNCHANGED <<opVars, restarts>> => TypeOK'
<1> SUFFICES ASSUME TypeOK, OldStep, UNCHANGED <<opVars, restarts>> PROVE TypeOK'
  OBVIOUS
<1> USE DEF TypeOK
<1>1. CASE OldList
  <2>1. KubeTypeOK'
    BY <1>1, KubeUnchanged DEF OldList, poolVars
  <2>2. PoolTypeOK'
    BY <1>1 DEF OldList, OldIdleOnes, IdleOnes, PoolTypeOK, poolVars, chanVars, runVars, oldVars, closeVars
  <2>3. HandlerTypeOK'
    BY <1>1 DEF OldList, OldIdleOnes, IdleOnes, HandlerTypeOK, poolVars, opVars
  <2> QED
    BY <2>1, <2>2, <2>3
<1>2. CASE OldListFails
  <2>1. KubeTypeOK'
    BY <1>2, KubeUnchanged DEF OldListFails, poolVars
  <2>2. PoolTypeOK'
    BY <1>2 DEF OldListFails, OldRetry, PoolTypeOK, poolVars, chanVars, runVars, oldVars, closeVars
  <2>3. HandlerTypeOK'
    BY <1>2 DEF OldListFails, OldRetry, HandlerTypeOK, poolVars, opVars
  <2> QED
    BY <2>1, <2>2, <2>3
<1>3. CASE OldDestroy
  <2>1. KubeTypeOK'
    BY <1>3, DestroyedTyped DEF OldDestroy
  <2>2. PoolTypeOK'
    BY <1>3 DEF OldDestroy, OldRetry, PoolTypeOK, poolVars, chanVars, runVars, oldVars, closeVars
  <2>3. HandlerTypeOK'
    BY <1>3 DEF OldDestroy, OldRetry, HandlerTypeOK, poolVars, opVars
  <2> QED
    BY <2>1, <2>2, <2>3
<1> QED
  BY <1>1, <1>2, <1>3 DEF OldStep

(* The steps of Close.                                                     *)
LEMMA CloseTyped == TypeOK /\ CloseStep /\ UNCHANGED <<opVars, restarts>> => TypeOK'
<1> SUFFICES ASSUME TypeOK, CloseStep, UNCHANGED <<opVars, restarts>> PROVE TypeOK'
  OBVIOUS
<1> USE DEF TypeOK
<1>1. CASE CloseList
  <2>1. KubeTypeOK'
    BY <1>1, KubeUnchanged DEF CloseList, poolVars
  <2>2. PoolTypeOK'
    BY <1>1 DEF CloseList, IdleOnes, PoolTypeOK, poolVars, chanVars, runVars, oldVars, closeVars
  <2>3. HandlerTypeOK'
    BY <1>1 DEF CloseList, IdleOnes, HandlerTypeOK, poolVars, opVars
  <2> QED
    BY <2>1, <2>2, <2>3
<1>2. CASE CloseListFails
  <2>1. KubeTypeOK'
    BY <1>2, KubeUnchanged DEF CloseListFails, poolVars
  <2>2. PoolTypeOK'
    BY <1>2 DEF CloseListFails, PoolTypeOK, poolVars, chanVars, runVars, oldVars, closeVars
  <2>3. HandlerTypeOK'
    BY <1>2 DEF CloseListFails, HandlerTypeOK, poolVars, opVars
  <2> QED
    BY <2>1, <2>2, <2>3
<1>3. CASE CloseDestroy
  <2>1. KubeTypeOK'
    BY <1>3, DestroyedTyped DEF CloseDestroy
  <2>2. PoolTypeOK'
    BY <1>3 DEF CloseDestroy, PoolTypeOK, poolVars, chanVars, runVars, oldVars, closeVars
  <2>3. HandlerTypeOK'
    BY <1>3 DEF CloseDestroy, HandlerTypeOK, poolVars, opVars
  <2> QED
    BY <2>1, <2>2, <2>3
<1>4. CASE CloseChannels
  <2>1. KubeTypeOK'
    BY <1>4, KubeUnchanged DEF CloseChannels, poolVars
  <2>2. PoolTypeOK'
    BY <1>4 DEF CloseChannels, PoolTypeOK, poolVars, chanVars, runVars, oldVars, closeVars
  <2>3. HandlerTypeOK'
    BY <1>4 DEF CloseChannels, HandlerTypeOK, poolVars, opVars
  <2> QED
    BY <2>1, <2>2, <2>3
<1> QED
  BY <1>1, <1>2, <1>3, <1>4 DEF CloseStep

(* The rest of PoolStep.                                                   *)
LEMMA OtherTyped == TypeOK /\ (InitSend \/ CloseCancel \/ CloseNilPool \/ PodsDie \/ SecondPasses) /\ UNCHANGED <<opVars, restarts>> => TypeOK'
<1> SUFFICES ASSUME TypeOK, (InitSend \/ CloseCancel \/ CloseNilPool \/ PodsDie \/ SecondPasses), UNCHANGED <<opVars, restarts>> PROVE TypeOK'
  OBVIOUS
<1> USE DEF TypeOK
<1>1. CASE InitSend
  <2>1. KubeTypeOK'
    BY <1>1, KubeUnchanged DEF InitSend, poolVars
  <2>2. PoolTypeOK'
    BY <1>1 DEF InitSend, PoolTypeOK, poolVars, chanVars, runVars, oldVars, closeVars
  <2>3. HandlerTypeOK'
    BY <1>1 DEF InitSend, HandlerTypeOK, poolVars, opVars
  <2> QED
    BY <2>1, <2>2, <2>3
<1>2. CASE CloseCancel
  <2>1. KubeTypeOK'
    BY <1>2, KubeUnchanged DEF CloseCancel, poolVars
  <2>2. PoolTypeOK'
    BY <1>2 DEF CloseCancel, PoolTypeOK, poolVars, chanVars, runVars, oldVars, closeVars
  <2>3. HandlerTypeOK'
    BY <1>2 DEF CloseCancel, HandlerTypeOK, poolVars, opVars
  <2> QED
    BY <2>1, <2>2, <2>3
<1>3. CASE CloseNilPool
  <2>1. KubeTypeOK'
    BY <1>3, KubeUnchanged DEF CloseNilPool, poolVars
  <2>2. PoolTypeOK'
    BY <1>3 DEF CloseNilPool, PoolTypeOK, poolVars, chanVars, runVars, oldVars, closeVars
  <2>3. HandlerTypeOK'
    BY <1>3 DEF CloseNilPool, HandlerTypeOK, poolVars, opVars
  <2> QED
    BY <2>1, <2>2, <2>3
<1>4. CASE PodsDie
  <2>1. KubeTypeOK'
    BY <1>4 DEF PodsDie, KubeTypeOK, Namespace
  <2>2. PoolTypeOK'
    BY <1>4 DEF PodsDie, PoolTypeOK, poolVars, chanVars, runVars, oldVars, closeVars
  <2>3. HandlerTypeOK'
    BY <1>4 DEF PodsDie, HandlerTypeOK, poolVars, opVars
  <2> QED
    BY <2>1, <2>2, <2>3
<1>5. CASE SecondPasses
  <2>1. KubeTypeOK'
    BY <1>5 DEF SecondPasses, KubeTypeOK
  <2>2. PoolTypeOK'
    BY <1>5 DEF SecondPasses, PoolTypeOK, poolVars, chanVars, runVars, oldVars, closeVars
  <2>3. HandlerTypeOK'
    BY <1>5 DEF SecondPasses, HandlerTypeOK, poolVars, opVars
  <2> QED
    BY <2>1, <2>2, <2>3
<1> QED
  BY <1>1, <1>2, <1>3, <1>4, <1>5

(* Requests.                                                               *)
LEMMA RequestTyped == TypeOK /\ RequestStep => TypeOK'
<1> SUFFICES ASSUME TypeOK, RequestStep PROVE TypeOK'
  OBVIOUS
<1> USE DEF TypeOK
<1>1. CASE RequestCreate
  <2>1. KubeTypeOK'
    BY <1>1, KubeUnchanged DEF RequestCreate, Request, poolVars
  <2>2. PoolTypeOK'
    BY <1>1 DEF RequestCreate, Request, Continue, PoolTypeOK, poolVars, chanVars, runVars, oldVars, closeVars
  <2>3. HandlerTypeOK'
    BY <1>1 DEF RequestCreate, Request, Continue, HandlerTypeOK, poolVars, opVars
  <2> QED
    BY <2>1, <2>2, <2>3
<1>2. CASE RequestClean
  <2>1. KubeTypeOK'
    BY <1>2, KubeUnchanged DEF RequestClean, Request, poolVars
  <2>2. PoolTypeOK'
    BY <1>2 DEF RequestClean, Request, PoolTypeOK, poolVars, chanVars, runVars, oldVars, closeVars
  <2>3. HandlerTypeOK'
    BY <1>2 DEF RequestClean, Request, HandlerTypeOK, poolVars, opVars
  <2> QED
    BY <2>1, <2>2, <2>3
<1>3. CASE RequestOnEnclave
  <2>1. KubeTypeOK'
    BY <1>3, KubeUnchanged DEF RequestOnEnclave, Request, poolVars
  <2>2. PoolTypeOK'
    BY <1>3 DEF RequestOnEnclave, Request, PoolTypeOK, poolVars, chanVars, runVars, oldVars, closeVars
  <2>3. HandlerTypeOK'
    BY <1>3 DEF RequestOnEnclave, Request, HandlerTypeOK, poolVars, opVars
  <2> QED
    BY <2>1, <2>2, <2>3
<1> QED
  BY <1>1, <1>2, <1>3 DEF RequestStep

(* The steps of a request.                                                 *)
LEMMA HandlerTyped == TypeOK /\ HandlerStep => TypeOK'
<1> SUFFICES ASSUME TypeOK, HandlerStep PROVE TypeOK'
  OBVIOUS
<1> USE DEF TypeOK
<1>1. CASE GetIdleCheck
  <2>1. KubeTypeOK'
    BY <1>1, KubeUnchanged DEF GetIdleCheck, poolVars
  <2>2. PoolTypeOK'
    BY <1>1 DEF GetIdleCheck, Continue, PoolTypeOK, poolVars, chanVars, runVars, oldVars, closeVars
  <2>3. HandlerTypeOK'
    BY <1>1 DEF GetIdleCheck, Continue, HandlerTypeOK, poolVars, opVars
  <2> QED
    BY <2>1, <2>2, <2>3
<1>2. CASE GetReceive
  <2>1. KubeTypeOK'
    BY <1>2, KubeUnchanged DEF GetReceive, poolVars
  <2>2. PoolTypeOK'
    BY <1>2 DEF GetReceive, PoolTypeOK, poolVars, chanVars, runVars, oldVars, closeVars
  <2>3. HandlerTypeOK'
    <3>1. CASE idle # <<>>
      <4>1. Head(idle) \in Uuid
        BY <3>1 DEF PoolTypeOK
      <4> QED
        BY <1>2, <3>1, <4>1 DEF GetReceive, HandlerTypeOK
    <3>2. CASE idle = <<>>
      BY <1>2, <3>2 DEF GetReceive, HandlerTypeOK
    <3> QED
      BY <3>1, <3>2
  <2> QED
    BY <2>1, <2>2, <2>3
<1>3. CASE GetSignal
  <2>1. KubeTypeOK'
    BY <1>3, KubeUnchanged DEF GetSignal, poolVars
  <2>2. PoolTypeOK'
    BY <1>3 DEF GetSignal, Continue, Release, PoolTypeOK, poolVars, chanVars, runVars, oldVars, closeVars
  <2>3. HandlerTypeOK'
    BY <1>3 DEF GetSignal, Continue, Release, HandlerTypeOK, poolVars, opVars
  <2> QED
    BY <2>1, <2>2, <2>3
<1>4. CASE GetVerify
  <2>1. KubeTypeOK'
    BY <1>4, KubeUnchanged DEF GetVerify, poolVars
  <2>2. PoolTypeOK'
    BY <1>4 DEF GetVerify, Continue, PoolTypeOK, poolVars, chanVars, runVars, oldVars, closeVars
  <2>3. HandlerTypeOK'
    BY <1>4 DEF GetVerify, Continue, HandlerTypeOK, poolVars, opVars
  <2> QED
    BY <2>1, <2>2, <2>3
<1>5. CASE GetRename
  <2>1. KubeTypeOK'
    BY <1>5 DEF GetRename, KubeTypeOK, Namespace
  <2>2. PoolTypeOK'
    BY <1>5 DEF GetRename, Release, PoolTypeOK, poolVars, chanVars, runVars, oldVars, closeVars
  <2>3. HandlerTypeOK'
    <3>1. identifiers' \in Seq(Uuid)
      BY <1>5 DEF GetRename, HandlerTypeOK
    <3>2. opAll' \in BOOLEAN
      BY <1>5, Zenon DEF GetRename, Release
    <3> QED
      BY <1>5, <3>1, <3>2 DEF GetRename, Release, HandlerTypeOK
  <2> QED
    BY <2>1, <2>2, <2>3
<1>6. CASE GetRenameFails
  <2>1. KubeTypeOK'
    BY <1>6, KubeUnchanged DEF GetRenameFails, poolVars
  <2>2. PoolTypeOK'
    BY <1>6 DEF GetRenameFails, Continue, PoolTypeOK, poolVars, chanVars, runVars, oldVars, closeVars
  <2>3. HandlerTypeOK'
    BY <1>6 DEF GetRenameFails, Continue, HandlerTypeOK, poolVars, opVars
  <2> QED
    BY <2>1, <2>2, <2>3
<1>7. CASE GetGiveBack
  <2>1. KubeTypeOK'
    BY <1>7, DestroyedTyped DEF GetGiveBack
  <2>2. PoolTypeOK'
    BY <1>7 DEF GetGiveBack, PoolTypeOK, poolVars, chanVars, runVars, oldVars, closeVars
  <2>3. HandlerTypeOK'
    BY <1>7 DEF GetGiveBack, HandlerTypeOK, poolVars, opVars
  <2> QED
    BY <2>1, <2>2, <2>3
<1>8. CASE DirectCreate
  <2>1. KubeTypeOK'
    BY <1>8, NewNamespaceTyped DEF DirectCreate
  <2>2. PoolTypeOK'
    BY <1>8 DEF DirectCreate, PoolTypeOK, poolVars, chanVars, runVars, oldVars, closeVars
  <2>3. HandlerTypeOK'
    BY <1>8 DEF DirectCreate, HandlerTypeOK, poolVars, opVars
  <2> QED
    BY <2>1, <2>2, <2>3
<1>9. CASE DirectCreateFails
  <2>1. KubeTypeOK'
    BY <1>9, NewNamespaceTyped, KubeUnchanged DEF DirectCreateFails
  <2>2. PoolTypeOK'
    BY <1>9 DEF DirectCreateFails, Release, PoolTypeOK, poolVars, chanVars, runVars, oldVars, closeVars
  <2>3. HandlerTypeOK'
    BY <1>9 DEF DirectCreateFails, Release, HandlerTypeOK, poolVars, opVars
  <2> QED
    BY <2>1, <2>2, <2>3
<1>10. CASE DirectLaunch
  <2>1. KubeTypeOK'
    BY <1>10, PodsUpTyped DEF DirectLaunch
  <2>2. PoolTypeOK'
    BY <1>10 DEF DirectLaunch, Release, PodsUp, PoolTypeOK, poolVars, chanVars, runVars, oldVars, closeVars
  <2>3. HandlerTypeOK'
    <3>1. identifiers' \in Seq(Uuid)
      BY <1>10 DEF DirectLaunch, HandlerTypeOK
    <3>2. opAll' \in BOOLEAN
      BY <1>10, Zenon DEF DirectLaunch, Release
    <3> QED
      BY <1>10, <3>1, <3>2 DEF DirectLaunch, Release, HandlerTypeOK
  <2> QED
    BY <2>1, <2>2, <2>3
<1>11. CASE DirectLaunchFails
  <2>1. KubeTypeOK'
    BY <1>11, KubeUnchanged DEF DirectLaunchFails, poolVars
  <2>2. PoolTypeOK'
    BY <1>11 DEF DirectLaunchFails, Continue, PoolTypeOK, poolVars, chanVars, runVars, oldVars, closeVars
  <2>3. HandlerTypeOK'
    BY <1>11 DEF DirectLaunchFails, Continue, HandlerTypeOK, poolVars, opVars
  <2> QED
    BY <2>1, <2>2, <2>3
<1>12. CASE DirectUndo
  <2>1. KubeTypeOK'
    BY <1>12, DestroyedTyped DEF DirectUndo
  <2>2. PoolTypeOK'
    BY <1>12 DEF DirectUndo, Release, PoolTypeOK, poolVars, chanVars, runVars, oldVars, closeVars
  <2>3. HandlerTypeOK'
    BY <1>12 DEF DirectUndo, Release, HandlerTypeOK, poolVars, opVars
  <2> QED
    BY <2>1, <2>2, <2>3
<1>13. CASE CleanList
  <2>1. KubeTypeOK'
    BY <1>13, KubeUnchanged DEF CleanList, poolVars
  <2>2. PoolTypeOK'
    BY <1>13 DEF CleanList, PoolTypeOK, poolVars, chanVars, runVars, oldVars, closeVars
  <2>3. HandlerTypeOK'
    BY <1>13 DEF CleanList, HandlerTypeOK, poolVars, opVars
  <2> QED
    BY <2>1, <2>2, <2>3
<1>14. CASE CleanListFails
  <2>1. KubeTypeOK'
    BY <1>14, KubeUnchanged DEF CleanListFails, poolVars
  <2>2. PoolTypeOK'
    BY <1>14 DEF CleanListFails, Release, PoolTypeOK, poolVars, chanVars, runVars, oldVars, closeVars
  <2>3. HandlerTypeOK'
    BY <1>14 DEF CleanListFails, Release, HandlerTypeOK, poolVars, opVars
  <2> QED
    BY <2>1, <2>2, <2>3
<1>15. CASE CleanDestroy
  <2>1. KubeTypeOK'
    BY <1>15, DestroyedTyped DEF CleanDestroy
  <2>2. PoolTypeOK'
    BY <1>15 DEF CleanDestroy, Release, PoolTypeOK, poolVars, chanVars, runVars, oldVars, closeVars
  <2>3. HandlerTypeOK'
    BY <1>15 DEF CleanDestroy, Release, HandlerTypeOK, poolVars, opVars
  <2> QED
    BY <2>1, <2>2, <2>3
<1>16. CASE StopEnclave
  <2>1. KubeTypeOK'
    BY <1>16 DEF StopEnclave, KubeTypeOK, Namespace
  <2>2. PoolTypeOK'
    BY <1>16 DEF StopEnclave, Release, PoolTypeOK, poolVars, chanVars, runVars, oldVars, closeVars
  <2>3. HandlerTypeOK'
    BY <1>16 DEF StopEnclave, Release, HandlerTypeOK, poolVars, opVars
  <2> QED
    BY <2>1, <2>2, <2>3
<1>17. CASE DestroyEnclave
  <2>1. KubeTypeOK'
    BY <1>17, DestroyedTyped DEF DestroyEnclave
  <2>2. PoolTypeOK'
    BY <1>17 DEF DestroyEnclave, Release, PoolTypeOK, poolVars, chanVars, runVars, oldVars, closeVars
  <2>3. HandlerTypeOK'
    BY <1>17 DEF DestroyEnclave, Release, HandlerTypeOK, poolVars, opVars
  <2> QED
    BY <2>1, <2>2, <2>3
<1> QED
  BY <1>1, <1>2, <1>3, <1>4, <1>5, <1>6, <1>7, <1>8, <1>9, <1>10, <1>11, <1>12, <1>13, <1>14, <1>15, <1>16, <1>17 DEF HandlerStep

(* The life of the process.                                                *)
LEMMA LifeTyped == TypeOK /\ (Exit \/ Crash \/ Restart) => TypeOK'
<1> SUFFICES ASSUME TypeOK, (Exit \/ Crash \/ Restart) PROVE TypeOK'
  OBVIOUS
<1> USE DEF TypeOK
<1>1. CASE Exit
  <2>1. KubeTypeOK'
    BY <1>1, KubeUnchanged DEF Exit, StopProcess, poolVars
  <2>2. PoolTypeOK'
    BY <1>1 DEF Exit, StopProcess, PoolTypeOK, poolVars, chanVars, runVars, oldVars, closeVars
  <2>3. HandlerTypeOK'
    BY <1>1 DEF Exit, StopProcess, HandlerTypeOK, poolVars, opVars
  <2> QED
    BY <2>1, <2>2, <2>3
<1>2. CASE Crash
  <2>1. KubeTypeOK'
    BY <1>2, KubeUnchanged DEF Crash, StopProcess, poolVars
  <2>2. PoolTypeOK'
    BY <1>2 DEF Crash, StopProcess, PoolTypeOK, poolVars, chanVars, runVars, oldVars, closeVars
  <2>3. HandlerTypeOK'
    BY <1>2 DEF Crash, StopProcess, HandlerTypeOK, poolVars, opVars
  <2> QED
    BY <2>1, <2>2, <2>3
<1>3. CASE Restart
  <2>1. KubeTypeOK'
    <3>1. \A u \in Uuid : ns[u] \in Namespace /\ [ns[u] EXCEPT !.old = TRUE] \in Namespace
      <4>1. ns \in [Uuid -> Namespace]
        BY DEF KubeTypeOK
      <4> QED
        BY <4>1 DEF Namespace
    <3>2. ns' = [u \in Uuid |-> IF Exists(u) THEN [ns[u] EXCEPT !.old = TRUE] ELSE ns[u]]
      BY <1>3 DEF Restart
    <3>3. ns' \in [Uuid -> Namespace]
      BY <3>1, <3>2
    <3> QED
      BY <1>3, <3>3 DEF Restart, KubeTypeOK
  <2>2. PoolTypeOK'
    BY <1>3 DEF Restart, InitSignals, PoolTypeOK
  <2>3. HandlerTypeOK'
    <3>1. opAll' \in BOOLEAN
      BY <1>3, Zenon DEF Restart, Release
    <3> QED
      BY <1>3, <3>1 DEF Restart, Release, HandlerTypeOK
  <2> QED
    BY <2>1, <2>2, <2>3
<1> QED
  BY <1>1, <1>2, <1>3

LEMMA NextTyped == TypeOK /\ [Next]_vars => TypeOK'
<1> SUFFICES ASSUME TypeOK, [Next]_vars PROVE TypeOK'
  OBVIOUS
<1>1. CASE UNCHANGED vars
  BY <1>1 DEF vars, poolVars, kubeVars, chanVars, runVars, oldVars, closeVars, opVars,
              TypeOK, KubeTypeOK, PoolTypeOK, HandlerTypeOK
<1>2. CASE PoolStep
  BY <1>2, RunTyped, OldTyped, CloseTyped, OtherTyped DEF PoolStep
<1> QED
  BY <1>1, <1>2, RequestTyped, HandlerTyped, LifeTyped DEF Next, Quiet

(* The types are an invariant of the engine, for all constants.            *)
THEOREM TypeCorrect == Spec => []TypeOK
BY InitTypeOK, NextTyped, PTL DEF Spec

-----------------------------------------------------------------------------
(* Capacity.  A slot of the pool is a signal to send, a signal buffered, an *)
(* enclave being created, one buffered, or one taken and not yet signalled; *)
(* every step moves slots and none adds one, so a sender finds room.        *)
SlotsBounded == SlotsUsed <= PoolSize

LEMMA SlotsMove ==
  ASSUME TypeOK, SlotsBounded, [Next]_vars
  PROVE  SlotsBounded'
<1> USE DEF SlotsBounded, SlotsUsed, CreatingSlot, TakenSlot
<1>0. /\ idle \in Seq(Uuid) /\ Len(idle) \in Nat
      /\ fill \in Nat /\ toInit \in Nat
  BY DEF TypeOK, PoolTypeOK
<1>1. CASE UNCHANGED vars
  BY <1>1 DEF vars, poolVars, chanVars, runVars, opVars
<1>2. CASE InitSend /\ UNCHANGED <<opVars, restarts>>
  BY <1>0, <1>2 DEF InitSend, runVars, opVars
<1>3. CASE RunStep /\ UNCHANGED <<opVars, restarts>>
  <2>1. CASE RunTakeSignal
    BY <1>0, <1>3, <2>1 DEF RunTakeSignal, ctxDone, fillClosed, chanVars, runVars, opVars
  <2>2. CASE RunStop
    BY <1>0, <1>3, <2>2 DEF RunStop, chanVars, runVars, opVars
  <2>3. CASE RunCreate
    BY <1>0, <1>3, <2>3 DEF RunCreate, chanVars, runVars, opVars
  <2>4. CASE RunCreateFails
    BY <1>0, <1>3, <2>4 DEF RunCreateFails, chanVars, runVars, opVars
  <2>5. CASE RunLaunch
    BY <1>0, <1>3, <2>5 DEF RunLaunch, chanVars, runVars, opVars
  <2>6. CASE RunLaunchFails
    BY <1>0, <1>3, <2>6 DEF RunLaunchFails, chanVars, runVars, opVars
  <2>7. CASE RunUndo
    BY <1>0, <1>3, <2>7 DEF RunUndo, chanVars, runVars, opVars
  <2>8. CASE RunSend
    <3>1. Len(idle') = Len(idle) + 1
      BY <1>0, <2>8 DEF RunSend, TypeOK, PoolTypeOK
    <3> QED
      BY <1>0, <1>3, <2>8, <3>1 DEF RunSend, opVars
  <2>9. CASE RunSendPanics
    BY <1>0, <1>3, <2>9 DEF RunSendPanics, chanVars, runVars, opVars
  <2> QED
    BY <1>3, <2>1, <2>2, <2>3, <2>4, <2>5, <2>6, <2>7, <2>8, <2>9 DEF RunStep
<1>4. CASE (OldStep \/ CloseStep \/ CloseCancel \/ CloseNilPool \/ PodsDie \/ SecondPasses)
           /\ UNCHANGED <<opVars, restarts>>
  <2>1. UNCHANGED <<toInit, fill, idle, runPc, op>>
    BY <1>4 DEF OldStep, OldList, OldListFails, OldDestroy, CloseStep, CloseList, CloseListFails,
                CloseDestroy, CloseChannels, CloseCancel, CloseNilPool, PodsDie, SecondPasses,
                chanVars, runVars, opVars
  <2> QED
    BY <1>0, <2>1
<1>5. CASE RequestStep
  <2>1. UNCHANGED <<toInit, fill, idle, runPc>> /\ op = "free" /\ op' # "signal"
    BY <1>5 DEF RequestStep, RequestCreate, RequestClean, RequestOnEnclave, Request, Continue,
                poolVars, chanVars, runVars
  <2> QED
    BY <1>0, <2>1
<1>6. CASE GetReceive
  <2>1. CASE idle # <<>>
    <3>1. Len(idle') = Len(idle) - 1
      BY <1>0, <1>6, <2>1 DEF GetReceive
    <3> QED
      BY <1>0, <1>6, <2>1, <3>1 DEF GetReceive, runVars
  <2>2. CASE idle = <<>>
    BY <1>0, <1>6, <2>2 DEF GetReceive, runVars
  <2> QED
    BY <2>1, <2>2
<1>7. CASE GetSignal
  BY <1>0, <1>7 DEF GetSignal, Continue, Release, runVars
<1>8. CASE HandlerStep /\ ~GetReceive /\ ~GetSignal
  <2>1. UNCHANGED <<toInit, fill, idle, runPc>> /\ op # "signal" /\ op' # "signal"
    BY <1>8 DEF HandlerStep, GetIdleCheck, GetVerify, GetRename, GetRenameFails, GetGiveBack,
                DirectCreate, DirectCreateFails, DirectLaunch, DirectLaunchFails, DirectUndo,
                CleanList, CleanListFails, CleanDestroy, StopEnclave, DestroyEnclave,
                Continue, Release, poolVars, chanVars, runVars
  <2> QED
    BY <1>0, <2>1
<1>9. CASE Exit \/ Crash
  BY <1>9 DEF Exit, Crash, StopProcess, chanVars, runVars, opVars
<1>10. CASE Restart
  BY <1>10 DEF Restart, Release, InitSignals
<1> QED
  BY <1>1, <1>2, <1>3, <1>4, <1>5, <1>6, <1>7, <1>8, <1>9, <1>10 DEF Next, PoolStep, Quiet

(* Neither a request, nor init, nor the subroutine ever waits for room in  *)
(* the channel it sends on, for any pool size and any schedule.            *)
THEOREM NeverBlocks == Spec => []SendsNeverBlock
<1>1. Init => SlotsBounded
  BY DEF Init, InitSignals, SlotsBounded, SlotsUsed, CreatingSlot, TakenSlot
<1>2. TypeOK /\ SlotsBounded /\ [Next]_vars => SlotsBounded'
  BY SlotsMove
<1>3. TypeOK /\ SlotsBounded => SendsNeverBlock
  <2> SUFFICES ASSUME TypeOK, SlotsBounded PROVE SendsNeverBlock
    OBVIOUS
  <2>1. Len(idle) \in Nat /\ fill \in Nat /\ toInit \in Nat
    BY DEF TypeOK, PoolTypeOK
  <2> QED
    BY <2>1 DEF SlotsBounded, SlotsUsed, CreatingSlot, TakenSlot, SendsNeverBlock
<1> QED
  BY <1>1, <1>2, <1>3, TypeCorrect, PTL DEF Spec

-----------------------------------------------------------------------------
(* What the channel and the list of identifiers contain after they grow or *)
(* shrink, and that they keep their elements distinct.                     *)
LEMMA EmptySequence == Range(<<>>) = {} /\ IsInjective(<<>>)
BY DEF Range, IsInjective

LEMMA AppendOnce ==
  ASSUME NEW S, NEW s \in Seq(S), NEW e \in S
  PROVE  /\ Range(Append(s, e)) = Range(s) \cup {e}
         /\ IsInjective(s) /\ e \notin Range(s) => IsInjective(Append(s, e))
<1>1. /\ Append(s, e) \in Seq(S) /\ Len(Append(s, e)) = Len(s) + 1
      /\ \A i \in 1..Len(s) : Append(s, e)[i] = s[i]
      /\ Append(s, e)[Len(s) + 1] = e
  OBVIOUS
<1>2. DOMAIN s = 1..Len(s) /\ DOMAIN Append(s, e) = 1..(Len(s) + 1) /\ Len(s) \in Nat
  BY <1>1
<1>3. Range(Append(s, e)) = Range(s) \cup {e}
  BY <1>1, <1>2 DEF Range
<1>4. ASSUME IsInjective(s), e \notin Range(s) PROVE IsInjective(Append(s, e))
  BY <1>1, <1>2, <1>4 DEF Range, IsInjective
<1> QED
  BY <1>3, <1>4

LEMMA TailOnce ==
  ASSUME NEW S, NEW s \in Seq(S), s # <<>>
  PROVE  /\ Range(s) = Range(Tail(s)) \cup {Head(s)}
         /\ IsInjective(s) => IsInjective(Tail(s)) /\ Head(s) \notin Range(Tail(s))
<1>1. /\ Tail(s) \in Seq(S) /\ Len(Tail(s)) = Len(s) - 1 /\ Len(s) \in Nat \ {0}
      /\ \A i \in 1..Len(Tail(s)) : Tail(s)[i] = s[i + 1]
      /\ Head(s) = s[1]
  OBVIOUS
<1>2. DOMAIN s = 1..Len(s) /\ DOMAIN Tail(s) = 1..(Len(s) - 1)
  BY <1>1
<1>3. Range(s) = Range(Tail(s)) \cup {Head(s)}
  <2>1. ASSUME NEW i \in DOMAIN s PROVE s[i] \in Range(Tail(s)) \cup {Head(s)}
    <3>1. CASE i = 1
      BY <1>1, <3>1
    <3>2. CASE i # 1
      <4>1. i - 1 \in DOMAIN Tail(s) /\ Tail(s)[i - 1] = s[i]
        BY <1>1, <1>2, <3>2
      <4> QED
        BY <4>1 DEF Range
    <3> QED
      BY <3>1, <3>2
  <2>2. ASSUME NEW i \in DOMAIN Tail(s) PROVE Tail(s)[i] \in Range(s)
    BY <1>1, <1>2 DEF Range
  <2>3. Head(s) \in Range(s)
    BY <1>1, <1>2 DEF Range
  <2> QED
    BY <2>1, <2>2, <2>3 DEF Range
<1>4. ASSUME IsInjective(s) PROVE IsInjective(Tail(s)) /\ Head(s) \notin Range(Tail(s))
  BY <1>1, <1>2, <1>4 DEF Range, IsInjective
<1> QED
  BY <1>3, <1>4

-----------------------------------------------------------------------------
(* The hands an enclave passes through: the subroutine while it creates    *)
(* it, the channel, the handler that received it or creates one itself, the *)
(* identifiers returned to users.                                          *)
RunHolds == runPc \in {"launch", "undo", "send"}
OpHolds  == op \in {"signal", "verify", "rename", "giveBack", "launch", "undo", "stop", "destroy"}

RunHandOK ==
  /\ ~RunHolds => runEnc = NoUuid
  /\ runEnc \notin Range(idle) \cup Range(identifiers)
  /\ runEnc = opEnc => runEnc = NoUuid

OpHandOK ==
  /\ ~OpHolds => opEnc = NoUuid
  /\ opEnc \notin Range(idle)
  /\ op \in {"signal", "verify", "rename", "giveBack", "launch"} => opEnc \notin Range(identifiers)
  /\ op = "receive" => idle # <<>>

UsersOK == \A u \in Uuid : ns[u].kind = "user" => u \notin Range(idle) /\ u # runEnc

MintedOK ==
  /\ Range(idle) \subseteq minted /\ Range(identifiers) \subseteq minted
  /\ {runEnc, opEnc} \subseteq minted \cup {NoUuid}
  /\ \A u \in Uuid : Exists(u) => u \in minted

OnceOK ==
  /\ IsInjective(idle) /\ IsInjective(identifiers)
  /\ Range(idle) \cap Range(identifiers) = {}

HandsOK == OnceOK /\ RunHandOK /\ OpHandOK /\ UsersOK /\ MintedOK

(* Every step passes enclaves from one hand to the next: only the four     *)
(* steps that grow or shrink a sequence need more than their definitions.  *)
LEMMA RunHands == TypeOK /\ HandsOK /\ RunStep /\ UNCHANGED <<opVars, restarts>> => HandsOK'
<1> SUFFICES ASSUME TypeOK, HandsOK, RunStep, UNCHANGED <<opVars, restarts>> PROVE HandsOK'
  OBVIOUS
<1> USE DEF HandsOK, OnceOK, RunHandOK, OpHandOK, UsersOK, MintedOK, RunHolds, OpHolds, Exists,
            TypeOK, KubeTypeOK, PoolTypeOK, HandlerTypeOK, Namespace,
            kubeVars, chanVars, runVars, opVars
<1>1. CASE RunTakeSignal
  BY <1>1 DEF RunTakeSignal
<1>2. CASE RunStop
  BY <1>2 DEF RunStop
<1>3. CASE RunCreate
  BY <1>3 DEF RunCreate, NewNamespace
<1>4. CASE RunCreateFails
  <2>1. CASE UNCHANGED kubeVars
    BY <1>4, <2>1 DEF RunCreateFails
  <2>2. CASE \E u \in Uuid \ minted : NewNamespace(u, "idle")
    BY <1>4, <2>2 DEF RunCreateFails, NewNamespace
  <2> QED
    BY <1>4, <2>1, <2>2 DEF RunCreateFails
<1>5. CASE RunLaunch
  BY <1>5 DEF RunLaunch, PodsUp
<1>6. CASE RunLaunchFails
  BY <1>6 DEF RunLaunchFails
<1>7. CASE RunUndo
  BY <1>7 DEF RunUndo, Destroyed, Remaining, Absent
<1>8. CASE RunSend
  <2>1. idle \in Seq(Uuid) /\ runEnc \in Uuid /\ idle' = Append(idle, runEnc)
    BY <1>8 DEF RunSend
  <2>2. idle' # <<>>
    BY <2>1
  <2>3. /\ Range(idle') = Range(idle) \cup {runEnc}
        /\ IsInjective(idle')
    BY <2>1, AppendOnce
  <2> QED
    BY <1>8, <2>1, <2>2, <2>3 DEF RunSend
<1>9. CASE RunSendPanics
  BY <1>9 DEF RunSendPanics
<1> QED
  BY <1>1, <1>2, <1>3, <1>4, <1>5, <1>6, <1>7, <1>8, <1>9 DEF RunStep

LEMMA PoolHands ==
  TypeOK /\ HandsOK /\ PoolStep => HandsOK'
<1> SUFFICES ASSUME TypeOK, HandsOK, PoolStep PROVE HandsOK'
  OBVIOUS
<1> USE DEF HandsOK, OnceOK, RunHandOK, OpHandOK, UsersOK, MintedOK, RunHolds, OpHolds, Exists,
            TypeOK, KubeTypeOK, PoolTypeOK, HandlerTypeOK, Namespace,
            kubeVars, chanVars, runVars, opVars
<1>1. CASE RunStep
  BY <1>1, RunHands DEF PoolStep
<1>2. CASE InitSend \/ OldList \/ OldListFails
  BY <1>2 DEF PoolStep, InitSend, OldList, OldListFails
<1>3. CASE OldDestroy
  BY <1>3 DEF PoolStep, OldDestroy, Destroyed, Remaining, Absent
<1>4. CASE CloseCancel \/ CloseNilPool \/ CloseList \/ CloseListFails \/ CloseChannels
  BY <1>4 DEF PoolStep, CloseCancel, CloseNilPool, CloseList, CloseListFails, CloseChannels
<1>5. CASE CloseDestroy
  BY <1>5 DEF PoolStep, CloseDestroy, Destroyed, Remaining, Absent
<1>6. CASE PodsDie
  BY <1>6 DEF PoolStep, PodsDie
<1>7. CASE SecondPasses
  BY <1>7 DEF PoolStep, SecondPasses
<1> QED
  BY <1>1, <1>2, <1>3, <1>4, <1>5, <1>6, <1>7 DEF PoolStep, OldStep, CloseStep

LEMMA RequestHands == TypeOK /\ HandsOK /\ RequestStep => HandsOK'
<1> SUFFICES ASSUME TypeOK, HandsOK, RequestStep PROVE HandsOK'
  OBVIOUS
<1> USE DEF HandsOK, OnceOK, RunHandOK, OpHandOK, UsersOK, MintedOK, RunHolds, OpHolds, Exists,
            TypeOK, KubeTypeOK, PoolTypeOK, HandlerTypeOK, Request,
            poolVars, kubeVars, chanVars, runVars
<1>1. CASE RequestCreate
  BY <1>1 DEF RequestCreate, Continue
<1>2. CASE RequestClean
  BY <1>2 DEF RequestClean
<1>3. CASE RequestOnEnclave
  BY <1>3 DEF RequestOnEnclave
<1> QED
  BY <1>1, <1>2, <1>3 DEF RequestStep

LEMMA HandlerHands == TypeOK /\ HandsOK /\ HandlerStep => HandsOK'
<1> SUFFICES ASSUME TypeOK, HandsOK, HandlerStep PROVE HandsOK'
  OBVIOUS
<1> USE DEF HandsOK, OnceOK, RunHandOK, OpHandOK, UsersOK, MintedOK, RunHolds, OpHolds, Exists,
            TypeOK, KubeTypeOK, PoolTypeOK, HandlerTypeOK, Namespace, Continue, Release,
            poolVars, kubeVars, chanVars, runVars
<1>1. CASE GetReceive
  <2>1. CASE idle # <<>>
    <3>1. /\ idle \in Seq(Uuid) /\ Head(idle) \in Uuid
          /\ opEnc' = Head(idle) /\ idle' = Tail(idle) /\ op' = "signal"
          /\ UNCHANGED <<ns, minted, runPc, runEnc, identifiers>>
      BY <1>1, <2>1 DEF GetReceive
    <3>2. /\ Range(idle) = Range(idle') \cup {opEnc'}
          /\ IsInjective(idle') /\ opEnc' \notin Range(idle')
      BY <2>1, <3>1, TailOnce
    <3> QED
      BY <3>1, <3>2
  <2>2. CASE idle = <<>>
    BY <1>1, <2>2 DEF GetReceive
  <2> QED
    BY <2>1, <2>2
<1>2. CASE GetRename
  <2>1. /\ Range(identifiers') = Range(identifiers) \cup {opEnc}
        /\ IsInjective(identifiers')
    BY <1>2, AppendOnce DEF GetRename
  <2> QED
    BY <1>2, <2>1 DEF GetRename
<1>3. CASE DirectLaunch
  <2>1. /\ Range(identifiers') = Range(identifiers) \cup {opEnc}
        /\ IsInjective(identifiers')
    BY <1>3, AppendOnce DEF DirectLaunch
  <2> QED
    BY <1>3, <2>1 DEF DirectLaunch, PodsUp
<1>4. CASE GetIdleCheck \/ GetSignal \/ GetVerify \/ GetRenameFails \/ DirectLaunchFails
  BY <1>4 DEF GetIdleCheck, GetSignal, GetVerify, GetRenameFails, DirectLaunchFails
<1>5. CASE GetGiveBack
  BY <1>5 DEF GetGiveBack, Destroyed, Remaining, Absent
<1>6. CASE DirectCreate
  BY <1>6 DEF DirectCreate, NewNamespace
<1>7. CASE DirectCreateFails
  BY <1>7 DEF DirectCreateFails, NewNamespace
<1>8. CASE DirectUndo
  BY <1>8 DEF DirectUndo, Destroyed, Remaining, Absent
<1>9. CASE CleanList \/ CleanListFails
  BY <1>9 DEF CleanList, CleanListFails
<1>10. CASE CleanDestroy
  BY <1>10 DEF CleanDestroy, Destroyed, Remaining, Absent
<1>11. CASE StopEnclave
  BY <1>11 DEF StopEnclave
<1>12. CASE DestroyEnclave
  BY <1>12 DEF DestroyEnclave, Destroyed, Remaining, Absent
<1> QED
  BY <1>1, <1>2, <1>3, <1>4, <1>5, <1>6, <1>7, <1>8, <1>9, <1>10, <1>11, <1>12 DEF HandlerStep

LEMMA NextHands == TypeOK /\ HandsOK /\ [Next]_vars => HandsOK'
<1> SUFFICES ASSUME TypeOK, HandsOK, [Next]_vars PROVE HandsOK'
  OBVIOUS
<1> USE DEF HandsOK, OnceOK, RunHandOK, OpHandOK, UsersOK, MintedOK, RunHolds, OpHolds, Exists
<1>1. CASE UNCHANGED vars
  BY <1>1 DEF vars, poolVars, kubeVars, chanVars, runVars, opVars
<1>2. CASE Exit \/ Crash
  BY <1>2 DEF Exit, Crash, StopProcess, kubeVars, chanVars, runVars, opVars
<1>3. CASE Restart
  BY <1>3, EmptySequence DEF Restart, Release, TypeOK, KubeTypeOK, Namespace
<1> QED
  BY <1>1, <1>2, <1>3, PoolHands, RequestHands, HandlerHands DEF Next, Quiet

LEMMA InitHands == Init => HandsOK
BY EmptySequence DEF Init, Absent, HandsOK, OnceOK, RunHandOK, OpHandOK, UsersOK, MintedOK,
                     RunHolds, OpHolds, Exists

(* An enclave is never in two hands, and no UUID is returned twice: what   *)
(* GetEnclave receives is its own, whatever the subroutine, Close, a crash *)
(* or a restart do meanwhile, and the channel it saw buffered is not empty. *)
THEOREM NeverInTwoHands == Spec => []HandedOutOnce
<1>1. Init => HandsOK
  BY InitHands
<1>2. HandsOK /\ TypeOK => HandedOutOnce
  <2> SUFFICES ASSUME HandsOK, TypeOK PROVE HandedOutOnce
    OBVIOUS
  <2> QED
    BY DEF HandsOK, OnceOK, RunHandOK, OpHandOK, HandedOutOnce
<1> QED
  BY <1>1, <1>2, NextHands, TypeCorrect, PTL DEF Spec

-----------------------------------------------------------------------------
(* What this process holds it made itself; what the remover found is idle  *)
(* and read as older than the process, unless it was handed out since.     *)
ThisRunOK ==
  /\ thisRun \subseteq minted
  /\ Range(idle) \subseteq thisRun
  /\ runEnc \in thisRun \cup {NoUuid}
  /\ op \in {"signal", "verify", "rename", "giveBack"} => opEnc \in thisRun

FoundOK ==
  \A u \in oldFound : /\ u \in minted
                      /\ ns[u].kind = "idle" => ns[u].old
                      /\ ns[u].kind = "user" => u \in thisRun

OwnersOK == TypeOK /\ HandsOK /\ ThisRunOK /\ FoundOK

LEMMA NextThisRun == OwnersOK /\ [Next]_vars => ThisRunOK'
<1> SUFFICES ASSUME OwnersOK, [Next]_vars PROVE ThisRunOK'
  OBVIOUS
<1> USE DEF OwnersOK, ThisRunOK, HandsOK, OpHandOK, RunHandOK, RunHolds, OpHolds
<1>1. CASE RunSend /\ UNCHANGED <<opVars, restarts>>
  <2>1. idle \in Seq(Uuid) /\ runEnc \in Uuid /\ idle' = Append(idle, runEnc)
    BY <1>1 DEF RunSend, TypeOK, PoolTypeOK
  <2>2. Range(idle') = Range(idle) \cup {runEnc}
    BY <2>1, AppendOnce
  <2> QED
    BY <1>1, <2>1, <2>2 DEF RunSend, kubeVars, opVars, TypeOK, PoolTypeOK
<1>2. CASE GetReceive
  <2>1. CASE idle # <<>>
    <3>1. /\ idle \in Seq(Uuid)
          /\ opEnc' = Head(idle) /\ idle' = Tail(idle) /\ op' = "signal"
          /\ UNCHANGED <<minted, thisRun, runEnc>>
      BY <1>2, <2>1 DEF GetReceive, kubeVars, runVars, TypeOK, PoolTypeOK
    <3>2. Range(idle) = Range(idle') \cup {opEnc'}
      BY <2>1, <3>1, TailOnce
    <3> QED
      BY <3>1, <3>2
  <2>2. CASE idle = <<>>
    BY <1>2, <2>2 DEF GetReceive, kubeVars, runVars
  <2> QED
    BY <2>1, <2>2
<1>3. CASE RunStep /\ ~RunSend /\ UNCHANGED <<opVars, restarts>>
  BY <1>3 DEF RunStep, RunTakeSignal, RunStop, RunCreate, RunCreateFails, RunLaunch, RunLaunchFails,
              RunUndo, RunSendPanics, NewNamespace, Destroyed, kubeVars, chanVars, runVars, opVars
<1>4. CASE PoolStep /\ ~RunStep
  <2>1. UNCHANGED <<minted, thisRun, idle, runEnc, op, opEnc>>
    BY <1>4 DEF PoolStep, InitSend, OldStep, OldList, OldListFails, OldDestroy, CloseStep, CloseList,
                CloseListFails, CloseDestroy, CloseChannels, CloseCancel, CloseNilPool, PodsDie,
                SecondPasses, Destroyed, kubeVars, chanVars, runVars, opVars
  <2> QED
    BY <2>1
<1>5. CASE RequestStep
  BY <1>5 DEF RequestStep, RequestCreate, RequestClean, RequestOnEnclave, Request, Continue,
              poolVars, kubeVars, chanVars, runVars
<1>6. CASE HandlerStep /\ ~GetReceive
  BY <1>6 DEF HandlerStep, GetIdleCheck, GetSignal, GetVerify, GetRename, GetRenameFails, GetGiveBack,
              DirectCreate, DirectCreateFails, DirectLaunch, DirectLaunchFails, DirectUndo,
              CleanList, CleanListFails, CleanDestroy, StopEnclave, DestroyEnclave,
              NewNamespace, Destroyed, Continue, Release, poolVars, kubeVars, chanVars, runVars
<1>7. CASE Exit \/ Crash \/ UNCHANGED vars
  BY <1>7 DEF Exit, Crash, StopProcess, vars, poolVars, kubeVars, chanVars, runVars, opVars
<1>8. CASE Restart
  BY <1>8, EmptySequence DEF Restart, Release
<1> QED
  BY <1>1, <1>2, <1>3, <1>4, <1>5, <1>6, <1>7, <1>8 DEF Next, Quiet, PoolStep

LEMMA NextFound == OwnersOK /\ [Next]_vars => FoundOK'
<1> SUFFICES ASSUME OwnersOK, [Next]_vars PROVE FoundOK'
  OBVIOUS
<1> USE DEF OwnersOK, ThisRunOK, FoundOK, HandsOK, MintedOK, Exists, TypeOK, KubeTypeOK, PoolTypeOK,
            HandlerTypeOK, Namespace, NewNamespace, Destroyed, Remaining, Absent, PodsUp,
            kubeVars, oldVars
<1>1. CASE RunStep /\ UNCHANGED <<opVars, restarts>>
  BY <1>1 DEF RunStep, RunTakeSignal, RunStop, RunCreate, RunCreateFails, RunLaunch, RunLaunchFails,
              RunUndo, RunSend, RunSendPanics
<1>2. CASE OldStep
  BY <1>2 DEF OldStep, OldList, OldListFails, OldDestroy, OldRetry, OldIdleOnes, IdleOnes
<1>3. CASE PoolStep /\ ~RunStep /\ ~OldStep
  BY <1>3, SMTT(60) DEF PoolStep, InitSend, CloseStep, CloseList, CloseListFails, CloseDestroy,
              CloseChannels, CloseCancel, CloseNilPool, PodsDie, SecondPasses
<1>4. CASE RequestStep
  BY <1>4 DEF RequestStep, RequestCreate, RequestClean, RequestOnEnclave, Request, poolVars
<1>5. CASE GetRename
  BY <1>5 DEF GetRename
<1>6. CASE GetGiveBack \/ DirectUndo \/ CleanDestroy \/ DestroyEnclave
  BY <1>6 DEF GetGiveBack, DirectUndo, CleanDestroy, DestroyEnclave
<1>7. CASE DirectCreate \/ DirectCreateFails
  BY <1>7 DEF DirectCreate, DirectCreateFails
<1>8. CASE DirectLaunch \/ StopEnclave
  <2>1. \A u \in Uuid : ns'[u].kind = ns[u].kind /\ ns'[u].old = ns[u].old
    <3>1. CASE DirectLaunch
      BY <3>1 DEF DirectLaunch
    <3>2. CASE StopEnclave
      BY <3>2 DEF StopEnclave
    <3> QED
      BY <1>8, <3>1, <3>2
  <2>2. UNCHANGED <<minted, thisRun, oldFound>>
    BY <1>8 DEF DirectLaunch, StopEnclave
  <2> QED
    BY <2>1, <2>2
<1>9. CASE UNCHANGED <<ns, minted, thisRun, oldFound>>
  BY <1>9
<1>10. CASE HandlerStep \/ Exit \/ Crash \/ UNCHANGED vars
  BY <1>5, <1>6, <1>7, <1>8, <1>9, <1>10
     DEF HandlerStep, GetIdleCheck, GetReceive, GetSignal, GetVerify, GetRenameFails, DirectLaunchFails,
         CleanList, CleanListFails, Exit, Crash, StopProcess, vars, poolVars
<1>11. CASE Restart
  BY <1>11 DEF Restart
<1> QED
  BY <1>1, <1>2, <1>3, <1>4, <1>10, <1>11 DEF Next, Quiet, PoolStep

LEMMA OwnersInvariant == Spec => []OwnersOK
<1>1. Init => ThisRunOK /\ FoundOK
  BY EmptySequence DEF Init, ThisRunOK, FoundOK
<1>2. Init => HandsOK
  BY InitHands
<1> QED
  BY <1>1, <1>2, InitTypeOK, NextTyped, NextHands, NextThisRun, NextFound, PTL DEF Spec, OwnersOK

(* A removal takes away only what it was asked to.                         *)
LEMMA DestroysOnlyThose ==
  ASSUME NEW us, Destroyed(us), NEW u \in Uuid, Disappears(u)
  PROVE  u \in us
BY DEF Destroyed, Remaining, Disappears, Exists

(* No enclave disappears under its owner, for any schedule and failures:   *)
(* one that a user got, or that this process made, is destroyed only by    *)
(* whoever is to; the remover of previous runs meets, of this process's,   *)
(* only those of its first second.                                         *)
THEOREM NoneDisappears == Spec => EnclavesSurvive
<1>1. ASSUME OwnersOK, [Next]_vars, NEW u \in Uuid, Disappears(u), HasOwner(u)
      PROVE  ByRight(u) \/ UNCHANGED vars
  <2>1. CASE RunUndo
    BY <1>1, <2>1, DestroysOnlyThose DEF RunUndo, ByRight
  <2>2. CASE OldDestroy
    <3>1. u \in oldFound
      BY <1>1, <2>2, DestroysOnlyThose DEF OldDestroy
    <3>2. MadeInFirstSecond(u)
      BY <1>1, <3>1 DEF OwnersOK, FoundOK, HasOwner, MadeInFirstSecond
    <3>3. oldPc = "destroy" /\ oldPc' # oldPc
      BY <2>2 DEF OldDestroy, OldRetry
    <3> QED
      BY <3>2, <3>3 DEF ByRight
  <2>3. CASE CloseDestroy
    BY <2>3 DEF CloseDestroy, ByRight
  <2>4. CASE GetGiveBack
    BY <1>1, <2>4, DestroysOnlyThose DEF GetGiveBack, ByRight
  <2>5. CASE DirectUndo
    BY <1>1, <2>5, DestroysOnlyThose DEF DirectUndo, Release, ByRight
  <2>6. CASE CleanDestroy \/ DestroyEnclave
    BY <2>6 DEF CleanDestroy, DestroyEnclave, Release, ByRight
  <2>7. CASE UNCHANGED ns
    BY <1>1, <2>7 DEF Disappears, Exists
  <2>8. ASSUME NEW v \in Uuid, NEW kind \in {"idle", "user"}, NewNamespace(v, kind) PROVE FALSE
    BY <1>1, <2>8 DEF NewNamespace, Disappears, Exists, OwnersOK, TypeOK, KubeTypeOK
  <2>9. CASE RunLaunch \/ DirectLaunch \/ GetRename \/ PodsDie \/ StopEnclave
    BY <1>1, <2>9 DEF RunLaunch, DirectLaunch, PodsUp, GetRename, PodsDie, StopEnclave,
                      Disappears, Exists, OwnersOK, TypeOK, KubeTypeOK, Namespace
  <2>10. CASE Restart
    BY <1>1, <2>10 DEF Restart, Disappears, Exists, OwnersOK, TypeOK, KubeTypeOK, Namespace
  <2>11. CASE RunStep \/ OldStep \/ CloseStep \/ InitSend \/ CloseCancel \/ CloseNilPool \/ SecondPasses
    BY <2>1, <2>2, <2>3, <2>7, <2>8, <2>9, <2>11
       DEF RunStep, RunTakeSignal, RunStop, RunCreate, RunCreateFails, RunLaunchFails, RunSend,
           RunSendPanics, OldStep, OldList, OldListFails, CloseStep, CloseList, CloseListFails,
           CloseChannels, InitSend, CloseCancel, CloseNilPool, SecondPasses, kubeVars
  <2>12. CASE HandlerStep
    BY <2>4, <2>5, <2>6, <2>7, <2>8, <2>9, <2>12
       DEF HandlerStep, GetIdleCheck, GetReceive, GetSignal, GetVerify, GetRenameFails, DirectCreate,
           DirectCreateFails, DirectLaunchFails, CleanList, CleanListFails, poolVars, kubeVars
  <2>13. CASE RequestStep \/ Exit \/ Crash
    BY <2>7, <2>13 DEF RequestStep, RequestCreate, RequestClean, RequestOnEnclave, Request,
                       Exit, Crash, StopProcess, poolVars, kubeVars
  <2> QED
    BY <1>1, <2>9, <2>10, <2>11, <2>12, <2>13 DEF Next, PoolStep, Quiet
<1>2. OwnersOK /\ [Next]_vars
        => [\A u \in Uuid : Disappears(u) /\ HasOwner(u) => ByRight(u)]_vars
  BY <1>1
<1> QED
  BY <1>2, OwnersInvariant, PTL DEF Spec, EnclavesSurvive

-----------------------------------------------------------------------------
(* What a backend keeps to whose calls take effect exactly when they are   *)
(* reported to: no creation that was carried out is reported as failed, no *)
(* removal fails, and, for Close and the remover, no query does.           *)
NoneLost      == Failures \cap {"lost", "destroy"} = {}
AllAreFound   == Failures \cap {"query", "destroy"} = {}

(* An idle enclave of this process is in one of the hands, until Close.    *)
OwnedOK ==
  /\ op \in {"launch", "undo", "stop", "destroy"} => ns[opEnc].kind # "idle"
  /\ closePc = "no" =>
       \A u \in thisRun : ns[u].kind = "idle" => u \in Range(idle) \cup {runEnc, opEnc}

(* What Close has still to destroy it has found.                           *)
ClosingOK ==
  /\ closePc = "destroy" => IdleOnes \subseteq closeFound
  /\ closePc \in {"closeFill", "closeIdle", "returned"} => IdleOnes = {}

(* So has the remover, for the enclaves of earlier processes.              *)
RemovingOK ==
  /\ \A u \in IdleOnes : u \in thisRun \/ ns[u].old
  /\ oldPc = "destroy" => IdleOnes \subseteq thisRun \cup oldFound
  /\ oldPc = "done" => IdleOnes \subseteq thisRun

LEMMA NextOwned == NoneLost /\ OwnersOK /\ OwnedOK /\ [Next]_vars => OwnedOK'
<1> SUFFICES ASSUME NoneLost, OwnersOK, OwnedOK, [Next]_vars PROVE OwnedOK'
  OBVIOUS
<1> USE DEF NoneLost, OwnersOK, OwnedOK, ThisRunOK, HandsOK, OpHandOK, RunHandOK, MintedOK, RunHolds, OpHolds,
            Exists, TypeOK, KubeTypeOK, PoolTypeOK, HandlerTypeOK, Namespace,
            Destroyed, Remaining, Absent, PodsUp, NewNamespace
<1>1. CASE RunSend /\ UNCHANGED <<opVars, restarts>>
  <2>1. idle \in Seq(Uuid) /\ runEnc \in Uuid /\ idle' = Append(idle, runEnc)
    BY <1>1 DEF RunSend
  <2>2. Range(idle') = Range(idle) \cup {runEnc}
    BY <2>1, AppendOnce
  <2> QED
    BY <1>1, <2>2 DEF RunSend, kubeVars, opVars, closeVars
<1>2. CASE GetReceive
  <2>1. UNCHANGED <<ns, thisRun, runEnc, closePc>> /\ opEnc = NoUuid
    BY <1>2 DEF GetReceive, kubeVars, runVars, closeVars
  <2>2. CASE idle # <<>>
    <3>1. idle \in Seq(Uuid) /\ opEnc' = Head(idle) /\ idle' = Tail(idle) /\ op' = "signal"
      BY <1>2, <2>2 DEF GetReceive
    <3>2. Range(idle) = Range(idle') \cup {opEnc'}
      BY <2>2, <3>1, TailOnce
    <3>3. opEnc \notin thisRun
      BY <2>1
    <3> QED
      BY <2>1, <3>1, <3>2, <3>3
  <2>3. CASE idle = <<>>
    BY <1>2, <2>1, <2>3 DEF GetReceive
  <2> QED
    BY <2>2, <2>3
<1>3. CASE GetSignal
  <2>1. UNCHANGED <<ns, thisRun, idle, runEnc, closePc>>
    BY <1>3 DEF GetSignal, kubeVars, runVars, closeVars
  <2>2. op' \in {"verify", "free"} /\ (closePc = "no" => opEnc' = opEnc)
    BY <1>3 DEF GetSignal, Continue, Release, fillClosed
  <2> QED
    BY <2>1, <2>2
<1>4. CASE RunStep /\ ~RunSend /\ UNCHANGED <<opVars, restarts>>
  <2>1. CASE RunTakeSignal \/ RunStop \/ RunLaunchFails \/ RunSendPanics
    BY <1>4, <2>1 DEF RunTakeSignal, RunStop, RunLaunchFails, RunSendPanics,
                      kubeVars, chanVars, runVars, closeVars, opVars
  <2>2. CASE RunCreate
    BY <1>4, <2>2 DEF RunCreate, chanVars, closeVars, opVars
  <2>3. CASE RunCreateFails
    BY <1>4, <2>3 DEF RunCreateFails, kubeVars, chanVars, closeVars, opVars
  <2>4. CASE RunLaunch
    BY <1>4, <2>4 DEF RunLaunch, chanVars, closeVars, opVars
  <2>5. CASE RunUndo
    BY <1>4, <2>5 DEF RunUndo, chanVars, closeVars, opVars
  <2> QED
    BY <1>4, <2>1, <2>2, <2>3, <2>4, <2>5 DEF RunStep
<1>5. CASE PoolStep /\ ~RunStep
  <2>1. CASE UNCHANGED ns
    BY <1>5, <2>1 DEF PoolStep, InitSend, OldStep, OldList, OldListFails, OldDestroy, CloseStep, CloseList,
                      CloseListFails, CloseDestroy, CloseChannels, CloseCancel, CloseNilPool, PodsDie,
                      SecondPasses, kubeVars, chanVars, runVars, closeVars, opVars
  <2>2. CASE OldDestroy
    BY <1>5, <2>2 DEF PoolStep, OldDestroy, chanVars, runVars, closeVars, opVars
  <2>3. CASE CloseDestroy
    BY <1>5, <2>3 DEF PoolStep, CloseDestroy, chanVars, runVars, opVars
  <2>4. CASE PodsDie
    BY <1>5, <2>4 DEF PoolStep, PodsDie, chanVars, runVars, closeVars, opVars
  <2> QED
    BY <1>5, <2>1, <2>2, <2>3, <2>4
       DEF PoolStep, InitSend, OldStep, OldList, OldListFails, CloseStep, CloseList,
           CloseListFails, CloseChannels, CloseCancel, CloseNilPool, SecondPasses, kubeVars
<1>6. CASE RequestStep
  BY <1>6 DEF RequestStep, RequestCreate, RequestClean, RequestOnEnclave, Request, Continue,
              poolVars, kubeVars, chanVars, runVars, closeVars
<1>7. CASE GetGiveBack
  BY <1>7 DEF GetGiveBack, chanVars, runVars, closeVars
<1>8. CASE GetRename
  BY <1>8 DEF GetRename, Release, chanVars, runVars, closeVars
<1>9. CASE DirectCreate
  BY <1>9 DEF DirectCreate, chanVars, runVars, closeVars
<1>10. CASE DirectLaunch
  BY <1>10 DEF DirectLaunch, Release, chanVars, runVars, closeVars
<1>11. CASE StopEnclave
  BY <1>11 DEF StopEnclave, Release, chanVars, runVars, closeVars
<1>12. CASE GetIdleCheck \/ GetVerify \/ GetRenameFails \/ DirectCreateFails \/ DirectLaunchFails
            \/ CleanList \/ CleanListFails
  BY <1>12 DEF GetIdleCheck, GetVerify, GetRenameFails, DirectCreateFails, DirectLaunchFails, CleanList,
               CleanListFails, Continue, Release, poolVars, kubeVars, chanVars, runVars, closeVars
<1>13. CASE DirectUndo \/ CleanDestroy \/ DestroyEnclave
  BY <1>13 DEF DirectUndo, CleanDestroy, DestroyEnclave, Release, chanVars, runVars, closeVars
<1>14. CASE Exit \/ Crash \/ UNCHANGED vars
  BY <1>14 DEF Exit, Crash, StopProcess, vars, poolVars, kubeVars, chanVars, runVars, closeVars, opVars
<1>15. CASE Restart
  BY <1>15 DEF Restart, Release
<1> QED
  BY <1>1, <1>2, <1>3, <1>4, <1>5, <1>6, <1>7, <1>8, <1>9, <1>10, <1>11, <1>12, <1>13, <1>14, <1>15
     DEF Next, Quiet, HandlerStep, PoolStep

(* While the engine runs, an idle enclave of this process is buffered, or   *)
(* with the subroutine or the handler that will hand it out or destroy it, *)
(* of any backend that loses no creation and fails no removal.             *)
THEOREM IdleOnesHaveOwners == ASSUME NoneLost PROVE Spec => []IdleEnclavesOwned
<1>1. Init => OwnedOK
  BY DEF Init, OwnedOK
<1>2. OwnersOK /\ OwnedOK /\ [Next]_vars => OwnedOK'
  BY NextOwned
<1>3. OwnedOK => IdleEnclavesOwned
  BY DEF OwnedOK, IdleEnclavesOwned
<1> QED
  BY <1>1, <1>2, <1>3, OwnersInvariant, PTL DEF Spec

-----------------------------------------------------------------------------
(* Who can add an idle enclave: only the subroutine, which under a         *)
(* cancelled context no longer does, or whose call is lost.                *)
LEMMA NoNewIdleOnes ==
  ASSUME OwnersOK, Next, ~RunCreate, ~Restart,
         NoneLost \/ ~RunCreateFails
  PROVE  /\ IdleOnes' \subseteq IdleOnes
         /\ \A u \in IdleOnes' : ns'[u].old = ns[u].old
<1> USE DEF IdleOnes, OwnersOK, TypeOK, KubeTypeOK, Namespace
<1>1. CASE UNCHANGED ns
  BY <1>1
<1>2. ASSUME NEW us, Destroyed(us)
      PROVE  \A u \in Uuid : ns'[u].kind = "idle" => ns'[u] = ns[u]
  BY <1>2 DEF Destroyed, Remaining, Absent
<1>3. CASE RunUndo \/ OldDestroy \/ CloseDestroy
  BY <1>2, <1>3 DEF RunUndo, OldDestroy, CloseDestroy
<1>4. CASE GetGiveBack \/ DirectUndo \/ CleanDestroy \/ DestroyEnclave
  BY <1>2, <1>4 DEF GetGiveBack, DirectUndo, CleanDestroy, DestroyEnclave
<1>5. ASSUME NEW v \in Uuid, NewNamespace(v, "user")
      PROVE  \A u \in Uuid : ns'[u].kind = "idle" => ns'[u] = ns[u]
  BY <1>5 DEF NewNamespace
<1>6. CASE DirectCreate \/ DirectCreateFails
  BY <1>1, <1>5, <1>6 DEF DirectCreate, DirectCreateFails, kubeVars
<1>7. CASE RunLaunch
  BY <1>7 DEF RunLaunch, PodsUp
<1>8. CASE DirectLaunch
  BY <1>8 DEF DirectLaunch, PodsUp
<1>9. CASE GetRename
  BY <1>9 DEF GetRename
<1>10. CASE StopEnclave
  BY <1>10 DEF StopEnclave
<1>11. CASE PodsDie
  BY <1>11 DEF PodsDie
<1>12. CASE PoolStep
  BY <1>1, <1>3, <1>7, <1>11, <1>12
     DEF PoolStep, RunStep, RunTakeSignal, RunStop, RunCreateFails, RunLaunchFails, RunSend, RunSendPanics,
         InitSend, OldStep, OldList, OldListFails, CloseStep, CloseList, CloseListFails, CloseChannels,
         CloseCancel, CloseNilPool, SecondPasses, kubeVars, NoneLost
<1>13. CASE HandlerStep
  BY <1>1, <1>4, <1>6, <1>8, <1>9, <1>10, <1>13
     DEF HandlerStep, GetIdleCheck, GetReceive, GetSignal, GetVerify, GetRenameFails, DirectLaunchFails,
         CleanList, CleanListFails, poolVars, kubeVars
<1>14. CASE RequestStep \/ Exit \/ Crash \/ Quiet
  BY <1>1, <1>14 DEF RequestStep, RequestCreate, RequestClean, RequestOnEnclave, Request,
                     Exit, Crash, StopProcess, Quiet, vars, poolVars, kubeVars
<1> QED
  BY <1>12, <1>13, <1>14 DEF Next

(* Only Close's own steps, and a restart, move it.                         *)
LEMMA OnlyCloseCloses ==
  ASSUME Next, ~CloseStep, ~CloseCancel, ~Restart
  PROVE  UNCHANGED <<closePc, closeFound>>
BY DEF Next, PoolStep, RunStep, RunTakeSignal, RunStop, RunCreate, RunCreateFails, RunLaunch,
       RunLaunchFails, RunUndo, RunSend, RunSendPanics, InitSend, OldStep, OldList, OldListFails,
       OldDestroy, CloseNilPool, PodsDie, SecondPasses, RequestStep, RequestCreate, RequestClean,
       RequestOnEnclave, Request, HandlerStep, GetIdleCheck, GetReceive, GetSignal, GetVerify, GetRename,
       GetRenameFails, GetGiveBack, DirectCreate, DirectCreateFails, DirectLaunch, DirectLaunchFails,
       DirectUndo, CleanList, CleanListFails, CleanDestroy, StopEnclave, DestroyEnclave,
       Exit, Crash, StopProcess, Quiet, vars, poolVars, closeVars

LEMMA NextClosing == NoneLost /\ AllAreFound /\ OwnersOK /\ ClosingOK /\ [Next]_vars => ClosingOK'
<1> SUFFICES ASSUME NoneLost, AllAreFound, OwnersOK, ClosingOK, [Next]_vars PROVE ClosingOK'
  OBVIOUS
<1> USE DEF ClosingOK
<1>1. CASE UNCHANGED vars
  BY <1>1 DEF vars, poolVars, kubeVars, closeVars, IdleOnes
<1>2. CASE Restart
  BY <1>2 DEF Restart
<1>3. CASE RunCreate
  BY <1>3 DEF RunCreate, ctxDone, closeVars
<1>4. CASE CloseList
  BY <1>4 DEF CloseList, kubeVars, IdleOnes
<1>5. CASE CloseListFails
  BY <1>5 DEF CloseListFails, AllAreFound
<1>6. CASE CloseDestroy
  <2>1. IdleOnes' = {}
    BY <1>6 DEF CloseDestroy, Destroyed, Remaining, Absent, IdleOnes, NoneLost
  <2> QED
    BY <1>6, <2>1 DEF CloseDestroy
<1>7. CASE CloseChannels
  BY <1>7 DEF CloseChannels, kubeVars, IdleOnes
<1>8. CASE CloseCancel
  BY <1>8 DEF CloseCancel
<1>9. CASE Next /\ ~CloseStep /\ ~CloseCancel /\ ~Restart /\ ~RunCreate
  BY <1>9, NoNewIdleOnes, OnlyCloseCloses
<1> QED
  BY <1>1, <1>2, <1>3, <1>4, <1>5, <1>6, <1>7, <1>8, <1>9 DEF CloseStep

(* Once Close has returned no idle enclave is left, although it takes no   *)
(* lock and cancels a subroutine whose creation may be in flight: what is  *)
(* created before the cancellation is found, and nothing is after it.      *)
THEOREM CloseLeavesNoIdleOne == ASSUME NoneLost, AllAreFound PROVE Spec => []CloseRemovesIdle
<1>1. Init => ClosingOK
  BY DEF Init, ClosingOK
<1>2. OwnersOK /\ ClosingOK /\ [Next]_vars => ClosingOK'
  BY NextClosing
<1>3. ClosingOK => CloseRemovesIdle
  BY DEF ClosingOK, CloseRemovesIdle
<1> QED
  BY <1>1, <1>2, <1>3, OwnersInvariant, PTL DEF Spec

(* Only the remover's own steps, and a restart, move it; a process's own   *)
(* enclaves stay its own until the next one.                               *)
LEMMA OnlyRemoverRemoves ==
  ASSUME OwnersOK, Next, ~OldStep, ~Restart
  PROVE  UNCHANGED <<oldPc, oldFound>> /\ thisRun \subseteq thisRun'
BY DEF Next, PoolStep, RunStep, RunTakeSignal, RunStop, RunCreate, RunCreateFails, RunLaunch,
       RunLaunchFails, RunUndo, RunSend, RunSendPanics, InitSend, CloseStep, CloseList, CloseListFails,
       CloseDestroy, CloseChannels, CloseCancel, CloseNilPool, PodsDie, SecondPasses,
       RequestStep, RequestCreate, RequestClean,
       RequestOnEnclave, Request, HandlerStep, GetIdleCheck, GetReceive, GetSignal, GetVerify, GetRename,
       GetRenameFails, GetGiveBack, DirectCreate, DirectCreateFails, DirectLaunch, DirectLaunchFails,
       DirectUndo, CleanList, CleanListFails, CleanDestroy, StopEnclave, DestroyEnclave, Destroyed,
       NewNamespace, Exit, Crash, StopProcess, Quiet, vars, poolVars, kubeVars, oldVars

LEMMA NextRemoving == AllAreFound /\ OwnersOK /\ RemovingOK /\ [Next]_vars => RemovingOK'
<1> SUFFICES ASSUME AllAreFound, OwnersOK, RemovingOK, [Next]_vars PROVE RemovingOK'
  OBVIOUS
<1> USE DEF RemovingOK
<1>1. CASE UNCHANGED vars
  BY <1>1 DEF vars, poolVars, kubeVars, oldVars, IdleOnes
<1>2. CASE Restart
  BY <1>2 DEF Restart, IdleOnes, Exists, OwnersOK, TypeOK, KubeTypeOK, Namespace
<1>3. CASE RunCreate \/ RunCreateFails
  <2>1. CASE UNCHANGED kubeVars
    BY <1>3, <2>1 DEF RunCreate, RunCreateFails, kubeVars, oldVars, IdleOnes
  <2>2. CASE \E u \in Uuid \ minted : NewNamespace(u, "idle")
    BY <1>3, <2>2 DEF RunCreate, RunCreateFails, NewNamespace, oldVars, IdleOnes,
                      OwnersOK, TypeOK, KubeTypeOK
  <2> QED
    BY <1>3, <2>1, <2>2 DEF RunCreate, RunCreateFails
<1>4. CASE OldList
  BY <1>4 DEF OldList, OldIdleOnes, kubeVars, IdleOnes
<1>5. CASE OldListFails
  BY <1>5 DEF OldListFails, AllAreFound
<1>6. CASE OldDestroy
  BY <1>6 DEF OldDestroy, Destroyed, Remaining, Absent, IdleOnes, AllAreFound
<1>7. CASE Next /\ ~OldStep /\ ~Restart /\ ~RunCreate /\ ~RunCreateFails
  BY <1>7, NoNewIdleOnes, OnlyRemoverRemoves
<1> QED
  BY <1>1, <1>2, <1>3, <1>4, <1>5, <1>6, <1>7 DEF OldStep

(* Once the remover is through, every idle enclave is the present process's *)
(* own, however the earlier ones ended and however often it was restarted. *)
THEOREM NoneOfEarlierRuns == ASSUME AllAreFound PROVE Spec => []PreviousRunsRemoved
<1>1. Init => RemovingOK
  BY DEF Init, RemovingOK, IdleOnes, Absent
<1>2. OwnersOK /\ RemovingOK /\ [Next]_vars => RemovingOK'
  BY NextRemoving
<1>3. RemovingOK => PreviousRunsRemoved
  BY DEF RemovingOK, PreviousRunsRemoved
<1> QED
  BY <1>1, <1>2, <1>3, OwnersInvariant, PTL DEF Spec
=============================================================================
