---------------------- MODULE KubernetesServicesProofs ----------------------
(***************************************************************************)
(* Services on Kubernetes, for any names and configs and any failures of   *)
(* Kubernetes' calls, lost pods and crashes: what the cluster runs is what *)
(* Kurtosis shows or has warned of, a persistent directory survives, and   *)
(* an instruction is one step of the abstract enclave.                     *)
(***************************************************************************)
EXTENDS KubernetesServices, TLAPS

USE KubernetesAssumption DEF Uuid, None

(* What holds of one name, whatever goes on: r is its registration, v its  *)
(* Kubernetes Service, s its stateful set, c its claim, f what becomes of  *)
(* its files, and w says whether the log has warned of the set.            *)
Good(r, v, s, c, f, w) ==
  /\ r \in Registration \cup {None}
  /\ v \in [uuid : Uuid, ports : BOOLEAN] \cup {None}
  /\ s \in [uuid : Uuid, config : Configs, pod : {"none", "pending", "ready"},
            leaving : BOOLEAN] \cup {None}
  /\ c \in [phase : {"none", "bound", "leaving"}, data : BOOLEAN]
  /\ f \in {"none", "kept", "given up"}
  /\ s # None => w \/ (r # None /\ r.uuid = s.uuid)
  /\ v # None /\ r # None => r.uuid = v.uuid
  /\ f = "kept" => c.phase = "bound" /\ c.data

(* The phases of an instruction: those of a service's start while its set  *)
(* is not made, and once it is; those in which the service is registered.  *)
Before  == {"list", "claim", "set"}
Running == {"wait", "annotate", "read", "reread", "ports", "mark", "finish"}
Undoing == {"dropSet", "dropClaim", "panicSet", "panicClaim"}
Known   == Before \cup Running \cup Undoing \cup {"unregister", "stop", "stopped"}
Phase   == Known \cup {"register", "save", "destroy", "destroySet"}

(* What holds of the name an instruction is about, in the phase o: k, x    *)
(* and u are its kind, config and UUID, b the service when it began.       *)
Job(o, k, x, u, r, v, s, f, w, b) ==
  /\ o \in Phase /\ k \in {"add", "remove", "stop", "start"}
  /\ x \in Configs \cup {NoConfig}
  /\ b # None => r # None /\ b.uuid = r.uuid
  /\ k # "add" => /\ b = [uuid |-> r.uuid, config |-> r.config, up |-> b.up]
                  /\ b # None /\ b.up \in BOOLEAN /\ x = r.config
  /\ o \in {"register", "save"} => r = None
  /\ o = "save" => v # None /\ v.uuid = u
  /\ o \in Known => r # None
  /\ o \in Known \cup {"destroy", "destroySet"} => (r # None => u = r.uuid)
  /\ o \in {"register", "save", "ports", "finish", "unregister", "destroy", "destroySet"} => k = "add"
  /\ o \in Before \cup Running \cup Undoing => k \in {"add", "start"}
  /\ o \in {"stop", "stopped"} => k # "start" /\ b # None
  /\ o = "unregister" => b = None
  /\ o \in Running \cup {"claim", "set"} => x \in Configs /\ v # None
  /\ o \in Running => s # None /\ s.uuid = u /\ s.config = x /\ ~s.leaving
  /\ o \in Before \cup {"dropClaim"} /\ k = "add" => (s # None => w)
  /\ o \in {"unregister", "stopped"} => (s # None => w)
  /\ o \in Undoing => f = "given up"
  /\ o \in {"mark", "finish"} => r.config = x
  /\ o = "finish" => r.status = "started"

GoodInv == \A n \in Names : Good(reg[n], svc[n], set[n], claim[n], files[n], n \in warned)

JobInv == op # "idle" =>
  /\ \A n \in Names \ {name} : before[n] = Seen[n]
  /\ Job(op, kind, want, uuid, reg[name], svc[name], set[name], files[name], name \in warned, before[name])

(* No UUID is given twice.                                                 *)
UuidInv ==
  /\ minted \in 0 .. MaxUuid
  /\ \A n \in Names : reg[n].uuid \in 0 .. minted
  /\ \A m, n \in Names : Registered(m) /\ Registered(n) /\ reg[m].uuid = reg[n].uuid => m = n
  /\ op = "register" => minted < MaxUuid
  /\ op = "save" => uuid = minted /\ minted # 0 /\ \A n \in Names : reg[n].uuid # minted

Functions ==
  /\ reg = [n \in Names |-> reg[n]] /\ svc = [n \in Names |-> svc[n]] /\ set = [n \in Names |-> set[n]]
  /\ claim = [n \in Names |-> claim[n]] /\ files = [n \in Names |-> files[n]]
  /\ before = [n \in Names |-> before[n]] /\ warned \subseteq Names /\ name \in Names

KubeInv == Functions /\ GoodInv /\ JobInv /\ UuidInv

-----------------------------------------------------------------------------
(* A step works on one name; the others stay as they are.                  *)
Kept(n) ==
  /\ reg'[n] = reg[n] /\ svc'[n] = svc[n] /\ set'[n] = set[n] /\ claim'[n] = claim[n]
  /\ files'[n] = files[n] /\ (n \in warned' <=> n \in warned)

Frame ==
  /\ Functions' /\ UNCHANGED jobVars
  /\ \A n \in Names \ {name} : Kept(n)

LEMMA SeenIs ==
  ASSUME NEW n \in Names
  PROVE  Seen[n] = IF reg[n] = None THEN None
                   ELSE [uuid |-> reg[n].uuid, config |-> reg[n].config,
                         up |-> /\ reg[n].status = "started" /\ set[n] # None
                                /\ set[n].uuid = reg[n].uuid /\ set[n].config = reg[n].config
                                /\ ~set[n].leaving]
BY DEF Seen, Registered

LEMMA SeenKept ==
  ASSUME NEW n \in Names, Kept(n)
  PROVE  Seen'[n] = Seen[n]
<1>1. Seen'[n] = IF reg'[n] = None THEN None
                 ELSE [uuid |-> reg'[n].uuid, config |-> reg'[n].config,
                       up |-> /\ reg'[n].status = "started" /\ set'[n] # None
                              /\ set'[n].uuid = reg'[n].uuid /\ set'[n].config = reg'[n].config
                              /\ ~set'[n].leaving]
  BY DEF Seen, Registered
<1> QED
  BY <1>1, SeenIs DEF Kept

LEMMA OthersKept ==
  ASSUME KubeInv, Frame
  PROVE  /\ \A n \in Names \ {name} : Good(reg'[n], svc'[n], set'[n], claim'[n], files'[n], n \in warned')
         /\ op # "idle" => \A n \in Names \ {name} : before'[n] = Seen'[n]
<1>1. ASSUME NEW n \in Names \ {name}
      PROVE  Good(reg'[n], svc'[n], set'[n], claim'[n], files'[n], n \in warned')
  <2>1. Good(reg[n], svc[n], set[n], claim[n], files[n], n \in warned) /\ Kept(n)
    BY DEF KubeInv, GoodInv, Frame
  <2> QED
    BY <2>1 DEF Kept, Good
<1>2. ASSUME op # "idle", NEW n \in Names \ {name}
      PROVE  before'[n] = Seen'[n]
  BY <1>2, SeenKept DEF KubeInv, JobInv, Frame, jobVars
<1> QED
  BY <1>1, <1>2

(* So it is enough to look at the name.                                    *)
LEMMA OneName ==
  ASSUME KubeInv, Frame, op # "idle",
         Good(reg'[name], svc'[name], set'[name], claim'[name], files'[name], name \in warned'),
         op' # "idle" => Job(op', kind, want, uuid', reg'[name], svc'[name], set'[name], files'[name],
                             name \in warned', before[name]),
         UuidInv'
  PROVE  KubeInv'
<1>1. name' = name /\ kind' = kind /\ want' = want /\ before' = before /\ name \in Names
  BY DEF Frame, jobVars, KubeInv, Functions
<1>2. GoodInv'
  <2> SUFFICES ASSUME NEW n \in Names
               PROVE  Good(reg'[n], svc'[n], set'[n], claim'[n], files'[n], n \in warned')
    BY DEF GoodInv
  <2> QED
    BY <1>1, OthersKept
<1>3. JobInv'
  BY <1>1, OthersKept DEF JobInv
<1> QED
  BY <1>2, <1>3 DEF KubeInv, Frame

-----------------------------------------------------------------------------
(* What a step makes of its name.                                          *)
Here ==
  /\ Good(reg'[name], svc'[name], set'[name], claim'[name], files'[name], name \in warned')
  /\ op' # "idle" => Job(op', kind, want, uuid', reg'[name], svc'[name], set'[name], files'[name],
                         name \in warned', before[name])

At == name \in Names
      /\ Good(reg[name], svc[name], set[name], claim[name], files[name], name \in warned)
      /\ Job(op, kind, want, uuid, reg[name], svc[name], set[name], files[name], name \in warned, before[name])

LEMMA UuidKept ==
  ASSUME KubeInv, minted' = minted, op' \notin {"register", "save"},
         \A n \in Names : reg'[n] = None \/ (reg[n] # None /\ reg'[n].uuid = reg[n].uuid)
  PROVE  UuidInv'
BY DEF KubeInv, UuidInv, Registered

(* Steps that leave the database and the cluster as they are.              *)
Quiet ==
  \/ CreateServiceFails \/ ListRegistered \/ ListRegisteredFails \/ ClaimDirectoryFails
  \/ CreateStatefulSetFails \/ WaitForPod \/ WaitForPodFails \/ AnnotatePortsFails
  \/ ReadService \/ PortsStayClosed \/ Finish \/ DestroyFails
  \/ Crash \/ Panic

LEMMA QuietKeeps == ASSUME KubeInv, Quiet PROVE KubeInv' /\ Frame /\ op # "idle"
<1>1. /\ op # "idle" /\ UNCHANGED <<clusterVars, dbVars, jobVars, uuid>>
      /\ files' = files \/ files' = [files EXCEPT ![name] = "given up"]
      /\ warned' = warned \/ warned' = warned \cup {name}
  BY DEF Quiet, CreateServiceFails, ListRegistered, ListRegisteredFails, ClaimDirectoryFails,
     CreateStatefulSetFails, WaitForPod, WaitForPodFails, AnnotatePortsFails, ReadService,
     Reading,
     PortsStayClosed, Finish, DestroyFails, Crash, Panic, Undo, Dies, history
<1>2. At
  BY <1>1 DEF KubeInv, Functions, GoodInv, JobInv, At
<1>3. Frame
  BY <1>1, <1>2 DEF Frame, KubeInv, Functions, Kept, clusterVars, dbVars, jobVars, At
<1>4. /\ reg'[name] = reg[name] /\ svc'[name] = svc[name] /\ set'[name] = set[name]
      /\ claim'[name] = claim[name] /\ uuid' = uuid
  BY <1>1 DEF clusterVars, dbVars
<1>5. Here
  <2>1. CASE CreateServiceFails \/ Finish \/ Crash \/ Panic
    <3>1. op' = "idle" /\ UNCHANGED history
      BY <2>1 DEF CreateServiceFails, Finish, Crash, Panic, Dies, Ends
    <3> QED
      BY <1>2, <1>4, <3>1 DEF Here, At, history
  <2>2. CASE ListRegistered \/ WaitForPod \/ ReadService \/ PortsStayClosed
    BY <1>2, <1>4, <2>2 DEF Here, At, ListRegistered, HasService, WaitForPod, ReadService,
       Reading,
       PortsStayClosed, GoTo,
       Job, Phase, Known, Undoing, Before, Running, history
  <2>3. CASE ListRegisteredFails \/ ClaimDirectoryFails
    BY <1>2, <1>4, <2>3 DEF Here, At, ListRegisteredFails, ClaimDirectoryFails, StartFails,
       GoTo, Ends,
       Job, Phase, Known, Undoing, Before, Running, history, Updating
  <2>4. CASE CreateStatefulSetFails \/ WaitForPodFails \/ AnnotatePortsFails
    <3>1. Undo("dropClaim") \/ Undo("dropSet")
      BY <2>4 DEF CreateStatefulSetFails, WaitForPodFails, AnnotatePortsFails
    <3>2. files'[name] = "given up" /\ warned' = warned /\ op' \in {"dropClaim", "dropSet"}
      BY <1>2, <3>1 DEF Undo, KubeInv, Functions, GoTo
    <3>3. Good(reg'[name], svc'[name], set'[name], claim'[name], files'[name], name \in warned')
      BY <1>2, <1>4, <3>2 DEF At, Good
    <3>4. Job(op', kind, want, uuid', reg'[name], svc'[name], set'[name], files'[name],
              name \in warned', before[name])
      BY <1>2, <1>4, <3>2, <2>4
         DEF At, Job, Phase, Known, Undoing, Before, Running, Undo, GoTo,
             CreateStatefulSetFails, WaitForPodFails, AnnotatePortsFails
    <3> QED
      BY <3>3, <3>4 DEF Here
  <2>5. CASE DestroyFails
    BY <1>2, <1>4, <2>5 DEF Here, At, DestroyFails, Destroyed, StartFails, GoTo, Ends, HasSet,
       Registered,
       Good, Job, Phase, Known, Undoing, Before, Running, Updating
  <2> QED
    BY <2>1, <2>2, <2>3, <2>4, <2>5 DEF Quiet
<1>6. UuidInv'
  <2>1. op' \notin {"register", "save"}
    BY DEF Quiet, CreateServiceFails, ListRegistered, ListRegisteredFails, ClaimDirectoryFails,
     CreateStatefulSetFails, WaitForPod, WaitForPodFails, AnnotatePortsFails, ReadService,
     Reading,
     PortsStayClosed, Finish, DestroyFails, Crash, Panic, Undo, Dies, StartFails, Destroyed,
     GoTo, Ends
  <2>2. reg' = reg /\ minted' = minted
    BY <1>1 DEF dbVars
  <2> QED
    BY <2>1, <2>2, UuidKept DEF KubeInv, UuidInv
<1> QED
  BY <1>1, <1>3, <1>5, <1>6, OneName DEF Here

(* Steps on the stateful set.                                              *)
SetStep == CreateStatefulSet \/ DropSet \/ DestroySet \/ StopService \/ StopServiceFails

LEMMA SetKeeps == ASSUME KubeInv, SetStep PROVE KubeInv' /\ Frame /\ op # "idle"
<1>1. /\ op # "idle" /\ UNCHANGED <<svc, claim, dbVars, jobVars, uuid, files>>
      /\ warned' = warned \/ warned' = warned \cup {name}
  BY DEF SetStep, CreateStatefulSet, DropSet, DestroySet, StopService, StopServiceFails, history
<1>2. At
  BY <1>1 DEF KubeInv, Functions, GoodInv, JobInv, At
<1>3. \/ set' = set
      \/ set' = [set EXCEPT ![name] = None]
      \/ set' = [set EXCEPT ![name].leaving = TRUE]
      \/ /\ CreateStatefulSet
         /\ set' = [set EXCEPT ![name] = [uuid |-> uuid, config |-> want, pod |-> "none", leaving |-> FALSE]]
  BY DEF SetStep, CreateStatefulSet, DropSet, DestroySet, StopService, StopServiceFails,
     RemoveStatefulSet, RemoveStatefulSetFails
<1>4. Frame
  BY <1>1, <1>2, <1>3 DEF Frame, KubeInv, Functions, Kept, dbVars, jobVars, At
<1>5. /\ reg'[name] = reg[name] /\ svc'[name] = svc[name] /\ files'[name] = files[name]
      /\ claim'[name] = claim[name] /\ uuid' = uuid
  BY <1>1 DEF dbVars
<1>7. Here
  <2>1. CASE CreateStatefulSet
    <3>1. /\ set'[name] = [uuid |-> uuid, config |-> want, pod |-> "none", leaving |-> FALSE]
          /\ op = "set" /\ op' = "wait" /\ warned' = warned
      BY <1>2, <2>1 DEF CreateStatefulSet, GoTo, KubeInv, Functions, At, history
    <3>2. reg[name] # None /\ uuid = reg[name].uuid /\ uuid \in Uuid /\ want \in Configs
      BY <1>2, <3>1 DEF At, Good, Job, Known, Before, Registration
    <3>3. /\ set'[name] \in [uuid : Uuid, config : Configs, pod : {"none", "pending", "ready"}, leaving : BOOLEAN]
          /\ set'[name] # None /\ set'[name].uuid = uuid /\ set'[name].config = want /\ ~set'[name].leaving
      BY <3>1, <3>2
    <3>4. Good(reg'[name], svc'[name], set'[name], claim'[name], files'[name], name \in warned')
      BY <1>2, <1>5, <3>1, <3>2, <3>3 DEF At, Good
    <3>5. Job(op', kind, want, uuid', reg'[name], svc'[name], set'[name], files'[name],
              name \in warned', before[name])
      BY <1>2, <1>5, <3>1, <3>2, <3>3 DEF At, Job, Phase, Known, Undoing, Before, Running
    <3> QED
      BY <3>4, <3>5 DEF Here
  <2>2. CASE DropSet
    <3>1. \/ op = "dropSet" /\ op' = "dropClaim"
          \/ op = "panicSet" /\ op' = "panicClaim"
      BY <2>2 DEF DropSet, GoTo
    <3>2. \/ set'[name] = None
          \/ set'[name] = set[name] /\ name \in warned'
          \/ set'[name] = [set[name] EXCEPT !.leaving = TRUE] /\ name \in warned'
      BY <1>2, <2>2 DEF DropSet, RemoveStatefulSet, RemoveStatefulSetFails, KubeInv, Functions, At
    <3>3. Good(reg'[name], svc'[name], set'[name], claim'[name], files'[name], name \in warned')
      BY <1>1, <1>2, <1>5, <3>2 DEF At, Good
    <3>4. Job(op', kind, want, uuid', reg'[name], svc'[name], set'[name], files'[name],
              name \in warned', before[name])
      BY <1>1, <1>2, <1>5, <3>1, <3>2 DEF At, Job, Phase, Known, Undoing, Before, Running
    <3> QED
      BY <3>3, <3>4 DEF Here
  <2>3. CASE DestroySet
    <3>1. op = "destroySet"
      BY <2>3 DEF DestroySet
    <3>2. \/ set'[name] = None
          \/ set'[name] = set[name] /\ (~HasSet(name, uuid) \/ name \in warned')
          \/ set'[name] = [set[name] EXCEPT !.leaving = TRUE] /\ name \in warned'
      BY <1>2, <2>3 DEF DestroySet, RemoveStatefulSetFails, KubeInv, Functions, At
    <3>3. op' = "idle" \/ (op' = "unregister" /\ reg[name] # None /\ before[name] = None)
      BY <1>5, <2>3 DEF DestroySet, Destroyed, StartFails, Registered, Updating, GoTo, Ends
    <3> QED
      <4>0. reg[name] # None => uuid = reg[name].uuid
        BY <1>2, <3>1 DEF At, Job
      <4>1. Good(reg'[name], svc'[name], set'[name], claim'[name], files'[name], name \in warned')
        BY <1>1, <1>2, <1>5, <3>2, <4>0 DEF At, Good, HasSet
      <4>2. op' # "idle" => Job(op', kind, want, uuid', reg'[name], svc'[name], set'[name], files'[name],
                               name \in warned', before[name])
        BY <1>1, <1>2, <1>5, <3>1, <3>2, <3>3 DEF At, Good, Job, Phase, Known, Undoing, Before,
           Running,
           HasSet
      <4> QED
        BY <4>1, <4>2 DEF Here
  <2>4. CASE StopService
    <3>1. op = "stop" /\ op' = "stopped" /\ warned' = warned
      BY <2>4 DEF StopService, GoTo, history
    <3>2. set'[name] = None \/ (set'[name] = set[name] /\ ~HasSet(name, uuid))
      BY <1>2, <2>4 DEF StopService, KubeInv, Functions, At
    <3> QED
      BY <1>2, <1>5, <3>1, <3>2 DEF Here, At, Good, Job, Phase, Known, Undoing, Before, Running,
         HasSet
  <2>5. CASE StopServiceFails
    <3>1. op = "stop" /\ op' = "idle" /\ warned' = warned
      BY <2>5 DEF StopServiceFails, Ends, history
    <3>2. set'[name] = set[name] \/ set'[name] = [set[name] EXCEPT !.leaving = TRUE]
      BY <1>2, <2>5 DEF StopServiceFails, RemoveStatefulSetFails, KubeInv, Functions, At
    <3> QED
      BY <1>2, <1>5, <3>1, <3>2 DEF Here, At, Good
  <2> QED
    BY <2>1, <2>2, <2>3, <2>4, <2>5 DEF SetStep
<1>8. UuidInv'
  <2>1. op' \notin {"register", "save"}
    BY DEF SetStep, CreateStatefulSet, DropSet, DestroySet, StopService, StopServiceFails,
       Destroyed,
       StartFails, GoTo, Ends
  <2>2. reg' = reg /\ minted' = minted
    BY <1>1 DEF dbVars
  <2> QED
    BY <2>1, <2>2, UuidKept DEF KubeInv, UuidInv
<1> QED
  BY <1>1, <1>4, <1>7, <1>8, OneName DEF Here

(* Steps on the claim and on the Kubernetes Service.                       *)
ClaimStep == ClaimDirectory \/ DropClaim

LEMMA ClaimKeeps == ASSUME KubeInv, ClaimStep PROVE KubeInv' /\ Frame /\ op # "idle"
<1>1. /\ op # "idle" /\ UNCHANGED <<svc, set, dbVars, jobVars, uuid, warned>>
      /\ \/ files' = files
         \/ files' = [files EXCEPT ![name] = IF @ = "given up" THEN "none" ELSE @]
      /\ claim' = claim \/ \E p \in {"bound", "leaving"} : claim' = [claim EXCEPT ![name].phase = p]
  BY DEF ClaimStep, ClaimDirectory, DropClaim, history
<1>2. At
  BY <1>1 DEF KubeInv, Functions, GoodInv, JobInv, At
<1>3. Frame
  BY <1>1, <1>2 DEF Frame, KubeInv, Functions, Kept, dbVars, jobVars, At
<1>4. /\ reg'[name] = reg[name] /\ svc'[name] = svc[name] /\ set'[name] = set[name] /\ uuid' = uuid
  BY <1>1 DEF dbVars
<1>5. Here
  <2>1. CASE ClaimDirectory
    <3>1. /\ op = "claim" /\ op' = "set"
          /\ claim'[name] = [claim[name] EXCEPT !.phase = "bound"]
          /\ files'[name] = IF files[name] = "given up" THEN "none" ELSE files[name]
      BY <1>2, <2>1 DEF ClaimDirectory, GoTo, KubeInv, Functions, At
    <3>2. Good(reg'[name], svc'[name], set'[name], claim'[name], files'[name], name \in warned')
      BY <1>1, <1>2, <1>4, <3>1 DEF At, Good
    <3>3. Job(op', kind, want, uuid', reg'[name], svc'[name], set'[name], files'[name],
              name \in warned', before[name])
      BY <1>1, <1>2, <1>4, <3>1 DEF At, Job, Phase, Known, Undoing, Before, Running
    <3> QED
      BY <3>2, <3>3 DEF Here
  <2>2. CASE DropClaim
    <3>1. /\ op \in {"dropClaim", "panicClaim"} /\ files' = files
          /\ claim'[name] = claim[name] \/ claim'[name] = [claim[name] EXCEPT !.phase = "leaving"]
          /\ \/ op' = "idle"
             \/ op = "dropClaim" /\ op' = "unregister" /\ kind = "add" /\ before[name] = None
      BY <1>2, <2>2 DEF DropClaim, StartFails, Updating, GoTo, Ends, KubeInv, Functions, At,
         history
    <3> QED
      BY <1>1, <1>2, <1>4, <3>1 DEF Here, At, Good, Job, Phase, Known, Undoing, Before, Running
  <2> QED
    BY <2>1, <2>2 DEF ClaimStep
<1>6. UuidInv'
  <2>1. op' \notin {"register", "save"} /\ reg' = reg /\ minted' = minted
    BY <1>1 DEF ClaimStep, ClaimDirectory, DropClaim, StartFails, GoTo, Ends, dbVars
  <2> QED
    BY <2>1, UuidKept DEF KubeInv, UuidInv
<1> QED
  BY <1>1, <1>3, <1>5, <1>6, OneName DEF Here

ServiceStep == CreateService \/ AnnotatePorts \/ DestroyService

LEMMA ServiceKeeps == ASSUME KubeInv, ServiceStep PROVE KubeInv' /\ Frame /\ op # "idle"
<1>1. op # "idle" /\ UNCHANGED <<reg, set, claim, jobVars, history>>
  BY DEF ServiceStep, CreateService, AnnotatePorts, DestroyService, dbVars
<1>2. At
  BY <1>1 DEF KubeInv, Functions, GoodInv, JobInv, At
<1>3. \/ svc' = [svc EXCEPT ![name].ports = TRUE]
      \/ \E v : svc' = [svc EXCEPT ![name] = v]
  BY DEF ServiceStep, CreateService, AnnotatePorts, DestroyService
<1>4. Frame
  BY <1>1, <1>2, <1>3 DEF Frame, KubeInv, Functions, Kept, jobVars, At, history
<1>5. /\ reg'[name] = reg[name] /\ set'[name] = set[name] /\ claim'[name] = claim[name]
      /\ files'[name] = files[name] /\ warned' = warned
  BY <1>1 DEF history
<1>6. CASE CreateService
  <2>1. /\ op = "register" /\ op' = "save" /\ minted' = minted + 1 /\ uuid' = minted'
        /\ svc'[name] = [uuid |-> minted + 1, ports |-> FALSE]
    BY <1>2, <1>6 DEF CreateService, GoTo, KubeInv, Functions, At
  <2>2. minted + 1 \in Uuid /\ minted \in Nat
    BY <2>1 DEF KubeInv, UuidInv
  <2>3. Here
    <3>1. reg[name] = None
      BY <1>2, <2>1 DEF At, Job
    <3>2. /\ svc'[name] \in [uuid : Uuid, ports : BOOLEAN] /\ svc'[name].uuid = uuid'
          /\ svc'[name] # None
      BY <2>1, <2>2
    <3>3. Good(reg'[name], svc'[name], set'[name], claim'[name], files'[name], name \in warned')
      BY <1>2, <1>5, <3>1, <3>2 DEF At, Good
    <3>4. Job(op', kind, want, uuid', reg'[name], svc'[name], set'[name], files'[name],
              name \in warned', before[name])
      BY <1>2, <1>5, <2>1, <3>1, <3>2 DEF At, Job, Phase, Known, Undoing, Before, Running
    <3> QED
      BY <3>3, <3>4 DEF Here
  <2>4. UuidInv'
    BY <1>1, <2>1, <2>2 DEF KubeInv, UuidInv, Registered
  <2> QED
    BY <1>1, <1>4, <2>3, <2>4, OneName DEF Here
<1>7. CASE AnnotatePorts \/ DestroyService
  <2>1. /\ uuid' = uuid
        /\ \/ op = "annotate" /\ op' \in {"read", "reread"} /\ svc'[name] = [svc[name] EXCEPT !.ports = TRUE]
           \/ op = "destroy" /\ op' = "destroySet" /\ svc'[name] = None
    BY <1>2, <1>7 DEF AnnotatePorts, DestroyService, GoTo, KubeInv, Functions, At
  <2>2. Here
    <3>1. CASE op = "annotate"
      <4>1. svc[name] \in [uuid : Uuid, ports : BOOLEAN] \cup {None}
        BY <1>2 DEF At, Good
      <4>2. svc[name] # None
        BY <1>2, <3>1 DEF At, Job, Running
      <4>3. /\ svc'[name] \in [uuid : Uuid, ports : BOOLEAN] /\ svc'[name].uuid = svc[name].uuid
            /\ svc'[name] # None
        BY <2>1, <3>1, <4>1, <4>2
      <4>4. Good(reg'[name], svc'[name], set'[name], claim'[name], files'[name], name \in warned')
        BY <1>2, <1>5, <4>2, <4>3 DEF At, Good
      <4>5. Job(op', kind, want, uuid', reg'[name], svc'[name], set'[name], files'[name],
                name \in warned', before[name])
        BY <1>2, <1>5, <2>1, <3>1, <4>3 DEF At, Job, Phase, Known, Undoing, Before, Running
      <4> QED
        BY <4>4, <4>5 DEF Here
    <3>2. CASE op = "destroy"
      <4>1. Good(reg'[name], svc'[name], set'[name], claim'[name], files'[name], name \in warned')
        BY <1>2, <1>5, <2>1, <3>2 DEF At, Good
      <4>2. Job(op', kind, want, uuid', reg'[name], svc'[name], set'[name], files'[name],
                name \in warned', before[name])
        BY <1>2, <1>5, <2>1, <3>2 DEF At, Job, Phase, Known, Undoing, Before, Running
      <4> QED
        BY <4>1, <4>2 DEF Here
    <3> QED
      BY <2>1, <3>1, <3>2
  <2>3. UuidInv'
    BY <1>1, <1>7, <2>1, UuidKept DEF KubeInv, UuidInv, AnnotatePorts, DestroyService, dbVars
  <2> QED
    BY <1>1, <1>4, <2>2, <2>3, OneName DEF Here
<1> QED
  BY <1>6, <1>7 DEF ServiceStep

(* The service cannot be read again: its annotation is undone, or not.     *)
ReadStep == ReadServiceFails \/ ReadServicePanics

LEMMA ReadKeeps == ASSUME KubeInv, ReadStep PROVE KubeInv' /\ Frame /\ op # "idle"
<1>1. /\ op \in {"read", "reread"} /\ op' \in {"dropSet", "panicSet"}
      /\ UNCHANGED <<set, claim, dbVars, jobVars, uuid, warned>>
      /\ files' = [files EXCEPT ![name] = "given up"]
      /\ svc' = svc \/ svc' = [svc EXCEPT ![name].ports = FALSE]
  BY DEF ReadStep, ReadServiceFails, ReadServicePanics, UndoAnnotation, Undo, GoTo, Reading
<1>2. At
  BY <1>1 DEF KubeInv, Functions, GoodInv, JobInv, At
<1>3. Frame
  BY <1>1, <1>2 DEF Frame, KubeInv, Functions, Kept, dbVars, jobVars, At
<1>4. /\ reg'[name] = reg[name] /\ set'[name] = set[name] /\ claim'[name] = claim[name]
      /\ uuid' = uuid /\ files'[name] = "given up" /\ warned' = warned
  BY <1>1, <1>2 DEF dbVars, KubeInv, Functions
<1>5. /\ svc[name] \in [uuid : Uuid, ports : BOOLEAN] \cup {None}
      /\ svc[name] # None
  BY <1>1, <1>2 DEF At, Good, Job, Running
<1>6. svc'[name] = svc[name] \/ svc'[name] = [svc[name] EXCEPT !.ports = FALSE]
  BY <1>1, <1>2 DEF KubeInv, Functions
<1>7. /\ svc'[name] \in [uuid : Uuid, ports : BOOLEAN] /\ svc'[name].uuid = svc[name].uuid
      /\ svc'[name] # None
  BY <1>5, <1>6
<1>8. Good(reg'[name], svc'[name], set'[name], claim'[name], files'[name], name \in warned')
  BY <1>2, <1>4, <1>5, <1>7 DEF At, Good
<1>9. Job(op', kind, want, uuid', reg'[name], svc'[name], set'[name], files'[name],
          name \in warned', before[name])
  BY <1>1, <1>2, <1>4, <1>7 DEF At, Job, Phase, Known, Undoing, Before, Running
<1>10. UuidInv'
  <2>1. op' \notin {"register", "save"} /\ reg' = reg /\ minted' = minted
    BY <1>1 DEF dbVars
  <2> QED
    BY <2>1, <1>1, UuidKept DEF KubeInv, UuidInv
<1> QED
  BY <1>1, <1>3, <1>8, <1>9, <1>10, OneName DEF Here

(* Transactions of the enclave's database.                                 *)
RegStep == Save \/ PortsOpen \/ Mark \/ Unregister \/ Stopped

LEMMA RegKeeps == ASSUME KubeInv, RegStep PROVE KubeInv' /\ Frame /\ op # "idle"
<1>1. op # "idle" /\ UNCHANGED <<clusterVars, minted, jobVars, uuid, history>>
  BY DEF RegStep, Save, PortsOpen, Mark, Unregister, Stopped
<1>2. At
  BY <1>1 DEF KubeInv, Functions, GoodInv, JobInv, At
<1>3. \/ \E r : reg' = [reg EXCEPT ![name] = r]
      \/ reg' = [reg EXCEPT ![name].config = want]
      \/ \E t : reg' = [reg EXCEPT ![name].status = t]
      \/ reg' = [reg EXCEPT ![name].status = "registered", ![name].config = NoConfig]
  BY DEF RegStep, Save, PortsOpen, Mark, Unregister, Stopped
<1>4. Frame
  BY <1>1, <1>2, <1>3 DEF Frame, KubeInv, Functions, Kept, clusterVars, jobVars, At, history
<1>5. /\ svc'[name] = svc[name] /\ set'[name] = set[name] /\ claim'[name] = claim[name]
      /\ files'[name] = files[name] /\ warned' = warned /\ uuid' = uuid
  BY <1>1 DEF history, clusterVars
<1>6. CASE Save
  <2>1. /\ op = "save" /\ op' = "list"
        /\ reg'[name] = [uuid |-> uuid, status |-> "registered", config |-> NoConfig]
    BY <1>2, <1>6 DEF Save, GoTo, KubeInv, Functions, At
  <2>2. uuid = minted /\ uuid \in Uuid /\ \A n \in Names : reg[n].uuid # uuid
    BY <2>1 DEF KubeInv, UuidInv
  <2>3. /\ reg'[name] \in Registration /\ reg'[name] # None /\ reg'[name].uuid = uuid
    BY <2>1, <2>2 DEF Registration
  <2>4. /\ reg[name] = None /\ before[name] = None /\ kind = "add" /\ svc[name] # None
        /\ svc[name].uuid = uuid
    BY <1>2, <2>1 DEF At, Job
  <2>5. Good(reg'[name], svc'[name], set'[name], claim'[name], files'[name], name \in warned')
    BY <1>2, <1>5, <2>3, <2>4 DEF At, Good
  <2>6. Job(op', kind, want, uuid', reg'[name], svc'[name], set'[name], files'[name],
            name \in warned', before[name])
    BY <1>2, <1>5, <2>1, <2>3, <2>4 DEF At, Good, Job, Phase, Known, Undoing, Before, Running
  <2>7. UuidInv'
    <3>1. \A n \in Names : n # name => reg'[n] = reg[n]
      BY <1>4 DEF Frame, Kept
    <3> QED
      BY <1>1, <2>1, <2>2, <2>3, <3>1 DEF KubeInv, UuidInv, Registered
  <2> QED
    BY <1>1, <1>4, <2>5, <2>6, <2>7, OneName
<1>7. CASE PortsOpen \/ Mark \/ (Stopped /\ kind # "remove")
  <2>1. /\ reg[name] # None /\ reg[name] \in Registration
    BY <1>2, <1>7 DEF At, Good, Job, Known, Before, Running, PortsOpen, Mark, Stopped
  <2>2. \/ op = "ports" /\ op' = "mark" /\ reg'[name] = [reg[name] EXCEPT !.config = want]
        \/ op = "mark" /\ op' = "finish" /\ kind # "start" /\ reg'[name] = [reg[name] EXCEPT !.status = "started"]
        \/ op = "mark" /\ op' = "idle" /\ kind = "start" /\ reg'[name] = [reg[name] EXCEPT !.status = "started"]
        \/ op = "stopped" /\ op' = "idle" /\ reg'[name] = [reg[name] EXCEPT !.status = "stopped"]
        \/ op = "stopped" /\ op' = "list" /\ kind = "add"
           /\ reg'[name] = [reg[name] EXCEPT !.status = "registered", !.config = NoConfig]
    BY <1>2, <1>7 DEF PortsOpen, Mark, Stopped, GoTo, Ends, KubeInv, Functions, At
  <2>3. want \in Configs \/ op = "stopped"
    BY <1>2, <2>2 DEF At, Job, Running
  <2>4. /\ reg'[name] \in Registration /\ reg'[name] # None /\ reg'[name].uuid = reg[name].uuid
        /\ op = "ports" => reg'[name].config = want
        /\ op = "mark" => reg'[name].config = reg[name].config /\ reg'[name].status = "started"
    BY <2>1, <2>2, <2>3 DEF Registration
  <2>5. Good(reg'[name], svc'[name], set'[name], claim'[name], files'[name], name \in warned')
    BY <1>2, <1>5, <2>1, <2>4 DEF At, Good
  <2>6. op' # "idle" => Job(op', kind, want, uuid', reg'[name], svc'[name], set'[name], files'[name],
                            name \in warned', before[name])
    BY <1>2, <1>5, <2>1, <2>2, <2>4 DEF At, Job, Phase, Known, Undoing, Before, Running
  <2>7. \A n \in Names : reg'[n] = None \/ (reg[n] # None /\ reg'[n].uuid = reg[n].uuid)
    BY <1>4, <2>1, <2>4 DEF Frame, Kept
  <2>8. UuidInv'
    BY <1>1, <2>2, <2>7, UuidKept
  <2> QED
    BY <1>1, <1>4, <2>5, <2>6, <2>8, OneName
<1>8. CASE Unregister \/ (Stopped /\ kind = "remove")
  <2>1. /\ reg'[name] = None
        /\ \/ op = "unregister" /\ op' = "destroy"
           \/ op = "stopped" /\ op' = "idle"
    BY <1>2, <1>8 DEF Unregister, Stopped, GoTo, Ends, KubeInv, Functions, At
  <2>2. set[name] # None => name \in warned
    BY <1>2, <2>1 DEF At, Job
  <2>3. Good(reg'[name], svc'[name], set'[name], claim'[name], files'[name], name \in warned')
    BY <1>2, <1>5, <2>1, <2>2 DEF At, Good
  <2>4. op' # "idle" => Job(op', kind, want, uuid', reg'[name], svc'[name], set'[name], files'[name],
                            name \in warned', before[name])
    BY <1>2, <1>5, <2>1 DEF At, Job, Phase, Known, Undoing, Before, Running
  <2>5. \A n \in Names : reg'[n] = None \/ (reg[n] # None /\ reg'[n].uuid = reg[n].uuid)
    BY <1>4, <2>1 DEF Frame, Kept
  <2>6. UuidInv'
    BY <1>1, <2>1, <2>5, UuidKept
  <2> QED
    BY <1>1, <1>4, <2>3, <2>4, <2>6, OneName
<1> QED
  BY <1>6, <1>7, <1>8 DEF RegStep

(* An instruction begins.                                                  *)
LEMMA RequestKeeps == ASSUME KubeInv, RequestAdd \/ RequestOther PROVE KubeInv'
<1>0. PICK n \in Names, k \in {"add", "remove", "stop", "start"} : \E c :
        /\ Enter(k, n, c)
        /\ \/ k = "add" /\ c \in Configs /\ (Registered(n) \/ minted < MaxUuid)
              /\ op' = (IF Registered(n) THEN "stop" ELSE "register")
           \/ k # "add" /\ Registered(n) /\ c = reg[n].config /\ op' = IF k = "start" THEN "list" ELSE "stop"
  BY DEF RequestAdd, RequestOther
<1>1. PICK c :
        /\ Enter(k, n, c)
        /\ \/ k = "add" /\ c \in Configs /\ (Registered(n) \/ minted < MaxUuid)
              /\ op' = (IF Registered(n) THEN "stop" ELSE "register")
           \/ k # "add" /\ Registered(n) /\ c = reg[n].config /\ op' = IF k = "start" THEN "list" ELSE "stop"
  BY <1>0
<1>2. /\ name' = n /\ kind' = k /\ want' = c /\ before' = Seen /\ uuid' = reg[n].uuid
      /\ reg' = reg /\ minted' = minted /\ svc' = svc /\ set' = set /\ claim' = claim
      /\ files' = files /\ warned' = warned
  BY <1>1 DEF Enter, clusterVars, dbVars, history
<1>3. Functions'
  BY <1>2 DEF KubeInv, Functions, Seen
<1>4. GoodInv'
  BY <1>2 DEF KubeInv, GoodInv
<1>5. UuidInv'
  BY <1>1, <1>2 DEF KubeInv, UuidInv, Registered
<1>6. Good(reg[n], svc[n], set[n], claim[n], files[n], n \in warned)
  BY DEF KubeInv, GoodInv
<1>7. Job(op', k, c, reg[n].uuid, reg[n], svc[n], set[n], files[n], n \in warned, Seen[n])
  <2>1. PICK b : b = Seen[n]
    OBVIOUS
  <2>2. reg[n] = None => b = None
    BY <2>1, SeenIs
  <2>3. reg[n] # None => \E up \in BOOLEAN : b = [uuid |-> reg[n].uuid, config |-> reg[n].config, up |-> up]
    BY <2>1, SeenIs
  <2>4. reg[n] # None => reg[n].uuid # 0 /\ reg[n].config \in Configs \cup {NoConfig}
    <3>1. reg[n] \in Registration \cup {None}
      BY <1>6 DEF Good
    <3> QED
      BY <3>1 DEF Registration
  <2>5. reg[n] # None => /\ b # None /\ b.uuid = reg[n].uuid /\ b.up \in BOOLEAN
                         /\ b = [uuid |-> reg[n].uuid, config |-> reg[n].config, up |-> b.up]
    BY <2>3, <2>4
  <2> HIDE <2>3
  <2>6. Job(op', k, c, reg[n].uuid, reg[n], svc[n], set[n], files[n], n \in warned, b)
    BY <1>1, <2>2, <2>4, <2>5 DEF Job, Phase, Known, Undoing, Before, Running, Registered
  <2> QED
    BY <2>1, <2>6
<1>8. Seen' = Seen
  BY <1>2 DEF Seen, Registered
<1> QED
  BY <1>2, <1>3, <1>4, <1>5, <1>7, <1>8 DEF KubeInv, JobInv

-----------------------------------------------------------------------------
(* Kubernetes makes and loses pods, and removes what is being deleted.     *)
ClusterEffect(n) ==
  /\ reg' = reg /\ minted' = minted /\ svc' = svc /\ warned' = warned /\ op' = op /\ uuid' = uuid
  /\ kind' = kind /\ want' = want /\ name' = name /\ before' = before /\ last' = last
  /\ Functions'
  /\ \A m \in Names \ {n} : set'[m] = set[m] /\ claim'[m] = claim[m] /\ files'[m] = files[m]
  /\ set'[n] \in [uuid : Uuid, config : Configs, pod : {"none", "pending", "ready"}, leaving : BOOLEAN]
                 \cup {None}
  /\ set'[n] # None => /\ set[n] # None /\ set'[n].uuid = set[n].uuid /\ set'[n].config = set[n].config
                       /\ set'[n].leaving = set[n].leaving
  /\ set[n] # None /\ ~set[n].leaving => set'[n] # None
  /\ \/ claim'[n] = claim[n] /\ files'[n] = files[n]
     \/ /\ claim'[n] = [claim[n] EXCEPT !.data = TRUE] /\ claim[n].phase = "bound"
        /\ files'[n] = (IF files[n] = "none" THEN "kept" ELSE files[n])
     \/ claim[n].phase = "leaving" /\ claim'[n] = NoClaim /\ files'[n] = files[n]

LEMMA ClusterIs == ASSUME KubeInv, NEW n \in Names, Cluster(n) PROVE ClusterEffect(n)
<1>1. UNCHANGED outside
  BY DEF Cluster, PodMade, PodReady, PodLost, SetGone, ClaimGone
<1>2. /\ reg' = reg /\ minted' = minted /\ svc' = svc /\ warned' = warned /\ op' = op /\ uuid' = uuid
      /\ kind' = kind /\ want' = want /\ name' = name /\ before' = before /\ last' = last
  BY <1>1 DEF outside, dbVars, jobVars, runVars
<1>3. Good(reg[n], svc[n], set[n], claim[n], files[n], n \in warned)
  BY DEF KubeInv, GoodInv
<1>4. \/ set[n] # None /\ ~set[n].leaving /\ claim' = claim /\ files' = files
         /\ set' = [set EXCEPT ![n].pod = "pending"]
      \/ set[n] # None /\ set' = [set EXCEPT ![n].pod = "ready"] /\ claim[n].phase = "bound"
         /\ claim' = [claim EXCEPT ![n].data = TRUE]
         /\ files' = [files EXCEPT ![n] = IF @ = "none" THEN "kept" ELSE @]
      \/ set[n] # None /\ set' = [set EXCEPT ![n].pod = "none"] /\ claim' = claim /\ files' = files
      \/ set[n] # None /\ set[n].leaving /\ set' = [set EXCEPT ![n] = None] /\ claim' = claim /\ files' = files
      \/ claim[n].phase = "leaving" /\ claim' = [claim EXCEPT ![n] = NoClaim] /\ set' = set /\ files' = files
  BY DEF Cluster, PodMade, PodReady, PodLost, SetGone, ClaimGone
<1>5. Functions'
  BY <1>2, <1>4 DEF KubeInv, Functions
<1>6. ASSUME NEW m \in Names \ {n}
      PROVE  set'[m] = set[m] /\ claim'[m] = claim[m] /\ files'[m] = files[m]
  BY <1>4 DEF KubeInv, Functions
<1>7. \/ /\ claim'[n] = claim[n] /\ files'[n] = files[n]
         /\ set[n] # None /\ \E p \in {"none", "pending"} : set'[n] = [set[n] EXCEPT !.pod = p]
      \/ /\ claim'[n] = [claim[n] EXCEPT !.data = TRUE] /\ claim[n].phase = "bound"
         /\ files'[n] = (IF files[n] = "none" THEN "kept" ELSE files[n])
         /\ set[n] # None /\ set'[n] = [set[n] EXCEPT !.pod = "ready"]
      \/ /\ claim'[n] = claim[n] /\ files'[n] = files[n]
         /\ set[n] # None /\ set[n].leaving /\ set'[n] = None
      \/ /\ claim[n].phase = "leaving" /\ claim'[n] = NoClaim /\ files'[n] = files[n]
         /\ set'[n] = set[n]
  BY <1>4 DEF KubeInv, Functions
<1>8. /\ set'[n] \in [uuid : Uuid, config : Configs, pod : {"none", "pending", "ready"}, leaving : BOOLEAN] \cup {None}
      /\ set'[n] # None => /\ set[n] # None /\ set'[n].uuid = set[n].uuid /\ set'[n].config = set[n].config
                           /\ set'[n].leaving = set[n].leaving
      /\ set[n] # None /\ ~set[n].leaving => set'[n] # None
  <2>1. set[n] \in [uuid : Uuid, config : Configs, pod : {"none", "pending", "ready"}, leaving : BOOLEAN] \cup {None}
    BY <1>3 DEF Good
  <2> QED
    BY <1>7, <2>1
<1> QED
  BY <1>2, <1>5, <1>6, <1>7, <1>8 DEF ClusterEffect

LEMMA ClusterUnseen ==
  ASSUME KubeInv, NEW n \in Names, Cluster(n)
  PROVE  \A m \in Names : Seen'[m] = Seen[m]
<1>0. ClusterEffect(n)
  BY ClusterIs
<1>1. ASSUME NEW m \in Names \ {n} PROVE Seen'[m] = Seen[m]
  BY <1>0, SeenKept DEF Kept, ClusterEffect
<1>2. Seen'[n] = Seen[n]
  BY <1>0, SeenIs DEF Seen, Registered, ClusterEffect
<1> QED
  BY <1>1, <1>2

LEMMA ClusterKeeps == ASSUME KubeInv, NEW n \in Names, Cluster(n) PROVE KubeInv'
<1>0. ClusterEffect(n)
  BY ClusterIs
<1>1. Good(reg[n], svc[n], set[n], claim[n], files[n], n \in warned)
  BY DEF KubeInv, GoodInv
<1>2. Good(reg[n], svc[n], set'[n], claim'[n], files'[n], n \in warned)
  <2>1. /\ claim[n] \in [phase : {"none", "bound", "leaving"}, data : BOOLEAN]
        /\ files[n] \in {"none", "kept", "given up"}
        /\ files[n] = "kept" => claim[n].phase = "bound" /\ claim[n].data
    BY <1>1 DEF Good
  <2>2. /\ claim'[n] \in [phase : {"none", "bound", "leaving"}, data : BOOLEAN]
        /\ files'[n] \in {"none", "kept", "given up"}
        /\ files'[n] = "kept" => claim'[n].phase = "bound" /\ claim'[n].data
    <3>1. \A c \in [phase : {"none", "bound", "leaving"}, data : BOOLEAN] :
            LET d == [c EXCEPT !.data = TRUE] IN
              d \in [phase : {"none", "bound", "leaving"}, data : BOOLEAN] /\ d.phase = c.phase /\ d.data
      OBVIOUS
    <3>2. NoClaim \in [phase : {"none", "bound", "leaving"}, data : BOOLEAN]
      BY DEF NoClaim
    <3>3. CASE claim'[n] = claim[n] /\ files'[n] = files[n]
      BY <2>1, <3>3
    <3>4. CASE /\ claim'[n] = [claim[n] EXCEPT !.data = TRUE] /\ claim[n].phase = "bound"
               /\ files'[n] = (IF files[n] = "none" THEN "kept" ELSE files[n])
      BY <2>1, <3>1, <3>4
    <3>5. CASE claim[n].phase = "leaving" /\ claim'[n] = NoClaim /\ files'[n] = files[n]
      BY <2>1, <3>2, <3>5
    <3> QED
      BY <1>0, <3>3, <3>4, <3>5 DEF ClusterEffect
  <2> QED
    BY <1>1, <2>2, <1>0 DEF Good, ClusterEffect
<1>3. GoodInv'
  BY <1>2, <1>0 DEF KubeInv, GoodInv, ClusterEffect
<1>4. UuidInv'
  BY <1>0 DEF KubeInv, UuidInv, Registered, ClusterEffect
<1>5. JobInv'
  <2> SUFFICES ASSUME op # "idle"
               PROVE  Job(op, kind, want, uuid, reg[name], svc[name], set'[name], files'[name],
                          name \in warned, before[name])
    BY <1>0, ClusterUnseen DEF KubeInv, JobInv, ClusterEffect
  <2>1. Job(op, kind, want, uuid, reg[name], svc[name], set[name], files[name], name \in warned, before[name])
        /\ name \in Names
    BY DEF KubeInv, JobInv, Functions
  <2>2. CASE name # n
    BY <1>0, <2>1, <2>2 DEF ClusterEffect
  <2>3. CASE name = n
    <3>1. files[n] = "given up" => files'[n] = "given up"
      BY <1>0 DEF ClusterEffect
    <3> QED
      BY <1>0, <2>1, <2>3, <3>1 DEF Job, ClusterEffect
  <2> QED
    BY <2>2, <2>3
<1> QED
  BY <1>3, <1>4, <1>5, <1>0 DEF KubeInv, ClusterEffect

LEMMA InitKube == Init => KubeInv
BY DEF Init, KubeInv, Functions, GoodInv, Good, JobInv, UuidInv, Registered, NoClaim, Seen

LEMMA NextKube == KubeInv /\ [Next]_vars => KubeInv'
<1> SUFFICES ASSUME KubeInv, [Next]_vars PROVE KubeInv'
  OBVIOUS
<1>1. CASE UNCHANGED vars
  BY <1>1 DEF vars, clusterVars, dbVars, jobVars, history, KubeInv, Functions, GoodInv, JobInv,
     UuidInv,
     Registered, Seen
<1>2. CASE Step
  BY <1>2, QuietKeeps, SetKeeps, ClaimKeeps, ServiceKeeps, ReadKeeps, RegKeeps
     DEF Step, Quiet, SetStep, ClaimStep, ServiceStep, ReadStep, RegStep
<1> QED
  BY <1>1, <1>2, RequestKeeps, ClusterKeeps DEF Next

LEMMA KubeInvariant == Spec => []KubeInv
BY InitKube, NextKube, PTL DEF Spec

(* "A persistent directory persists over service updates and restarts",    *)
(* removals, crashes and lost pods: what gives it up is a start of its     *)
(* service that fails after the directory was claimed.                     *)
THEOREM DirectoriesSurvive == Spec => []DirectorySurvives
<1>1. KubeInv => DirectorySurvives
  BY DEF KubeInv, GoodInv, Good, DirectorySurvives
<1> QED
  BY <1>1, KubeInvariant, PTL

(* Every variable keeps its type, Kubernetes runs nothing that Kurtosis    *)
(* neither shows nor has warned of, and no registration is mixed up with   *)
(* what an earlier service of its name has left.                           *)
THEOREM NothingRunsUnseen == Spec => []KubeOK
<1>1. KubeInv => KubeOK
  <2> SUFFICES ASSUME KubeInv PROVE KubeOK
    OBVIOUS
  <2>1. \A n \in Names : Good(reg[n], svc[n], set[n], claim[n], files[n], n \in warned)
    BY DEF KubeInv, GoodInv
  <2>2. TypeOK
    BY <2>1 DEF KubeInv, Functions, UuidInv, Good, TypeOK
  <2> QED
    BY <2>1, <2>2 DEF Good, KubeOK, Registered
<1> QED
  BY <1>1, KubeInvariant, PTL

-----------------------------------------------------------------------------
(* Seen from outside.                                                      *)
(* An instruction that ends leaves the other names as they were.           *)
LEMMA EndsOnce ==
  ASSUME KubeInv, KubeInv', Frame, op # "idle", op' = "idle"
  PROVE  E!End
<1>1. \A n \in Names \ {name} : Seen'[n] = before[n]
  BY SeenKept DEF KubeInv, JobInv, Frame
<1>2. \A n \in Names : Seen'[n] # None => Registered(n)' /\ Seen'[n].uuid = reg'[n].uuid
  BY DEF Seen, Registered
<1>3. \A m, n \in Names : m # n /\ Seen'[m] # None /\ Seen'[n] # None => Seen'[m].uuid # Seen'[n].uuid
  BY <1>2 DEF KubeInv, UuidInv
<1>4. name' = name /\ kind' = kind /\ want' = want
  BY DEF Frame, jobVars
<1> QED
  BY <1>1, <1>3, <1>4 DEF E!End, E!Identified

(* What a service that is still registered looks like.                     *)
Same == reg'[name] # None /\ reg'[name].uuid = reg[name].uuid /\ reg'[name].config = reg[name].config

LEMMA StillThere ==
  ASSUME KubeInv, KubeInv', Frame, op # "idle", kind # "add", Same
  PROVE  /\ before[name] # None
         /\ \A up \in BOOLEAN : (Seen'[name].up <=> up) => Seen'[name] = [before[name] EXCEPT !.up = up]
         /\ \E up \in BOOLEAN : Seen'[name] = [before[name] EXCEPT !.up = up]
<1>1. /\ before[name] = [uuid |-> reg[name].uuid, config |-> reg[name].config, up |-> before[name].up]
      /\ before[name] # None
  BY DEF KubeInv, JobInv, Job
<1>2. name \in Names
  BY DEF KubeInv, Functions
<1>3. PICK up \in BOOLEAN : Seen'[name] = [uuid |-> reg[name].uuid, config |-> reg[name].config, up |-> up]
  <2>1. \E up \in BOOLEAN : Seen'[name] = [uuid |-> reg'[name].uuid, config |-> reg'[name].config, up |-> up]
    <3> SUFFICES ASSUME name' = name PROVE \E up \in BOOLEAN :
                   Seen'[name] = [uuid |-> reg'[name].uuid, config |-> reg'[name].config, up |-> up]
      BY DEF Frame, jobVars
    <3> DEFINE up == /\ reg'[name].status = "started" /\ set'[name] # None
                     /\ set'[name].uuid = reg'[name].uuid /\ set'[name].config = reg'[name].config
                     /\ ~set'[name].leaving
    <3>1. Seen'[name] = [uuid |-> reg'[name].uuid, config |-> reg'[name].config, up |-> up]
      BY <1>2 DEF Seen, Registered, Same
    <3>2. up \in BOOLEAN
      OBVIOUS
    <3> HIDE DEF up
    <3> QED
      BY <3>1, <3>2
  <2> QED
    BY <2>1 DEF Same
<1>4. \A u \in BOOLEAN : [before[name] EXCEPT !.up = u]
                         = [uuid |-> reg[name].uuid, config |-> reg[name].config, up |-> u]
  BY <1>1
<1> QED
  BY <1>1, <1>3, <1>4

(* A failed instruction that has not unregistered the service leaves it as *)
(* Enclave says, and so does one whose new service is gone.                *)
LEMMA FailureFails ==
  ASSUME KubeInv, KubeInv', Frame, op # "idle", op' = "idle", last' = "failure", reg' = reg,
         kind = "add" /\ before[name] = None => reg[name] = None
  PROVE  E!Next
<1>1. E!End
  BY EndsOnce
<1>2. name \in Names
  BY DEF KubeInv, Functions
<1>3. CASE kind # "add"
  <2>1. reg[name] # None
    BY <1>3 DEF KubeInv, JobInv, Job
  <2>2. \E up \in BOOLEAN : Seen'[name] = [before[name] EXCEPT !.up = up]
    BY <1>3, <2>1, StillThere DEF Same
  <2> QED
    BY <1>1, <1>3, <2>2 DEF E!Next, E!Fail, E!Sets
<1>4. CASE kind = "add" /\ before[name] = None
  <2>1. Seen'[name] = None
    BY <1>2, <1>4 DEF Seen, Registered
  <2> QED
    BY <1>1, <1>4, <2>1 DEF E!Next, E!Fail, E!New
<1>5. CASE kind = "add" /\ before[name] # None
  <2>1. reg[name] # None /\ reg[name].uuid = before[name].uuid
    BY <1>5 DEF KubeInv, JobInv, Job
  <2>2. reg[name].uuid # 0
    <3>1. reg[name] \in Registration \cup {None}
      BY <1>2 DEF KubeInv, GoodInv, Good
    <3> QED
      BY <2>1, <3>1 DEF Registration
  <2>3. Seen'[name] # None /\ Seen'[name].uuid = before[name].uuid
    BY <1>2, <2>1, <2>2 DEF Seen, Registered
  <2> QED
    BY <1>1, <1>5, <2>3 DEF E!Next, E!Fail, E!New, E!Keeps
<1> QED
  BY <1>3, <1>4, <1>5

(* Each step that ends an instruction ends it as Enclave says.             *)
LEMMA QuietEnds == ASSUME KubeInv, KubeInv', Quiet, op' = "idle" PROVE E!Next
<1>1. Frame /\ op # "idle"
  BY QuietKeeps
<1>2. CASE Crash \/ Panic
  <2>1. last' = "none"
    BY <1>2 DEF Crash, Panic, Dies, Ends
  <2> QED
    BY <1>1, <2>1, EndsOnce DEF E!Next, E!Break
<1>3. CASE Finish
  <2>1. /\ op = "finish" /\ last' \in {"success", "failure"}
        /\ UNCHANGED <<reg, set, name, before, want, kind>>
    BY <1>3 DEF Finish, Ends, clusterVars, dbVars, jobVars
  <2>2. /\ name \in Names /\ kind = "add" /\ reg[name] # None /\ reg[name].status = "started"
        /\ reg[name].config = want /\ set[name] # None /\ set[name].uuid = reg[name].uuid
        /\ set[name].config = want /\ ~set[name].leaving
        /\ before[name] # None => reg[name].uuid = before[name].uuid
    BY <2>1 DEF KubeInv, Functions, JobInv, Job, Known, Before, Running
  <2>3. Seen'[name] = [uuid |-> reg[name].uuid, config |-> want, up |-> TRUE]
    BY <2>1, <2>2 DEF Seen, Registered
  <2>4. reg[name].uuid # 0
    <3>1. reg[name] \in Registration \cup {None}
      BY <2>2 DEF KubeInv, GoodInv, Good
    <3> QED
      BY <2>2, <3>1 DEF Registration
  <2>5. /\ Seen'[name] # None /\ Seen'[name].up /\ Seen'[name].config = want
        /\ before[name] # None => Seen'[name].uuid = before[name].uuid
    BY <2>2, <2>3, <2>4
  <2>6. E!End
    BY <1>1, <1>3, EndsOnce
  <2>7. CASE last' = "success"
    BY <2>1, <2>2, <2>5, <2>6, <2>7 DEF E!Next, E!Succeed, E!Deploys, E!Keeps, E!New
  <2>8. CASE last' = "failure"
    BY <2>1, <2>2, <2>5, <2>6, <2>8 DEF E!Next, E!Fail, E!Deploys, E!Keeps, E!New
  <2> QED
    BY <2>1, <2>7, <2>8
<1>4. CASE ~(Crash \/ Panic \/ Finish)
  <2>1. reg' = reg
    BY <1>4 DEF Quiet, CreateServiceFails, ListRegistered, ListRegisteredFails,
       ClaimDirectoryFails,
     CreateStatefulSetFails, WaitForPod, WaitForPodFails, AnnotatePortsFails, ReadService,
     Reading,
     PortsStayClosed, DestroyFails, dbVars
  <2>2. /\ last' = "failure"
        /\ kind = "add" /\ before[name] = None => op = "register" \/ reg[name] = None
    BY <1>4 DEF Quiet, CreateServiceFails, ListRegistered, ListRegisteredFails,
       ClaimDirectoryFails,
     CreateStatefulSetFails, WaitForPod, WaitForPodFails, AnnotatePortsFails, ReadService,
     Reading,
     PortsStayClosed, DestroyFails, Undo, GoTo, Ends, StartFails, Destroyed, Updating, Registered
  <2>3. op = "register" => reg[name] = None
    BY DEF KubeInv, JobInv, Job
  <2> QED
    BY <1>1, <2>1, <2>2, <2>3, FailureFails
<1> QED
  BY <1>2, <1>3, <1>4

LEMMA SetOrClaimEnds == ASSUME KubeInv, KubeInv', SetStep \/ ClaimStep, op' = "idle" PROVE E!Next
<1>1. Frame /\ op # "idle"
  BY SetKeeps, ClaimKeeps
<1>2. reg' = reg
  BY DEF SetStep, CreateStatefulSet, DropSet, DestroySet, StopService, StopServiceFails,
     ClaimStep,
     ClaimDirectory, DropClaim, dbVars
<1>3. CASE DropClaim /\ op = "panicClaim"
  <2>1. last' = "none"
    BY <1>3 DEF DropClaim, Ends
  <2> QED
    BY <1>1, <2>1, EndsOnce DEF E!Next, E!Break
<1>4. CASE ~(DropClaim /\ op = "panicClaim")
  <2>1. /\ last' = "failure"
        /\ kind = "add" /\ before[name] = None => op = "stop" \/ reg[name] = None
    BY <1>4 DEF SetStep, CreateStatefulSet, DropSet, DestroySet, StopService, StopServiceFails,
     ClaimStep,
       ClaimDirectory, DropClaim, GoTo, Ends, StartFails, Destroyed, Updating, Registered
  <2>2. op = "stop" => before[name] # None
    BY DEF KubeInv, JobInv, Job
  <2> QED
    BY <1>1, <1>2, <2>1, <2>2, FailureFails
<1> QED
  BY <1>3, <1>4

LEMMA RegEnds == ASSUME KubeInv, KubeInv', RegStep, op' = "idle" PROVE E!Next
<1>1. Frame /\ op # "idle"
  BY RegKeeps
<1>2. E!End
  BY <1>1, EndsOnce
<1>3. /\ name \in Names /\ name' = name /\ kind' = kind /\ want' = want /\ before' = before
      /\ DOMAIN reg = Names
  BY <1>1 DEF Frame, jobVars, KubeInv, Functions
<1>4. CASE Mark
  <2>1. /\ kind = "start" /\ op = "mark" /\ last' = "success" /\ set' = set
        /\ reg'[name] = [reg[name] EXCEPT !.status = "started"]
    BY <1>3, <1>4 DEF Mark, GoTo, Ends, clusterVars
  <2>2. /\ reg[name] # None /\ reg[name].config = want /\ set[name] # None
        /\ set[name].uuid = reg[name].uuid /\ set[name].config = want /\ ~set[name].leaving
    BY <2>1 DEF KubeInv, JobInv, Job, Known, Before, Running
  <2>3. reg[name] \in Registration
    BY <1>3, <2>2 DEF KubeInv, GoodInv, Good
  <2>4. reg'[name].status = "started" /\ Same
    BY <2>1, <2>3 DEF Registration, Same
  <2>5. Seen'[name].up
    BY <1>3, <2>1, <2>2, <2>4 DEF Seen, Registered, Same
  <2>6. Seen'[name] = [before[name] EXCEPT !.up = TRUE]
    BY <1>1, <2>1, <2>4, <2>5, StillThere
  <2> QED
    BY <1>2, <2>1, <2>6 DEF E!Next, E!Succeed, E!Sets
<1>5. CASE Stopped /\ kind = "stop"
  <2>1. /\ op = "stopped" /\ last' = "success"
        /\ reg'[name] = [reg[name] EXCEPT !.status = "stopped"]
    BY <1>3, <1>5 DEF Stopped, GoTo, Ends
  <2>2. reg[name] # None
    BY <2>1 DEF KubeInv, JobInv, Job, Known
  <2>3. reg[name] \in Registration
    BY <1>3, <2>2 DEF KubeInv, GoodInv, Good
  <2>4. reg'[name].status = "stopped" /\ Same
    BY <2>1, <2>3 DEF Registration, Same
  <2>5. Seen'[name].up = FALSE
    BY <1>3, <2>4 DEF Seen, Registered, Same
  <2>6. Seen'[name] = [before[name] EXCEPT !.up = FALSE]
    BY <1>1, <1>5, <2>4, <2>5, StillThere
  <2> QED
    BY <1>2, <1>5, <2>1, <2>6 DEF E!Next, E!Succeed, E!Sets
<1>6. CASE Stopped /\ kind = "remove"
  <2>1. last' = "success" /\ reg'[name] = None
    BY <1>3, <1>6 DEF Stopped, GoTo, Ends
  <2>2. Seen'[name] = None
    BY <1>3, <2>1 DEF Seen, Registered
  <2> QED
    BY <1>2, <1>6, <2>1, <2>2 DEF E!Next, E!Succeed
<1>7. Mark \/ (Stopped /\ kind = "stop") \/ (Stopped /\ kind = "remove")
  BY DEF RegStep, Save, PortsOpen, Mark, Unregister, Stopped, GoTo
<1> QED
  BY <1>4, <1>5, <1>6, <1>7

(* A step inside an instruction, and one of Kubernetes, is not seen.       *)
LEMMA InsideStutters == ASSUME KubeInv, Step, op' # "idle" PROVE UNCHANGED E!vars
<1>1. Frame /\ op # "idle"
  BY QuietKeeps, SetKeeps, ClaimKeeps, ServiceKeeps, ReadKeeps, RegKeeps
     DEF Step, Quiet, SetStep, ClaimStep, ServiceStep, ReadStep, RegStep
<1>2. last' = last
  BY DEF Step, CreateService, CreateServiceFails, Save, ListRegistered, ListRegisteredFails,
     ClaimDirectory,
     ClaimDirectoryFails, CreateStatefulSet, CreateStatefulSetFails, WaitForPod,
     WaitForPodFails, AnnotatePorts,
     AnnotatePortsFails, ReadService, Reading, ReadServiceFails, ReadServicePanics, DropSet,
     DropClaim,
     PortsOpen,
     PortsStayClosed, Mark,
     Finish, Unregister, DestroyService, DestroyFails, DestroySet, StopService,
     StopServiceFails, Stopped,
     Crash, Panic, Undo, Dies, StartFails, Destroyed, GoTo, Ends, runVars
<1> QED
  BY <1>1, <1>2 DEF Frame, jobVars, E!vars

LEMMA ClusterStutters == ASSUME KubeInv, NEW n \in Names, Cluster(n) PROVE UNCHANGED E!vars
<1>1. Seen' = Seen
  <2>1. \A m \in Names : Seen'[m] = Seen[m]
    BY ClusterUnseen
  <2> QED
    BY <2>1 DEF Seen
<1>2. ClusterEffect(n)
  BY ClusterIs
<1> QED
  BY <1>1, <1>2 DEF ClusterEffect, E!vars

LEMMA RequestBegins == ASSUME KubeInv, KubeInv', RequestAdd \/ RequestOther PROVE E!Next
<1>1. /\ op = "idle" /\ op' # "idle" /\ before' = Seen /\ last' = "none"
  BY DEF RequestAdd, RequestOther, Enter
<1>2. /\ kind' \in {"add", "remove", "stop", "start"} /\ want' \in Configs \cup {NoConfig} /\ name' \in Names
  BY <1>1 DEF KubeInv, JobInv, Job, Functions
<1>3. [kind |-> kind, names |-> {name}, config |-> want]' \in E!Request
  BY <1>2 DEF E!Request
<1> QED
  BY <1>1, <1>3 DEF E!Next, E!Begin

(* Seen from outside an instruction is one step: the services on           *)
(* Kubernetes implement the enclave that those on Docker implement, for    *)
(* any names and configs, and whatever fails, is lost or dies.             *)
THEOREM InstructionsAreOneStepOnKubernetes == Spec => ImplementsEnclave
<1>1. Init => E!Init
  <2> SUFFICES ASSUME Init PROVE E!Init
    OBVIOUS
  <2>1. Seen = [n \in Names |-> None] /\ op = "idle" /\ last = "none"
    BY DEF Init, Seen, Registered
  <2> QED
    BY <2>1 DEF E!Init
<1>2. KubeInv /\ KubeInv' /\ [Next]_vars => [E!Next]_(E!vars)
  <2> SUFFICES ASSUME KubeInv, KubeInv', [Next]_vars PROVE [E!Next]_(E!vars)
    OBVIOUS
  <2>1. CASE Step /\ op' = "idle"
    <3>1. ~ServiceStep /\ ~ReadStep
      BY <2>1 DEF ServiceStep, CreateService, AnnotatePorts, DestroyService, GoTo,
         ReadStep, ReadServiceFails, ReadServicePanics, Undo
    <3> QED
      BY <2>1, <3>1, QuietEnds, SetOrClaimEnds, RegEnds
         DEF Step, Quiet, SetStep, ClaimStep, ServiceStep, ReadStep, RegStep
  <2>2. CASE Step /\ op' # "idle"
    BY <2>2, InsideStutters
  <2>3. CASE UNCHANGED vars
    BY <2>3 DEF vars, clusterVars, dbVars, jobVars, runVars, E!vars, Seen, Registered
  <2> QED
    BY <2>1, <2>2, <2>3, RequestBegins, ClusterStutters DEF Next
<1> QED
  BY <1>1, <1>2, KubeInvariant, PTL DEF Spec, ImplementsEnclave, E!Spec
=============================================================================
