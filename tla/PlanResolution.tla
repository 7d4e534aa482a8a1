--------------------------- MODULE PlanResolution ---------------------------
(***************************************************************************)
(* How a submitted script is laid over the instructions already run in an  *)
(* enclave: TryResolveWith of the instructions, one interpretation under a *)
(* mask, and the search of InterpretAndOptimizePlan.  Then what replaying  *)
(* a sequence of instructions makes of an enclave.                         *)
(*                                                                         *)
(* An instruction is a record: its type, the service it names or the       *)
(* artifact it makes, its argument (a service configuration, the contents  *)
(* of an artifact, a command) and the artifacts it mounts.  An add_services *)
(* adds one service, a run_sh stores one artifact.                         *)
(***************************************************************************)
EXTENDS Integers, SequencesExt

CONSTANTS
  Names,         \* the services and files artifacts scripts may name
  NoInstruction  \* an empty slot of the mask

Types == {"add_service", "add_services", "upload_files", "run_sh", "exec", "remove_service"}

(* Instructions whose component is marked, and those that make or change   *)
(* the component they name.                                                *)
Tracked(i)  == i.type \in {"add_service", "add_services", "upload_files"}
Resource(i) == Tracked(i) \/ i.type = "run_sh"

-----------------------------------------------------------------------------
(* TryResolveWith.  `updated` are the components marked ComponentIsUpdated. *)

SameName(i, other) == other.type = i.type /\ other.name = i.name

IgnoresFiles(i, other, updated) ==   \* mutant: mounted artifacts not looked at
  CASE ~SameName(i, other) -> "unknown"
    [] SameName(i, other) /\ i # other -> "update"
    [] i = other -> "equal"

ResolveService(i, other, updated) ==
  CASE ~SameName(i, other) -> "unknown"
    [] SameName(i, other) /\ i # other -> "update"
    [] i = other -> IF i.files \cap updated # {} THEN "update" ELSE "equal"

(* An add_services that is the same is never run again, whatever became of *)
(* the artifacts it mounts: it is resolved as an upload_files is, whose    *)
(* contents stand for the MD5 sum as well as for the source path.          *)
ResolveNamed(i, other) ==
  CASE ~SameName(i, other) -> "unknown"
    [] SameName(i, other) /\ i # other -> "update"
    [] i = other -> "equal"

(* Nor is a run_sh.                                                        *)
ResolveTask(i, other) == IF i = other THEN "equal" ELSE "unknown"

ResolveExec(i, other, updated) ==
  CASE i # other -> "unknown"
    [] i = other -> IF i.name \in updated THEN "update" ELSE "equal"

NotResolvable(i) == i.type = "remove_service"

Resolve(i, other, updated) ==
  IF NotResolvable(i) THEN "abort"
  ELSE IF other = NoInstruction THEN "unknown"
  ELSE CASE i.type = "add_service"  -> ResolveService(i, other, updated)
         [] i.type \in {"add_services", "upload_files"} -> ResolveNamed(i, other)
         [] i.type = "run_sh"       -> ResolveTask(i, other)
         [] i.type = "exec"         -> ResolveExec(i, other, updated)

(* The component's status after the resolution.                            *)
Marked(i, status, updated) ==
  IF ~Tracked(i) THEN updated
  ELSE IF status = "update" THEN updated \cup {i.name} ELSE updated \ {i.name}

(* A difference or an abort invalidates the mask, an empty slot does not.  *)
Accepts(status, other) ==
  status # "abort" /\ (status = "unknown" => other = NoInstruction)

-----------------------------------------------------------------------------
(* Interpret with a mask filled from plan[from+1] on.                      *)
MaskAt(plan, from, k) == IF from + k <= Len(plan) THEN plan[from + k] ELSE NoInstruction

(* One instruction laid over one slot of the mask.                         *)
Laid(acc, i, other) ==
  LET status == Resolve(i, other, acc.updated)
  IN [updated |-> Marked(i, status, acc.updated),
      seq     |-> Append(acc.seq, [instr |-> i, executed |-> status = "equal"]),
      valid   |-> acc.valid /\ Accepts(status, other)]

Interpretation(script, plan, from, updated) ==
  LET laid[k \in 0 .. Len(script)] ==
        IF k = 0 THEN [updated |-> updated, seq |-> <<>>, valid |-> TRUE]
        ELSE Laid(laid[k - 1], script[k], MaskAt(plan, from, k))
  IN laid[Len(script)]

Unresolved(script) == [k \in DOMAIN script |-> [instr |-> script[k], executed |-> FALSE]]

(* findFirstEqualInstructionPastIndex: the indices it may return.          *)
Matches(script, plan, min) ==
  {i \in min .. Len(plan) - 1 :
     script # <<>> /\ Resolve(script[1], plan[i + 1], {}) \in {"equal", "update"}}

(* The first index tried leaves no more of the plan than the script covers. *)
FromTheStart(script, plan) == 0   \* mutant: the tail of the plan may stick out
FirstPossible(script, plan) == IF Len(plan) > Len(script) THEN Len(plan) - Len(script) ELSE 0

(* One turn of the loop.  The components of a rejected attempt are handed  *)
(* to the next one, and the minimum index grows by one, not past the match. *)
Attempt(script, plan, acc, min) ==
  LET from == IF Matches(script, plan, min) = {} THEN Len(plan)
              ELSE Min(Matches(script, plan, min))
      try  == Interpretation(script, plan, from, acc.updated)
  IN IF acc.found THEN acc
     ELSE IF from = Len(plan)
       THEN [found |-> TRUE, index |-> from, seq |-> Unresolved(script), updated |-> acc.updated]
       ELSE [found |-> try.valid, index |-> from, seq |-> try.seq, updated |-> try.updated]

NaivePlan(script, plan) ==   \* also the result of a run without instructions caching
  [index |-> 0, seq |-> Unresolved(script)]

(* InterpretAndOptimizePlan: an attempt from every minimum index, until    *)
(* one succeeds.                                                           *)
OptimizedPlan(script, plan) ==
  LET first == FirstPossible(script, plan)
      tried[min \in first .. Len(plan) + 1] ==   \* after the attempts below min
        IF min = first THEN [found |-> FALSE, index |-> 0, seq |-> <<>>, updated |-> {}]
        ELSE Attempt(script, plan, tried[min - 1], min - 1)
      last == tried[Len(plan) + 1]
  IN [index |-> last.index, seq |-> last.seq]

-----------------------------------------------------------------------------
(* The enclave.  A component is a service or an artifact: its configuration *)
(* (contents, or the command that made it), the artifacts it was made from *)
(* as they were when it was made, and the commands run in it since.        *)
Component(config, mounts, execs) == [config |-> config, mounts |-> mounts, execs |-> execs]

Missing == Component("missing", {}, {})
Broken  == Component("broken", {}, {})    \* a registration without a container

Runs(state, name) == state[name].config \notin {"missing", "broken"}

(* What a component is made from: the artifacts mounted, and what they were *)
(* made from.                                                              *)
Mounted(state, i) ==
  {<<f, state[f].config>> : f \in i.files} \cup UNION {state[f].mounts : f \in i.files}

(* What the instructions do when they succeed.  Adding a registered service *)
(* updates it, that is, starts a container anew.                           *)
ServiceAdded(state, i) == [state EXCEPT ![i.name] = Component(i.arg, Mounted(state, i), {})]

FilesUploaded(state, i) == [state EXCEPT ![i.name] = Component(i.arg, {}, {})]

(* The task's service is removed when it has ended, and its files replace   *)
(* those of the artifact.                                                  *)
FilesStored(state, i) == [state EXCEPT ![i.name] = Component(i.arg, Mounted(state, i), {})]

CommandRun(state, i) ==
  IF Runs(state, i.name)
  THEN [state EXCEPT ![i.name] = [state[i.name] EXCEPT !.execs = @ \cup {i.arg}]]
  ELSE state

ServiceRemoved(state, i) == [state EXCEPT ![i.name] = Missing]   \* an unknown one: no error

Applied(state, i) ==
  CASE i.type \in {"add_service", "add_services"} -> ServiceAdded(state, i)
    [] i.type = "upload_files"   -> FilesUploaded(state, i)
    [] i.type = "run_sh"         -> FilesStored(state, i)
    [] i.type = "exec"           -> CommandRun(state, i)
    [] i.type = "remove_service" -> ServiceRemoved(state, i)

Replay(instrs, state) ==
  LET after[k \in 0 .. Len(instrs)] ==
        IF k = 0 THEN state ELSE Applied(after[k - 1], instrs[k])
  IN after[Len(instrs)]

NewEnclave == [c \in Names |-> Missing]

(* Replay the instructions a plan does not skip.                           *)
RunPlan(seq, state) ==
  LET after[k \in 0 .. Len(seq)] ==
        IF k = 0 THEN state
        ELSE IF seq[k].executed THEN after[k - 1] ELSE Applied(after[k - 1], seq[k].instr)
  IN after[Len(seq)]

(* PartialDeepClone, then the appended instructions.                       *)
Kept(plan, index) == SubSeq(plan, 1, IF index < Len(plan) THEN index ELSE Len(plan))

-----------------------------------------------------------------------------
(* An add_services or a run_sh that is the same as before is skipped though *)
(* artifacts it mounts have changed.  So what it makes, and what is made   *)
(* from that, may be stale: made from artifacts that are no longer there.  *)
Heedless(i) == i.type \in {"add_services", "run_sh"} /\ i.files # {}

Spreads(T, instrs) == \A i \in instrs : Heedless(i) \/ i.files \cap T # {} => i.name \in T

MayBeStale(instrs) == {c \in Names : \A T \in SUBSET Names : Spreads(T, instrs) => c \in T}

(* The enclave but for what the components that may be stale are made from. *)
Seen(state, stale) ==
  [c \in Names |-> IF c \in stale THEN [state[c] EXCEPT !.mounts = {}] ELSE state[c]]

(* What stores an artifact and what uploads one, or names a service, have  *)
(* names of their own.                                                     *)
TasksApart(instrs) ==
  \A i, j \in instrs : i.type = "run_sh" /\ j.name = i.name => j.type = "run_sh"

(* A script names a component before it uses it, and makes it once.        *)
DependsOn(i, j) == Resource(j) /\ (j.name \in i.files \/ (i.type = "exec" /\ i.name = j.name))

WellFormed(s) ==
  \A j, k \in DOMAIN s :
    /\ DependsOn(s[j], s[k]) => k < j
    /\ Resource(s[j]) /\ Resource(s[k]) /\ s[j].name = s[k].name => j = k

=============================================================================
