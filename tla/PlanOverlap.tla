----------------------------- MODULE PlanOverlap -----------------------------
(***************************************************************************)
(* Every pair of an enclave plan and a submitted script over a small set   *)
(* of instructions, reached by growing the two one instruction at a time,  *)
(* and what InterpretAndOptimizePlan must make of each pair.               *)
(***************************************************************************)
EXTENDS PlanResolution

CONSTANTS
  Instructions,  \* the instructions plans and scripts are made of
  MaxPlan,       \* bound on the length of the plan
  MaxScript      \* bound on the length of the script

ASSUME OverlapAssumption ==
  /\ MaxPlan \in Nat /\ MaxScript \in Nat
  /\ NoInstruction \notin Instructions
  /\ \A i \in Instructions : i.type \in Types /\ i.name \in Names /\ i.files \subseteq Names
  /\ TasksApart(Instructions)

VARIABLES
  currentPlan,  \* the enclave plan
  newScript     \* the instructions of the submitted script

overlapVars == <<currentPlan, newScript>>

NoInstructions == currentPlan = <<>> /\ newScript = <<>>

GrowPlan ==
  /\ Len(currentPlan) < MaxPlan
  /\ \E i \in Instructions : currentPlan' = Append(currentPlan, i)
  /\ UNCHANGED newScript

GrowScript ==
  /\ Len(newScript) < MaxScript
  /\ \E i \in Instructions : newScript' = Append(newScript, i)
  /\ UNCHANGED currentPlan

Grow == GrowPlan \/ GrowScript

OverlapSpec == NoInstructions /\ [][Grow]_overlapVars

-----------------------------------------------------------------------------
(* What the search is for.  A script lies over the plan from an index on   *)
(* when it covers the rest of the plan, slot by slot.                      *)
SameSlot(i, other) ==
  \/ i = other /\ i.type # "remove_service"
  \/ Tracked(i) /\ i.type = other.type /\ i.name = other.name

LiesOver(s, p, from) ==
  /\ Len(p) - from <= Len(s)
  /\ \A k \in 1 .. Len(p) - from : SameSlot(s[k], p[from + k])
  /\ \A k \in DOMAIN s : s[k].type # "remove_service"

Optimized == OptimizedPlan(newScript, currentPlan)

(* The result keeps a prefix of the plan and schedules the instructions of *)
(* the script, each once and in their order, whatever attempts failed first. *)
SearchOK ==
  /\ currentPlan \in Seq(Instructions) /\ newScript \in Seq(Instructions)
  /\ Optimized.index \in 0 .. Len(currentPlan)
  /\ [k \in DOMAIN Optimized.seq |-> Optimized.seq[k].instr] = newScript

(* how-do-enclave-edits-work.md: the overlap between the script and the    *)
(* tail of the plan is as long as it can be, and what the rejected         *)
(* attempts scheduled is not in the result.                                *)
LargestOverlap ==
  /\ SearchOK
  /\ newScript # <<>> =>
      Optimized.index =
        Min({from \in 0 .. Len(currentPlan) - 1 : LiesOver(newScript, currentPlan, from)}
              \cup {Len(currentPlan)})

(* Skipping is invisible: running the optimised plan in the enclave its    *)
(* plan describes leaves what running the whole script there would leave,  *)
(* but for what an add_services or run_sh of the two makes from artifacts. *)
SkippingIsInvisible ==
  WellFormed(newScript) =>
    LET here  == Replay(currentPlan, NewEnclave)
        stale == MayBeStale(ToSet(currentPlan) \cup ToSet(newScript))
    IN Seen(RunPlan(Optimized.seq, here), stale) = Seen(Replay(newScript, here), stale)

(* Not so: it leaves just that (the comment of add_services.go, line 309,  *)
(* has it that files are looked at; the return of line 247 comes before).  *)
SkippingIsNeverSeen ==
  WellFormed(newScript) =>
    LET here == Replay(currentPlan, NewEnclave)
    IN RunPlan(Optimized.seq, here) = Replay(newScript, here)
=============================================================================
