---------------------------- MODULE StarlarkRuns ----------------------------
(***************************************************************************)
(* The Starlark runs of one enclave: the API container's RunStarlark       *)
(* handlers (api_container_service.go), the goroutine StartosisRunner.Run  *)
(* leaves behind (startosis_runner.go), and the goroutine of               *)
(* StartosisExecutor.Execute (startosis_executor.go) with the enclave plan *)
(* it rewrites and persists.  Each run is three sequential processes: the  *)
(* handler h, the runner's goroutine g and the executor's goroutine e, on  *)
(* unbuffered channels; an e waits for g, and g for h.                     *)
(***************************************************************************)
EXTENDS PlanResolution, FiniteSets

CONSTANTS
  Scripts,        \* the scripts clients submit
  MaxRuns,        \* bound on the runs requested
  MaxCrashes,     \* bound on the crashes of the API container
  NoRun,          \* "no run"
  Failures,       \* what may go wrong: "interpret", "validate", "execute", "output", "persist"
  Clients         \* what clients may do: "overlap", "leave", "dry", "uncached"

Run == 1 .. MaxRuns

Submitted == UNION {ToSet(s) : s \in Scripts}   \* the instructions scripts are made of

ASSUME RunsAssumption ==
  /\ Scripts \subseteq Seq(Submitted) /\ NoInstruction \notin Submitted
  /\ \A i \in Submitted : i.type \in Types /\ i.name \in Names /\ i.files \subseteq Names
  /\ TasksApart(Submitted)
  /\ MaxRuns \in Nat \ {0} /\ MaxCrashes \in Nat
  /\ NoRun \notin Run
  /\ Failures \subseteq {"interpret", "validate", "execute", "output", "persist"}
  /\ Clients \subseteq {"overlap", "leave", "dry", "uncached"}

VARIABLES
  h,         \* the handler: it reads the response lines, or is gone
  g,         \* where the runner's goroutine is
  e,         \* where the executor's goroutine is
  hand,      \* the line g took from e and has not yet given to h
  script,    \* the instructions of the run's script
  options,   \* of the run: "dry", "uncached"
  sched,     \* the run's instructions plan: its index and scheduled instructions
  pos,       \* the instruction the executor is at
  plan,      \* executor.enclavePlan
  saved,     \* the plan in the enclave database
  lock,      \* who holds executor.mutex
  warnings,  \* the global warning set: the runs whose warnings are in it
  shown,     \* the warnings each run took from it for its client
  outcome,   \* what the executor or the validator ended the run with
  finished,  \* the run-finished events each client got
  state,     \* the enclave: its services and files artifacts
  before,    \* history: the enclave when the executor began the run
  ran,       \* history: the instructions executed with success
  crashes

handlerVars == <<h, finished>>
runVars     == <<script, options, sched>>
execVars    == <<e, pos, outcome, before>>
planVars    == <<plan, saved, lock>>
warnVars    == <<warnings, shown>>
enclaveVars == <<state, ran>>
vars == <<handlerVars, g, hand, runVars, execVars, planVars, warnVars, enclaveVars, crashes>>

NoPlan == [index |-> 0, seq |-> <<>>]

Init ==
  /\ h = [r \in Run |-> "none"]
  /\ g = [r \in Run |-> "none"]
  /\ e = [r \in Run |-> "none"]
  /\ hand = [r \in Run |-> "none"]
  /\ script = [r \in Run |-> <<>>]
  /\ options = [r \in Run |-> {}]
  /\ sched = [r \in Run |-> NoPlan]
  /\ pos = [r \in Run |-> 1]
  /\ plan = <<>> /\ saved = <<>> /\ lock = NoRun
  /\ warnings = {} /\ shown = [r \in Run |-> {}]
  /\ outcome = [r \in Run |-> "none"]
  /\ finished = [r \in Run |-> 0]
  /\ state = NewEnclave
  /\ before = [r \in Run |-> NewEnclave]
  /\ ran = {}
  /\ crashes = 0

Dry(r) == "dry" \in options[r]

(* A send on the run's channel goes through while the handler reads it.    *)
Reading(r) == h[r] = "reading"

-----------------------------------------------------------------------------
(* RunStarlark -> StartosisRunner.Run: clear the warnings, start the       *)
(* goroutine and read its lines.  Run's mutex is free again when it returns, *)
(* so nothing but the clients keeps two runs apart.                        *)
Request(r) ==
  /\ h[r] = "none"
  /\ \A q \in Run : q < r => h[q] = "gone" \/ ("overlap" \in Clients /\ h[q] = "reading")
  /\ \E s \in Scripts, o \in SUBSET (Clients \cap {"dry", "uncached"}) :
       /\ script' = [script EXCEPT ![r] = s]
       /\ options' = [options EXCEPT ![r] = o]
  /\ h' = [h EXCEPT ![r] = "reading"]
  /\ g' = [g EXCEPT ![r] = "interpret"]
  /\ warnings' = {}
  /\ UNCHANGED <<finished, hand, sched, execVars, planVars, shown, enclaveVars, crashes>>

(* Interpretation, against the enclave plan the executor has at this moment *)
(* (no lock is held).  A script may leave a warning in the global set.     *)
Interpret(r) ==
  /\ g[r] = "interpret" /\ Reading(r)
  /\ sched' = [sched EXCEPT ![r] = IF "uncached" \in options[r]
                                   THEN NaivePlan(script[r], plan)
                                   ELSE OptimizedPlan(script[r], plan)]
  /\ warnings' = warnings \cup {r}
  /\ g' = [g EXCEPT ![r] = "validate"]
  /\ UNCHANGED <<handlerVars, hand, script, options, execVars, planVars, shown, enclaveVars, crashes>>

(* An interpretation error: its line, the failure event, and the end.      *)
InterpretFails(r) ==
  /\ g[r] = "interpret" /\ Reading(r) /\ "interpret" \in Failures
  /\ warnings' = warnings \cup {r}
  /\ outcome' = [outcome EXCEPT ![r] = "failure"]
  /\ finished' = [finished EXCEPT ![r] = @ + 1]
  /\ g' = [g EXCEPT ![r] = "finish"]
  /\ UNCHANGED <<h, hand, runVars, e, pos, before, planVars, shown, enclaveVars, crashes>>

(* Validate: every registered service is looked up, and each instruction   *)
(* not skipped is validated after the ones before it.                      *)
Scheduled(r) == {k \in DOMAIN sched[r].seq : ~sched[r].seq[k].executed}

Invalid(r) ==
  \/ \E c \in Names : state[c] = Broken
  \/ \E j, k \in Scheduled(r) : j < k /\ Tracked(script[r][j]) /\ Tracked(script[r][k])
                                      /\ script[r][j].name = script[r][k].name
  \/ \E k \in Scheduled(r) : \E f \in script[r][k].files :
       state[f] = Missing /\ ~\E j \in Scheduled(r) : j < k /\ script[r][j].name = f

Validate(r) ==
  /\ g[r] = "validate" /\ Reading(r) /\ ~Invalid(r)
  /\ g' = [g EXCEPT ![r] = "lock"]
  /\ UNCHANGED <<handlerVars, hand, runVars, execVars, planVars, warnVars, enclaveVars, crashes>>

ValidateFails(r) ==
  /\ g[r] = "validate" /\ Reading(r) /\ (Invalid(r) \/ "validate" \in Failures)
  /\ outcome' = [outcome EXCEPT ![r] = "failure"]
  /\ finished' = [finished EXCEPT ![r] = @ + 1]
  /\ g' = [g EXCEPT ![r] = "finish"]
  /\ UNCHANGED <<h, hand, runVars, e, pos, before, planVars, warnVars, enclaveVars, crashes>>

-----------------------------------------------------------------------------
(* Execute: the runner's goroutine takes the executor's mutex, the goroutine *)
(* it starts will release it.                                              *)
LockAlways(r) ==   \* mutant: no mutex
  /\ g[r] = "lock"
  /\ lock' = r
  /\ g' = [g EXCEPT ![r] = "forward"]
  /\ e' = [e EXCEPT ![r] = "begin"]
  /\ UNCHANGED <<handlerVars, hand, runVars, pos, outcome, before, plan, saved, warnVars, enclaveVars, crashes>>

Lock(r) ==
  /\ g[r] = "lock"
  /\ lock = NoRun
  /\ lock' = r
  /\ g' = [g EXCEPT ![r] = "forward"]
  /\ e' = [e EXCEPT ![r] = "begin"]
  /\ UNCHANGED <<handlerVars, hand, runVars, pos, outcome, before, plan, saved, warnVars, enclaveVars, crashes>>

(* Everything from the index on is dropped from the plan, dry run or not.  *)
Begin(r) ==
  /\ e[r] = "begin"
  /\ plan' = Kept(plan, sched[r].index)
  /\ before' = [before EXCEPT ![r] = state]
  /\ e' = [e EXCEPT ![r] = "announce"]
  /\ UNCHANGED <<handlerVars, g, hand, runVars, pos, outcome, saved, lock, warnVars, enclaveVars, crashes>>

AtEnd(r) == pos[r] > Len(sched[r].seq)

(* The progress line and the instruction's own line.                       *)
DryRunExecutes(r) ==   \* mutant: dryRun is not looked at
  /\ e[r] = "announce" /\ ~AtEnd(r) /\ hand[r] = "none"
  /\ hand' = [hand EXCEPT ![r] = "line"]
  /\ e' = [e EXCEPT ![r] = "execute"]
  /\ UNCHANGED <<handlerVars, g, runVars, pos, outcome, before, planVars, warnVars, enclaveVars, crashes>>

Announce(r) ==
  /\ e[r] = "announce" /\ ~AtEnd(r) /\ hand[r] = "none"
  /\ hand' = [hand EXCEPT ![r] = "line"]
  /\ IF Dry(r) THEN pos' = [pos EXCEPT ![r] = @ + 1] /\ UNCHANGED e
               ELSE e' = [e EXCEPT ![r] = "execute"] /\ UNCHANGED pos
  /\ UNCHANGED <<handlerVars, g, runVars, outcome, before, planVars, warnVars, enclaveVars, crashes>>

Current(r) == sched[r].seq[pos[r]].instr

Skipped(r) == sched[r].seq[pos[r]].executed

(* An instruction that fails, or is cut short, may leave this.  A service   *)
(* may be as it was, gone, registered without container, or running (its   *)
(* readiness check failed); a command may have run, a task's files be stored. *)
Partial(i) ==
  {state} \cup
  CASE i.type \in {"add_service", "add_services"} ->
         {Applied(state, i), [state EXCEPT ![i.name] = Missing], [state EXCEPT ![i.name] = Broken]}
    [] i.type \in {"exec", "run_sh"} -> {Applied(state, i)}
    [] i.type = "upload_files" -> {}
    [] i.type = "remove_service" ->
         IF Runs(state, i.name) THEN {Applied(state, i), [state EXCEPT ![i.name] = Broken]} ELSE {}

CanExecute(i) == i.type = "exec" => Runs(state, i.name)

Execute(r) ==
  /\ e[r] = "execute"
  /\ IF Skipped(r) THEN UNCHANGED enclaveVars
     ELSE /\ CanExecute(Current(r))
          /\ state' = Applied(state, Current(r))
          /\ ran' = ran \cup {Current(r)}
  /\ e' = [e EXCEPT ![r] = "record"]
  /\ UNCHANGED <<handlerVars, g, hand, runVars, pos, outcome, before, planVars, warnVars, crashes>>

FailsAndGoesOn(r) ==   \* mutant: no return after the error
  /\ e[r] = "execute" /\ ~Skipped(r)
  /\ "execute" \in Failures \/ ~CanExecute(Current(r))
  /\ state' \in IF "execute" \in Failures THEN Partial(Current(r)) ELSE {state}
  /\ e' = [e EXCEPT ![r] = "record"]
  /\ UNCHANGED <<ran, handlerVars, g, hand, runVars, pos, outcome, before, planVars, warnVars, crashes>>

ExecuteFails(r) ==
  /\ e[r] = "execute" /\ ~Skipped(r)
  /\ "execute" \in Failures \/ ~CanExecute(Current(r))
  /\ state' \in IF "execute" \in Failures THEN Partial(Current(r)) ELSE {state}
  /\ e' = [e EXCEPT ![r] = "fail"]
  /\ UNCHANGED <<ran, handlerVars, g, hand, runVars, pos, outcome, before, planVars, warnVars, crashes>>

(* The result's line, then the instruction enters the enclave plan.        *)
RecordsOnlyNew(r) ==   \* mutant: a skipped instruction is not put back into the plan
  /\ e[r] = "record" /\ hand[r] = "none"
  /\ hand' = [hand EXCEPT ![r] = "line"]
  /\ plan' = IF Skipped(r) THEN plan ELSE Append(plan, Current(r))
  /\ pos' = [pos EXCEPT ![r] = @ + 1]
  /\ e' = [e EXCEPT ![r] = "announce"]
  /\ UNCHANGED <<handlerVars, g, runVars, outcome, before, saved, lock, warnVars, enclaveVars, crashes>>

Record(r) ==
  /\ e[r] = "record" /\ hand[r] = "none"
  /\ hand' = [hand EXCEPT ![r] = "line"]
  /\ plan' = Append(plan, Current(r))
  /\ pos' = [pos EXCEPT ![r] = @ + 1]
  /\ e' = [e EXCEPT ![r] = "announce"]
  /\ UNCHANGED <<handlerVars, g, runVars, outcome, before, saved, lock, warnVars, enclaveVars, crashes>>

(* sendErrorAndFail.                                                       *)
Fail(r) ==
  /\ e[r] = "fail" /\ hand[r] = "none"
  /\ hand' = [hand EXCEPT ![r] = "event"]
  /\ outcome' = [outcome EXCEPT ![r] = "failure"]
  /\ e' = [e EXCEPT ![r] = "persist"]
  /\ UNCHANGED <<handlerVars, g, runVars, pos, before, planVars, warnVars, enclaveVars, crashes>>

(* The end of the sequence.  The output's runtime values may not resolve.  *)
Succeed(r) ==
  /\ e[r] = "announce" /\ AtEnd(r) /\ ~Dry(r) /\ hand[r] = "none"
  /\ hand' = [hand EXCEPT ![r] = "event"]
  /\ outcome' \in {[outcome EXCEPT ![r] = o] :
                     o \in {"success"} \cup IF "output" \in Failures THEN {"failure"} ELSE {}}
  /\ e' = [e EXCEPT ![r] = "persist"]
  /\ UNCHANGED <<handlerVars, g, runVars, pos, before, planVars, warnVars, enclaveVars, crashes>>

(* A dry run only logs.                                                    *)
SucceedDry(r) ==
  /\ e[r] = "announce" /\ AtEnd(r) /\ Dry(r)
  /\ e' = [e EXCEPT ![r] = "persist"]
  /\ UNCHANGED <<handlerVars, g, hand, runVars, pos, outcome, before, planVars, warnVars, enclaveVars, crashes>>

(* The deferred calls: persist the plan (an error is only logged), then    *)
(* release the mutex and close the stream.                                 *)
NoPersist(r) ==   \* mutant: the deferred call is missing
  /\ e[r] = "persist"
  /\ UNCHANGED saved
  /\ e' = [e EXCEPT ![r] = "unlock"]
  /\ UNCHANGED <<handlerVars, g, hand, runVars, pos, outcome, before, plan, lock, warnVars, enclaveVars, crashes>>

Persist(r) ==
  /\ e[r] = "persist"
  /\ saved' = plan \/ ("persist" \in Failures /\ UNCHANGED saved)
  /\ e' = [e EXCEPT ![r] = "unlock"]
  /\ UNCHANGED <<handlerVars, g, hand, runVars, pos, outcome, before, plan, lock, warnVars, enclaveVars, crashes>>

NoUnlock(r) ==   \* mutant: the mutex is not released
  /\ e[r] = "unlock"
  /\ e' = [e EXCEPT ![r] = "closed"]
  /\ UNCHANGED <<handlerVars, g, hand, runVars, pos, outcome, before, planVars, warnVars, enclaveVars, crashes>>

Unlock(r) ==
  /\ e[r] = "unlock"
  /\ lock' = NoRun
  /\ e' = [e EXCEPT ![r] = "closed"]
  /\ UNCHANGED <<handlerVars, g, hand, runVars, pos, outcome, before, plan, saved, warnVars, enclaveVars, crashes>>

-----------------------------------------------------------------------------
(* forwardKurtosisResponseLineChannelUntilSourceIsClosed, on the executor's *)
(* stream; the handler counts the run-finished events.                     *)
Forward(r) ==
  /\ hand[r] # "none" /\ Reading(r)
  /\ finished' = IF hand[r] = "event" THEN [finished EXCEPT ![r] = @ + 1] ELSE finished
  /\ hand' = [hand EXCEPT ![r] = "none"]
  /\ UNCHANGED <<h, g, runVars, execVars, planVars, warnVars, enclaveVars, crashes>>

ForwardEnds(r) ==
  /\ g[r] = "forward" /\ hand[r] = "none" /\ e[r] = "closed"
  /\ g' = [g EXCEPT ![r] = "finish"]
  /\ UNCHANGED <<handlerVars, hand, runVars, execVars, planVars, warnVars, enclaveVars, crashes>>

(* The deferred function: take the content of the warning set (reading it  *)
(* empties it), send it and close the channel.                             *)
ClearsFirst(r) ==   \* mutant: the set is emptied before it is read
  /\ g[r] = "finish"
  /\ shown' = [shown EXCEPT ![r] = {}]
  /\ warnings' = {}
  /\ g' = [g EXCEPT ![r] = "close"]
  /\ UNCHANGED <<handlerVars, hand, runVars, execVars, planVars, enclaveVars, crashes>>

TakeWarnings(r) ==
  /\ g[r] = "finish"
  /\ shown' = [shown EXCEPT ![r] = warnings]
  /\ warnings' = {}
  /\ g' = [g EXCEPT ![r] = "close"]
  /\ UNCHANGED <<handlerVars, hand, runVars, execVars, planVars, enclaveVars, crashes>>

Close(r) ==
  /\ g[r] = "close" /\ Reading(r)
  /\ g' = [g EXCEPT ![r] = "closed"]
  /\ UNCHANGED <<handlerVars, hand, runVars, execVars, planVars, warnVars, enclaveVars, crashes>>

(* The handler returns when the channel is closed, or when the client is   *)
(* gone; then nobody reads the channel any more.                           *)
Return(r) ==
  /\ Reading(r) /\ g[r] = "closed"
  /\ h' = [h EXCEPT ![r] = "gone"]
  /\ UNCHANGED <<finished, g, hand, runVars, execVars, planVars, warnVars, enclaveVars, crashes>>

Disconnect(r) ==
  /\ "leave" \in Clients
  /\ Reading(r) /\ g[r] # "closed"
  /\ h' = [h EXCEPT ![r] = "gone"]
  /\ UNCHANGED <<finished, g, hand, runVars, execVars, planVars, warnVars, enclaveVars, crashes>>

-----------------------------------------------------------------------------
(* The API container dies and is started again: the executor starts from   *)
(* the persisted plan.  An instruction under way is cut short.             *)
LoadedPlan  == saved

Crash ==
  /\ crashes < MaxCrashes
  /\ crashes' = crashes + 1
  /\ state' \in UNION ({{state}} \cup
       {Partial(Current(r)) : r \in {q \in Run : e[q] = "execute" /\ ~Skipped(q)}})
  /\ plan' = LoadedPlan
  /\ lock' = NoRun
  /\ warnings' = {}
  /\ hand' = [r \in Run |-> "none"]
  /\ h' = [r \in Run |-> IF Reading(r) THEN "gone" ELSE h[r]]
  /\ g' = [r \in Run |-> IF g[r] \in {"none", "closed"} THEN g[r] ELSE "crashed"]
  /\ e' = [r \in Run |-> IF e[r] \in {"none", "closed"} THEN e[r] ELSE "crashed"]
  /\ UNCHANGED <<finished, runVars, pos, outcome, before, saved, shown, ran>>

Handler(r)  == Request(r) \/ Return(r) \/ Disconnect(r)
Goroutine(r) ==
  \/ Interpret(r) \/ InterpretFails(r) \/ Validate(r) \/ ValidateFails(r)
  \/ Lock(r) \/ Forward(r) \/ ForwardEnds(r) \/ TakeWarnings(r) \/ Close(r)
Executor(r) ==
  \/ Begin(r) \/ Announce(r) \/ Execute(r) \/ ExecuteFails(r) \/ Record(r)
  \/ Fail(r) \/ Succeed(r) \/ SucceedDry(r) \/ Persist(r) \/ Unlock(r)

Next == Crash \/ \E r \in Run : Handler(r) \/ Goroutine(r) \/ Executor(r)

Spec == Init /\ [][Next]_vars

(* The goroutines are scheduled and the calls of the backend return; clients *)
(* need not ask or stay.                                                   *)
Fairness == \A r \in Run : WF_vars(Goroutine(r)) /\ WF_vars(Executor(r)) /\ WF_vars(Return(r))

FairSpec == Spec /\ Fairness

-----------------------------------------------------------------------------
Statuses == {"none", "begin", "announce", "execute", "record", "fail",
             "persist", "unlock", "closed", "crashed"}

TypeOK ==
  /\ h \in [Run -> {"none", "reading", "gone"}]
  /\ g \in [Run -> {"none", "interpret", "validate", "lock", "forward", "finish", "close",
                    "closed", "crashed"}]
  /\ e \in [Run -> Statuses]
  /\ hand \in [Run -> {"none", "line", "event"}]
  /\ lock \in Run \cup {NoRun}
  /\ warnings \subseteq Run
  /\ \A r \in Run : shown[r] \subseteq Run /\ finished[r] \in 0 .. 1
  /\ \A r \in Run : e[r] = "execute" => pos[r] \in DOMAIN sched[r].seq
  /\ outcome \in [Run -> {"none", "success", "failure"}]

Executing(r) == e[r] \notin {"none", "closed", "crashed"}

(* The mutex, taken by one goroutine and released by another, keeps two    *)
(* executors apart whatever the runs, failures and clients do.             *)
ExecutorsExclude == \A r \in Run : Executing(r) => lock = r

(* The enclave changes only by the run that holds the mutex, and never by  *)
(* a dry run.                                                              *)
OnlyTheHolderChangesEnclave ==
  [][state' # state => \E r \in Run : lock = r /\ e[r] = "execute" /\ ~Dry(r)]_vars

(* An instruction is in the plan, in memory or on disk, only if it was run *)
(* with success in this enclave, so only such instructions are skipped,    *)
(* and every index stays within the plan it was computed from.             *)
RecordedWereRun ==
  /\ ToSet(plan) \cup ToSet(saved) \subseteq ran
  /\ \A r \in Run : e[r] = "execute" /\ Skipped(r) => Current(r) \in ran
PlanOK == TypeOK /\ RecordedWereRun

(* What an add_services or a run_sh makes from artifacts, or is made from  *)
(* that, may be stale.                                                     *)
Stale == MayBeStale(Submitted)

(* enclave-edits.md: a run that reports success leaves the services and    *)
(* artifacts its script names as the whole script would have left them,    *)
(* however much of it was skipped: only what may be stale may be made from *)
(* older artifacts.                                                        *)
SuccessEstablishesScript ==
  \A r \in Run :
    outcome[r] = "success" /\ e[r] \in {"persist", "unlock"} =>
      LET whole == Replay(script[r], before[r])
      IN \A k \in DOMAIN script[r] :
           Seen(state, Stale)[script[r][k].name] = Seen(whole, Stale)[script[r][k].name]

(* how-do-enclave-edits-work.md: between runs, the plan is the sequence of *)
(* instructions that made the enclave what it is, again but for what the   *)
(* components that may be stale are made from.                             *)
PlanDescribesEnclave ==
  lock = NoRun => Seen(Replay(plan, NewEnclave), Stale) = Seen(state, Stale)

(* Between runs the database holds the executor's plan.                    *)
PersistedWhenIdle == lock = NoRun => saved = plan

(* So an API container that dies between runs comes back with its plan.    *)
RestartKeepsPlan == [][crashes' # crashes /\ lock = NoRun => plan' = plan]_vars

(* A client that stays gets one run-finished event, with its own run's     *)
(* warnings and no other's, before its stream ends.                        *)
StreamsComplete == \A r \in Run : g[r] = "closed" => finished[r] = 1 /\ shown[r] = {r}

(* A run comes to its end, when its client stays.                          *)
EveryRunEnds == \A r \in Run : g[r] = "interpret" ~> g[r] \in {"closed", "crashed"}

(* Not so: nothing is stale (an add_services, and a run_sh, is equal to the *)
(* same one of the plan whatever became of the artifacts it mounts).       *)
SuccessLeavesNothingStale ==
  \A r \in Run : outcome[r] = "success" /\ e[r] = "persist" => state = Replay(script[r], before[r])

(* Not so: the execution is not interrupted by a client that closes its    *)
(* stream (nobody reads the channel that the executor sends its lines to). *)
ExecutionIsNotInterrupted == \A r \in Run : e[r] = "begin" ~> e[r] = "closed"

(* Not so: the plan is the same after a dry run, as the executor's closing *)
(* log line has it (its tail is cut off before the run is seen to be dry). *)
DryRunKeepsPlan == [][\A r \in Run : lock = r /\ Dry(r) => plan' = plan]_vars
=============================================================================
