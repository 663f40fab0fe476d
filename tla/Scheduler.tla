------------------------------ MODULE Scheduler ------------------------------
(***************************************************************************)
(* One execution of a validated plan: schedule_plan, its waves, the worker *)
(* threads that run steps with retries, and the ExecutionControl through   *)
(* which another thread, a handler or the user's Ctrl-C cancels the run    *)
(* (engine/scheduler.py, engine/executor.py, core/artifacts.py).           *)
(*                                                                         *)
(* There is one main thread, whose position is pc, one worker per          *)
(* submitted step, whose position is w[s], and the canceller.  A step is   *)
(* atomic up to the next read or write of state that another thread uses.  *)
(* Validation has made identities unique, so a step's identity is its plan *)
(* index.  Progress callbacks, timestamps and texts are left out.          *)
(***************************************************************************)
EXTENDS PlanGraph, Integers

CONSTANTS
  Plans,            \* the plans that may be executed
  Kinds,            \* artifact kinds
  MaxConcurrency,   \* SchedulerOptions.max_concurrency
  HandlerOutcomes   \* what handlers may answer

StepOK(p, s) ==
  /\ p[s].id = s
  /\ DependsOn(p, s) \subseteq DOMAIN p
  /\ \A d \in p[s].deps : d.optional \in BOOLEAN /\ d.needs \subseteq Kinds
  /\ p[s].max \in Nat \ {0}
  /\ p[s].backoff \in BOOLEAN
  /\ p[s].retryable \subseteq Outcomes
  /\ p[s].group \in Int

ASSUME PlansOK ==
  \A p \in Plans : /\ Len(p) \in Nat /\ DOMAIN p = 1 .. Len(p)
                   /\ \A s \in DOMAIN p : StepOK(p, s)

ASSUME ConcurrencyOK == MaxConcurrency \in Nat \ {0}

ASSUME HandlerOutcomesOK == HandlerOutcomes \subseteq Outcomes

AllSteps == UNION {DOMAIN p : p \in Plans}

VARIABLES
  plan,
  pc,           \* position of the main thread
  placed,       \* steps of the groups the loop has reached
  wave,         \* steps handed to the current _run_wave
  pending,      \* those of them not yet submitted
  running,      \* submitted steps whose future has not been collected
  results,      \* collected steps of the wave, not yet merged
  interrupted,  \* _run_wave saw a KeyboardInterrupt
  w,            \* position of each step's worker
  attempt,      \* the attempt a worker is at
  seen,         \* the evidence snapshot submitted with a step
  result,       \* the step's StepResult once there is one
  recorded,     \* steps with a result slot
  store,        \* steps whose artifacts are in the ArtifactStore, in order
  cancel,       \* how far ExecutionControl.cancel has come
  life,         \* events emitted for each step
  planLog,      \* events emitted for the plan
  late          \* history: attempts started though already cancelled

mainVars == <<pc, placed, wave, pending, running, results, interrupted>>
workVars == <<w, attempt, seen, result>>
vars == <<plan, mainVars, workVars, recorded, store, cancel, life, planLog, late>>

Steps == DOMAIN plan

NoResult == [outcome |-> "none", kinds |-> {}]
Skipped  == [outcome |-> "skipped", kinds |-> {}]
Failed   == [outcome |-> "failed", kinds |-> {}]

Least(S) == CHOOSE s \in S : \A t \in S : s <= t

\* cancel() sets the flag, then the reason, then the event (scheduler.py:54-57).
NotCancelled == 0
EventSet == 3
Cancelled == cancel # NotCancelled
Raised(level) == IF level = NotCancelled THEN 1 ELSE level

\* ArtifactStore.has over the artifacts of a sequence of steps.
KindsOf(steps) == UNION {result[steps[i]].kinds : i \in DOMAIN steps}

Log(s, event) == life' = [life EXCEPT ![s] = Append(@, event)]

-----------------------------------------------------------------------------
Init ==
  /\ plan \in Plans
  /\ pc = "start"
  /\ placed = {} /\ wave = {} /\ pending = {} /\ running = {} /\ results = {}
  /\ interrupted = FALSE
  /\ w = [s \in Steps |-> "idle"]
  /\ attempt = [s \in Steps |-> 0]
  /\ seen = [s \in Steps |-> <<>>]
  /\ result = [s \in Steps |-> NoResult]
  /\ recorded = {}
  /\ store = <<>>
  /\ cancel \in {NotCancelled, EventSet}
  /\ life = [s \in Steps |-> <<>>]
  /\ planLog = <<>>
  /\ late = [s \in Steps |-> 0]

(***************************************************************************)
(* The main thread: schedule_plan.                                         *)
(***************************************************************************)
Start ==
  /\ pc = "start"
  /\ planLog' = Append(planLog, "started")
  /\ pc' = "group"
  /\ UNCHANGED <<plan, placed, wave, pending, running, results, interrupted,
                 workVars, recorded, store, cancel, life, late>>

\* Mutant: a skipped dependency does not count as unavailable.
DependencySkip_FailedOnly(s) ==
  \/ \E d \in RequiredDeps(plan, s) :
       d.on \in recorded /\ result[d.on].outcome = "failed"
  \/ ~ (RequiredKinds(plan, s) \subseteq KindsOf(store))

\* Mutant: an optional dependency counts as a required one.
DependencySkip_Optional(s) ==
  \/ \E d \in plan[s].deps :
       d.on \in recorded /\ result[d.on].outcome \in {"failed", "skipped"}
  \/ ~ (RequiredKinds(plan, s) \subseteq KindsOf(store))

\* _dependency_skip: a required dependency ended badly, or a required kind of
\* artifact is not in the store.
DependencySkip(s) ==
  \/ \E d \in RequiredDeps(plan, s) :
       d.on \in recorded /\ result[d.on].outcome \in {"failed", "skipped"}
  \/ ~ (RequiredKinds(plan, s) \subseteq KindsOf(store))

\* The next group: its unavailable steps are skipped, the others queued.
TakeGroup ==
  LET group == NextGroup(plan, placed)
      skip  == {s \in group : DependencySkip(s)}
  IN  /\ pc = "group"
      /\ placed # Steps
      /\ ~Cancelled
      /\ placed' = placed \union group
      /\ wave' = group \ skip
      /\ pending' = group \ skip
      /\ result' = [s \in Steps |-> IF s \in skip THEN Skipped ELSE result[s]]
      /\ recorded' = recorded \union skip
      /\ life' = [s \in Steps |->
                    CASE s \in skip         -> Append(life[s], "skipped")
                      [] s \in group \ skip -> Append(life[s], "queued")
                      [] OTHER              -> life[s]]
      /\ pc' = IF group \ skip = {} THEN "group" ELSE "submit"
      /\ UNCHANGED <<plan, running, results, interrupted, w, attempt, seen,
                     store, cancel, planLog, late>>

LeaveLoop ==
  /\ pc = "group"
  /\ placed = Steps \/ Cancelled
  /\ pc' = "finish"
  /\ UNCHANGED <<plan, placed, wave, pending, running, results, interrupted,
                 workVars, recorded, store, cancel, life, planLog, late>>

(***************************************************************************)
(* The main thread: _run_wave.  Once it has called control.cancel() itself *)
(* it does nothing else before that call is through.                       *)
(***************************************************************************)
MainReady == interrupted => cancel = EventSet

\* Mutant: one submission too many.
CanSubmit_OneMore ==
  /\ pending # {}
  /\ Cardinality(running) <= MaxConcurrency
  /\ ~Cancelled

CanSubmit ==
  /\ pending # {}
  /\ Cardinality(running) < MaxConcurrency
  /\ ~Cancelled

Submit ==
  LET s == Least(pending)
  IN  /\ pc = "submit" /\ MainReady
      /\ CanSubmit
      /\ pending' = pending \ {s}
      /\ running' = running \union {s}
      /\ w' = [w EXCEPT ![s] = "submitted"]
      /\ attempt' = [attempt EXCEPT ![s] = 1]
      /\ seen' = [seen EXCEPT ![s] = store]
      /\ UNCHANGED <<plan, pc, placed, wave, results, interrupted, result,
                     recorded, store, cancel, life, planLog, late>>

StopSubmitting ==
  /\ pc = "submit" /\ MainReady
  /\ ~CanSubmit
  /\ pc' = IF running = {} THEN "shutdown" ELSE "wait"
  /\ UNCHANGED <<plan, placed, wave, pending, running, results, interrupted,
                 workVars, recorded, store, cancel, life, planLog, late>>

\* Mutant: a future that holds an exception is never taken.
Done_ReturnedOnly == {s \in running : w[s] = "returned"}

\* The finished futures.
Done == {s \in running : w[s] \in {"returned", "raised", "broken"}}

\* Mutant: what a worker raised is dropped.
Broken_Dropped == {}

\* Those whose future.result() raises an Exception: their steps failed.
Broken == {s \in Done : w[s] = "broken"}

\* wait(..., FIRST_COMPLETED) returned: take every finished future.  One that
\* raised KeyboardInterrupt makes the main thread cancel the run.
Collect ==
  LET raised == {s \in Done : w[s] = "raised"}
  IN  /\ pc = "wait" /\ Done # {}
      /\ running' = running \ Done
      /\ results' = results \union {s \in Done : w[s] = "returned"} \union Broken
      /\ result' = [s \in Steps |-> IF s \in Broken THEN Failed ELSE result[s]]
      /\ interrupted' = (interrupted \/ raised # {})
      /\ cancel' = IF raised # {} THEN Raised(cancel) ELSE cancel
      /\ pc' = "submit"
      /\ UNCHANGED <<plan, placed, wave, pending, w, attempt, seen, recorded, store,
                     life, planLog, late>>

\* Ctrl-C reaches the main thread inside the try block of _run_wave.
InterruptWave ==
  /\ pc \in {"submit", "wait"} /\ MainReady
  /\ interrupted' = TRUE
  /\ cancel' = Raised(cancel)
  /\ pc' = "shutdown"
  /\ UNCHANGED <<plan, placed, wave, pending, running, results, workVars,
                 recorded, store, life, planLog, late>>

\* pool.shutdown(cancel_futures=True): futures no thread has picked up yet
\* are withdrawn ...
Shutdown ==
  /\ pc = "shutdown" /\ MainReady
  /\ w' = [s \in Steps |-> IF w[s] = "submitted" THEN "withdrawn" ELSE w[s]]
  /\ pc' = "join"
  /\ UNCHANGED <<plan, placed, wave, pending, running, results, interrupted,
                 attempt, seen, result, recorded, store, cancel, life, planLog, late>>

\* Mutant: a worker that sleeps before its next attempt is forgotten.
Busy_NotBackoff == {s \in Steps : w[s] \in {"armed", "executing", "again"}}

\* The workers a pool thread is occupied with.
Busy == {s \in Steps : w[s] \in {"armed", "executing", "backoff", "again"}}

\* An interrupted wave has no results.
WaveResults == IF interrupted THEN {} ELSE results

\* ... and wait=True: the others finish.
Join ==
  /\ pc = "join"
  /\ Busy = {}
  /\ running' = {}
  /\ pending' = {}
  /\ results' = WaveResults
  /\ pc' = "merge"
  /\ UNCHANGED <<plan, placed, wave, interrupted, workVars, recorded, store,
                 cancel, life, planLog, late>>

(***************************************************************************)
(* The main thread: results are merged in plan order, the run reported.    *)
(***************************************************************************)
\* Mutant: results are merged in the order they come in.
Merge_AnyOrder ==
  \E s \in results :
    /\ pc = "merge"
    /\ results' = results \ {s}
    /\ recorded' = recorded \union {s}
    /\ store' = IF result[s].kinds = {} THEN store ELSE Append(store, s)
    /\ UNCHANGED <<plan, pc, placed, wave, pending, running, interrupted,
                   workVars, cancel, life, planLog, late>>

\* Mutant: the latest artifacts take the place of those before.
Merge_LatestOnly ==
  LET s == Least(results)
  IN  /\ pc = "merge" /\ results # {}
      /\ results' = results \ {s}
      /\ recorded' = recorded \union {s}
      /\ store' = IF result[s].kinds = {} THEN store ELSE <<s>>
      /\ UNCHANGED <<plan, pc, placed, wave, pending, running, interrupted,
                     workVars, cancel, life, planLog, late>>

Merge ==
  LET s == Least(results)
  IN  /\ pc = "merge" /\ results # {}
      /\ results' = results \ {s}
      /\ recorded' = recorded \union {s}
      /\ store' = IF result[s].kinds = {} THEN store ELSE Append(store, s)
      /\ UNCHANGED <<plan, pc, placed, wave, pending, running, interrupted,
                     workVars, cancel, life, planLog, late>>

EndWave ==
  /\ pc = "merge" /\ results = {}
  /\ wave' = {}
  /\ pc' = "group"
  /\ UNCHANGED <<plan, placed, pending, running, results, interrupted, workVars,
                 recorded, store, cancel, life, planLog, late>>

\* Mutant: only a Ctrl-C is reported as a cancellation.
ReportCancelled_InterruptOnly ==
  /\ pc = "finish"
  /\ planLog' = IF interrupted THEN Append(planLog, "cancelled") ELSE planLog
  /\ pc' = "complete"
  /\ UNCHANGED <<plan, placed, wave, pending, running, results, interrupted,
                 workVars, recorded, store, cancel, life, late>>

ReportCancelled ==
  /\ pc = "finish"
  /\ planLog' = IF Cancelled THEN Append(planLog, "cancelled") ELSE planLog
  /\ pc' = "complete"
  /\ UNCHANGED <<plan, placed, wave, pending, running, results, interrupted,
                 workVars, recorded, store, cancel, life, late>>

\* plan.completed reads control.cancelled once more.
ReportCompleted ==
  /\ pc = "complete"
  /\ planLog' = Append(planLog, IF Cancelled THEN "ended-cancelled" ELSE "ended")
  /\ pc' = "done"
  /\ UNCHANGED <<plan, placed, wave, pending, running, results, interrupted,
                 workVars, recorded, store, cancel, life, late>>

\* Ctrl-C outside that try block leaves schedule_plan by the exception; worker
\* threads and futures nobody withdrew stay behind.
Escape ==
  /\ pc \in {"start", "group", "shutdown", "join", "merge", "finish", "complete"}
  /\ MainReady
  /\ pc' = "escaped"
  /\ UNCHANGED <<plan, placed, wave, pending, running, results, interrupted,
                 workVars, recorded, store, cancel, life, planLog, late>>

(***************************************************************************)
(* A worker: _execute_with_retries.                                        *)
(***************************************************************************)
Answer(s, r, event) ==
  /\ result' = [result EXCEPT ![s] = r]
  /\ w' = [w EXCEPT ![s] = "returned"]
  /\ Log(s, event)

PoolSize == IF MaxConcurrency < Cardinality(wave) THEN MaxConcurrency
                                                 ELSE Cardinality(wave)

\* Mutant: cancellation is checked before the first attempt only.
Begin_FirstCheckOnly(s) ==
  /\ \/ w[s] = "submitted" /\ Cardinality(Busy) < PoolSize
     \/ w[s] = "again"
  /\ \/ /\ Cancelled /\ w[s] = "submitted"
        /\ Answer(s, Skipped, "skipped")
     \/ /\ ~ (Cancelled /\ w[s] = "submitted")
        /\ w' = [w EXCEPT ![s] = "armed"]
        /\ UNCHANGED <<result, life>>
  /\ UNCHANGED <<plan, mainVars, attempt, seen, recorded, store, cancel, planLog, late>>

\* A pool thread picks up the future, or the next attempt of the loop begins:
\* the cancellation check at its top.
Begin(s) ==
  /\ \/ w[s] = "submitted" /\ Cardinality(Busy) < PoolSize
     \/ w[s] = "again"
  /\ \/ /\ Cancelled
        /\ Answer(s, Skipped, "skipped")
     \/ /\ ~Cancelled
        /\ w' = [w EXCEPT ![s] = "armed"]
        /\ UNCHANGED <<result, life>>
  /\ UNCHANGED <<plan, mainVars, attempt, seen, recorded, store, cancel, planLog, late>>

StartAttempt(s) ==
  /\ w[s] = "armed"
  /\ Log(s, "started")
  /\ late' = IF Cancelled THEN [late EXCEPT ![s] = @ + 1] ELSE late
  /\ w' = [w EXCEPT ![s] = "executing"]
  /\ UNCHANGED <<plan, mainVars, attempt, seen, result, recorded, store, cancel, planLog>>

\* execute_step: the evidence is checked again; then the handler answers or
\* raises an Exception, which counts as a failure without artifacts.
Replies(s) ==
  IF ~ (RequiredKinds(plan, s) \subseteq KindsOf(seen[s])) THEN {Skipped}
  ELSE [outcome : HandlerOutcomes, kinds : SUBSET Kinds] \union {Failed}

\* The code asks for result.ok, which StepResult makes true of every outcome but
\* these two; of "failed" handlers leave it false.
TerminalEvent(outcome) ==
  CASE outcome = "skipped" -> "skipped"
    [] outcome = "failed"  -> "failed"
    [] OTHER               -> "completed"

\* Mutant: one attempt too many.
CanRetry_OneMore(s, r) ==
  attempt[s] <= plan[s].max /\ r.outcome \in plan[s].retryable

CanRetry(s, r) ==
  attempt[s] < plan[s].max /\ r.outcome \in plan[s].retryable

Execute(s) ==
  /\ w[s] = "executing"
  /\ \E r \in Replies(s) :
       \/ /\ ~CanRetry(s, r)
          /\ Answer(s, r, TerminalEvent(r.outcome))
          /\ UNCHANGED attempt
       \/ /\ CanRetry(s, r)
          /\ Log(s, "retrying")
          /\ w' = [w EXCEPT ![s] = IF plan[s].backoff THEN "backoff" ELSE "again"]
          /\ attempt' = [attempt EXCEPT ![s] = @ + 1]
          /\ UNCHANGED result
  /\ UNCHANGED <<plan, mainVars, seen, recorded, store, cancel, planLog, late>>

\* A handler raised KeyboardInterrupt: the future holds the exception.
ExecuteInterrupted(s) ==
  /\ w[s] = "executing"
  /\ w' = [w EXCEPT ![s] = "raised"]
  /\ UNCHANGED <<plan, mainVars, attempt, seen, result, recorded, store, cancel,
                 life, planLog, late>>

\* A handler answered with what is no StepResult: the worker trips over it, after
\* the last attempt or before, and the future holds its Exception.
ExecuteBroken(s) ==
  /\ w[s] = "executing"
  /\ w' = [w EXCEPT ![s] = "broken"]
  /\ UNCHANGED <<plan, mainVars, attempt, seen, result, recorded, store, cancel,
                 life, planLog, late>>

\* control.wait(backoff): true only once the event is set.
Backoff(s) ==
  /\ w[s] = "backoff"
  /\ \/ /\ cancel = EventSet
        /\ Answer(s, Skipped, "skipped")
     \/ /\ cancel # EventSet
        /\ w' = [w EXCEPT ![s] = "again"]
        /\ UNCHANGED <<result, life>>
  /\ UNCHANGED <<plan, mainVars, attempt, seen, recorded, store, cancel, planLog, late>>

Worker(s) == Begin(s) \/ StartAttempt(s) \/ Execute(s) \/ Backoff(s)

(***************************************************************************)
(* Cancellation from outside, and the steps of any cancel() under way.     *)
(***************************************************************************)
Over == pc \in {"done", "escaped"}

RequestCancel ==
  /\ cancel = NotCancelled
  /\ ~Over
  /\ cancel' = 1
  /\ UNCHANGED <<plan, mainVars, workVars, recorded, store, life, planLog, late>>

CancelStep ==
  /\ cancel \in NotCancelled + 1 .. EventSet - 1
  /\ cancel' = cancel + 1
  /\ UNCHANGED <<plan, mainVars, workVars, recorded, store, life, planLog, late>>

Main ==
  \/ Start \/ TakeGroup \/ LeaveLoop
  \/ Submit \/ StopSubmitting \/ Collect \/ Shutdown \/ Join
  \/ Merge \/ EndWave \/ ReportCancelled \/ ReportCompleted

\* Nothing is left to do: the run returned or was left, and its threads ended.
Settled ==
  /\ Over
  /\ \A s \in Steps : w[s] \notin {"submitted", "armed", "executing", "backoff", "again"}
  /\ cancel \in {NotCancelled, EventSet}
  /\ UNCHANGED vars

Next ==
  \/ Main
  \/ InterruptWave \/ Escape
  \/ \E s \in Steps : Worker(s) \/ ExecuteInterrupted(s) \/ ExecuteBroken(s)
  \/ RequestCancel \/ CancelStep
  \/ Settled

(***************************************************************************)
(* The main thread is scheduled, handlers return (every command they run   *)
(* has a timeout), backoffs end and a cancel() that began comes to its     *)
(* end.  Nobody has to cancel or interrupt.                                *)
(***************************************************************************)
Fairness ==
  /\ WF_vars(Main)
  /\ \A s \in AllSteps : WF_vars(s \in Steps /\ Worker(s))
  /\ WF_vars(CancelStep)

Spec == Init /\ [][Next]_vars /\ Fairness

-----------------------------------------------------------------------------
Positions == {"idle", "submitted", "withdrawn", "armed", "executing", "backoff",
              "again", "returned", "raised", "broken"}
MainPositions == {"start", "group", "submit", "wait", "shutdown", "join", "merge",
                  "finish", "complete", "done", "escaped"}
Events == {"queued", "started", "retrying", "completed", "failed", "skipped"}
PlanEvents == {"started", "cancelled", "ended", "ended-cancelled"}
Results == [outcome : Outcomes \union {"none"}, kinds : SUBSET Kinds]

TypeOK ==
  /\ plan \in Plans
  /\ pc \in MainPositions
  /\ placed \subseteq Steps /\ wave \subseteq Steps /\ pending \subseteq Steps
  /\ running \subseteq Steps /\ results \subseteq Steps /\ recorded \subseteq Steps
  /\ interrupted \in BOOLEAN
  /\ w \in [Steps -> Positions]
  /\ attempt \in [Steps -> Nat]
  /\ seen \in [Steps -> Seq(Steps)]
  /\ result \in [Steps -> Results]
  /\ store \in Seq(Steps)
  /\ cancel \in NotCancelled .. EventSet
  /\ life \in [Steps -> Seq(Events)]
  /\ planLog \in Seq(PlanEvents)
  /\ late \in [Steps -> Nat]

Live == {"submitted", "armed", "executing", "backoff", "again"}
HasResult(s) == result[s].outcome # "none"

(* Every future in flight has a pool thread of its own: the submission loop
   never lets work queue up inside the pool, where a cancellation could not
   reach it, and never exceeds max_concurrency (scheduler.py:153-170). *)
InFlightFitsPool ==
  pc \in {"submit", "wait"} =>
    /\ Cardinality(running) <= PoolSize
    /\ {s \in Steps : w[s] \in Live} \subseteq running

(* A handler runs only when each dependency, optional ones included, has an
   outcome, no required one failed or was skipped, and the evidence it was
   given holds every required kind: executor.py's own check never fires. *)
RunsOnlyWhenReady ==
  \A s \in Busy :
    /\ \A t \in DependsOn(plan, s) : t \in recorded
    /\ \A d \in RequiredDeps(plan, s) : result[d.on].outcome \notin {"failed", "skipped"}
    /\ RequiredKinds(plan, s) \subseteq KindsOf(seen[s])

In(s, q) == \E i \in DOMAIN q : q[i] = s

(* The evidence a handler sees does not depend on which worker finished
   first: steps of one wave are given the same artifacts, all artifacts of
   their dependencies among them, and the store holds them by wave and then
   by plan index (scheduler.py:105,113-117). *)
EvidenceIsDeterministic ==
  /\ \A s, t \in wave : attempt[s] > 0 /\ attempt[t] > 0 => seen[s] = seen[t]
  /\ \A s \in Busy : \A t \in DependsOn(plan, s) :
       result[t].kinds # {} => In(t, seen[s])
  /\ \A i, j \in DOMAIN store : i < j =>
       \/ In(store[i], seen[store[j]])
       \/ seen[store[i]] = seen[store[j]] /\ store[i] < store[j]

(* A step's events tell its story once: queued, attempts each started and,
   but for the last, retried, then exactly one verdict, the one its result
   carries, and nothing after it (scheduler.py:205-250).  Of a worker that
   raised an Exception they tell no verdict, though its step gets a result. *)
EventLifecycle ==
  \A s \in Steps :
    LET e == life[s]
        terminal == {"completed", "failed", "skipped"}
    IN  /\ \A i \in DOMAIN e :
             /\ i = 1 => e[i] \in {"queued", "skipped"}
             /\ e[i] = "queued" => i = 1
             /\ e[i] = "started" => e[i - 1] \in {"queued", "retrying"}
             /\ e[i] \in {"completed", "failed", "retrying"} => e[i - 1] = "started"
             /\ e[i] \in terminal => i = Len(e)
        /\ Cardinality({i \in DOMAIN e : e[i] = "started"}) <= plan[s].max
        /\ IF w[s] = "broken" THEN e[Len(e)] = "started"
           ELSE HasResult(s) <=> \E i \in DOMAIN e : /\ e[i] = TerminalEvent(result[s].outcome)
                                                     /\ e[i] \in terminal

(* Once a cancellation is visible, a worker can start at most the attempt
   it was already past the check for: no step starts twice, and not more
   steps than the pool has threads (architecture.md: "cancellation stops
   new work while allowing already-running handlers to finish"). *)
CancelStopsWork ==
  /\ \A s \in Steps : late[s] <= 1
  /\ Cardinality({s \in Steps : late[s] > 0}) <= MaxConcurrency

(* A run that ends by itself returns a result for every step that got one,
   a failure for every step whose worker raised an Exception, and a result for
   every step of the plan if it was not cancelled (scheduler.py:177-182). *)
ResultsAreComplete ==
  pc = "done" /\ ~interrupted =>
    /\ \A s \in Steps : HasResult(s) => s \in recorded
    /\ \A s \in Steps : w[s] = "broken" => s \in recorded /\ result[s] = Failed
    /\ ~Cancelled => recorded = Steps

(* plan.completed is the last event of the run: no worker lives on. *)
QuietAtTheEnd == pc = "done" => \A s \in Steps : w[s] \notin Live

(* Whoever reads the event stream can tell an incomplete run: if a step has
   no result, plan.cancelled precedes plan.completed, and plan.completed
   never denies a cancellation reported before (scheduler.py:126-131). *)
LossesAreReported ==
  pc = "done" =>
    /\ recorded # Steps => In("cancelled", planLog)
    /\ In("cancelled", planLog) => ~In("ended", planLog)

(* A result, once in its slot, is final, and evidence is only ever added. *)
RecordsAreFinal ==
  [][/\ \A s \in recorded : s \in recorded' /\ result'[s] = result[s]
     /\ Len(store') >= Len(store)
     /\ \A i \in DOMAIN store : store'[i] = store[i]]_vars

(* The run always comes to its end, and its threads with it. *)
Terminates == <>(Over /\ \A s \in Steps : w[s] \notin Live)

-----------------------------------------------------------------------------
(***************************************************************************)
(* The scheduler implements PlanRun.  A step runs from its first attempt   *)
(* to its answer, retries and backoffs included.  A worker that raises an  *)
(* Exception has decided that its step failed.                             *)
(***************************************************************************)
PhaseOf(s) ==
  IF HasResult(s) \/ w[s] \in {"raised", "broken"} THEN "over"
  ELSE IF In("started", life[s]) THEN "running"
  ELSE "waiting"

VerdictOf(s) == IF w[s] = "broken" THEN Failed ELSE result[s]

RunOf == CASE pc = "done" -> "closed" [] pc = "escaped" -> "abandoned" [] OTHER -> "open"

Abstract == INSTANCE PlanRun WITH
  phase     <- [s \in Steps |-> PhaseOf(s)],
  verdict   <- [s \in Steps |-> VerdictOf(s)],
  cancelled <- Cancelled,
  run       <- RunOf

ImplementsPlanRun == Abstract!Spec
=============================================================================
