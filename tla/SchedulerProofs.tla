-------------------------- MODULE SchedulerProofs --------------------------
(***************************************************************************)
(* What holds of a run for every plan, every pool size and every handler.  *)
(***************************************************************************)
EXTENDS Scheduler, PlanValidation, FiniteSetTheorems, TLAPS

\* A nonempty set of plan indexes has a least one.
LEMMA LeastOf ==
  ASSUME NEW S \in SUBSET Nat, S # {}
  PROVE  Least(S) \in S /\ \A t \in S : Least(S) <= t
<1> DEFINE T == {0 .. s : s \in S}
           R == StrictSubsetOrdering(Nat)
<1>1. T # {} /\ T \subseteq FiniteSubsetsOf(Nat)
  <2>1. \A s \in S : IsFiniteSet(0 .. s) /\ 0 .. s \subseteq Nat
    BY FS_Interval
  <2> QED BY <2>1 DEF FiniteSubsetsOf
<1>2. PICK I \in T : \A J \in T : <<J, I>> \notin R
  <2>1. IsWellFoundedOn(R, FiniteSubsetsOf(Nat))
    BY FS_StrictSubsetOrderingWellFounded
  <2> HIDE DEF T, R
  <2> QED BY <1>1, <2>1, WFMin
<1>3. PICK s \in S : I = 0 .. s
  OBVIOUS
<1>4. ASSUME NEW t \in S PROVE s <= t
  <2> SUFFICES ASSUME t < s PROVE FALSE
    OBVIOUS
  <2>1. 0 .. t \subseteq 0 .. s /\ s \in 0 .. s /\ s \notin 0 .. t
    OBVIOUS
  <2>2. 0 .. t \in T /\ 0 .. t \in SUBSET Nat /\ 0 .. s \in SUBSET Nat
    OBVIOUS
  <2> QED BY <1>2, <1>3, <2>1, <2>2 DEF StrictSubsetOrdering
<1> QED
  BY <1>4 DEF Least

\* A group consists of steps that no group before it held, and each of them
\* depends on steps of those groups only.
LEMMA GroupIsFresh ==
  ASSUME NEW p \in Plans, NEW P \in SUBSET DOMAIN p
  PROVE  /\ NextGroup(p, P) \subseteq DOMAIN p \ P
         /\ \A s \in NextGroup(p, P) : DependsOn(p, s) \subseteq P
<1>1. \A s \in DOMAIN p : p[s].id = s
  BY PlansOK DEF StepOK
<1>2. Identities(p, P) = P
  BY <1>1 DEF Identities
<1>3. CASE HasDependencies(p)
  BY <1>2, <1>3 DEF NextGroup, Ready
<1>4. CASE ~HasDependencies(p)
  <2>1. NextGroup(p, P) \subseteq DOMAIN p \ P
    BY <1>4 DEF NextGroup
  <2>2. \A s \in DOMAIN p : DependsOn(p, s) = {}
    BY <1>4 DEF HasDependencies, DependsOn
  <2> QED BY <2>1, <2>2
<1> QED
  BY <1>3, <1>4

LEMMA StepsAreNumbers == TypeOK => Steps \in SUBSET Nat
BY PlansOK DEF TypeOK, Steps

-----------------------------------------------------------------------------
LEMMA InitType == Init => TypeOK
<1> SUFFICES ASSUME Init PROVE TypeOK
  OBVIOUS
<1> USE DEF Init
<1>1. /\ seen \in [Steps -> Seq(Steps)] /\ store \in Seq(Steps)
      /\ life \in [Steps -> Seq(Events)] /\ planLog \in Seq(PlanEvents)
  OBVIOUS
<1>2. result \in [Steps -> Results]
  BY DEF NoResult, Results
<1>3. /\ w \in [Steps -> Positions] /\ pc \in MainPositions
      /\ cancel \in NotCancelled .. EventSet
  BY DEF Positions, MainPositions, NotCancelled, EventSet
<1>4. attempt \in [Steps -> Nat] /\ late \in [Steps -> Nat]
  OBVIOUS
<1> QED
  BY <1>1, <1>2, <1>3, <1>4 DEF TypeOK

\* The main thread outside _run_wave.
LEMMA ScheduleType ==
  ASSUME TypeOK,
         \/ Start \/ TakeGroup \/ LeaveLoop \/ Merge \/ EndWave
         \/ ReportCancelled \/ ReportCompleted \/ Escape
  PROVE  TypeOK'
<1> USE DEF TypeOK, MainPositions
<1>1. CASE Start
  <2>1. planLog' \in Seq(PlanEvents)
    BY <1>1 DEF Start, PlanEvents
  <2> QED BY <1>1, <2>1 DEF Start, workVars, Steps
<1>2. CASE TakeGroup
  <2> DEFINE group == NextGroup(plan, placed)
             skip  == {s \in group : DependencySkip(s)}
  <2>1. group \subseteq Steps
    BY GroupIsFresh DEF Steps
  <2>2. result' \in [Steps -> Results]
    BY <1>2 DEF TakeGroup, Results, Skipped, Outcomes
  <2>3. life' \in [Steps -> Seq(Events)]
    <3>1. \A s \in Steps : /\ Append(life[s], "skipped") \in Seq(Events)
                           /\ Append(life[s], "queued") \in Seq(Events)
      BY DEF Events
    <3> QED BY <3>1, <1>2 DEF TakeGroup
  <2> HIDE DEF group
  <2>4. /\ placed' \subseteq Steps /\ wave' \subseteq Steps /\ pending' \subseteq Steps
        /\ recorded' \subseteq Steps /\ pc' \in MainPositions
    BY <1>2, <2>1 DEF TakeGroup, group
  <2> QED BY <1>2, <2>2, <2>3, <2>4 DEF TakeGroup, Steps
<1>3. CASE LeaveLoop
  BY <1>3 DEF LeaveLoop, workVars, Steps
<1>4. CASE Merge
  <2>1. Least(results) \in Steps
    BY <1>4, StepsAreNumbers, LeastOf DEF Merge
  <2>2. store' \in Seq(Steps)
    BY <1>4, <2>1 DEF Merge
  <2> QED BY <1>4, <2>1, <2>2 DEF Merge, workVars, Steps
<1>5. CASE EndWave
  BY <1>5 DEF EndWave, workVars, Steps
<1>6. CASE ReportCancelled
  <2>1. planLog' \in Seq(PlanEvents)
    BY <1>6 DEF ReportCancelled, PlanEvents
  <2> QED BY <1>6, <2>1 DEF ReportCancelled, workVars, Steps
<1>7. CASE ReportCompleted
  <2>1. planLog' \in Seq(PlanEvents)
    BY <1>7 DEF ReportCompleted, PlanEvents
  <2> QED BY <1>7, <2>1 DEF ReportCompleted, workVars, Steps
<1>8. CASE Escape
  BY <1>8 DEF Escape, workVars, Steps
<1> QED
  BY <1>1, <1>2, <1>3, <1>4, <1>5, <1>6, <1>7, <1>8

\* The main thread in _run_wave, and those who cancel.
LEMMA RunWaveType ==
  ASSUME TypeOK,
         \/ Submit \/ StopSubmitting \/ Collect \/ InterruptWave \/ Shutdown \/ Join
         \/ RequestCancel \/ CancelStep
  PROVE  TypeOK'
<1> USE DEF TypeOK
<1>1. CASE Submit
  <2>1. Least(pending) \in Steps
    BY <1>1, StepsAreNumbers, LeastOf DEF Submit, CanSubmit
  <2> QED BY <1>1, <2>1 DEF Submit, Steps, Positions
<1>2. CASE StopSubmitting
  BY <1>2 DEF StopSubmitting, workVars, Steps, MainPositions
<1>3. Raised(cancel) \in NotCancelled .. EventSet
  BY DEF Raised, NotCancelled, EventSet
<1>4. CASE Collect
  <2>1. result' \in [Steps -> Results]
    BY <1>4 DEF Collect, Failed, Results, Outcomes
  <2>2. Done \subseteq Steps /\ Broken \subseteq Steps
    BY DEF Done, Broken
  <2> QED BY <1>3, <1>4, <2>1, <2>2 DEF Collect, Steps, MainPositions
<1>5. CASE InterruptWave
  BY <1>3, <1>5 DEF InterruptWave, workVars, Steps, MainPositions
<1>6. CASE Shutdown
  BY <1>6 DEF Shutdown, Steps, MainPositions, Positions
<1>7. CASE Join
  BY <1>7 DEF Join, WaveResults, workVars, Steps, MainPositions
<1>8. CASE RequestCancel
  BY <1>8 DEF RequestCancel, mainVars, workVars, Steps, NotCancelled, EventSet
<1>9. CASE CancelStep
  BY <1>9 DEF CancelStep, mainVars, workVars, Steps, NotCancelled, EventSet
<1> QED
  BY <1>1, <1>2, <1>4, <1>5, <1>6, <1>7, <1>8, <1>9

LEMMA ReplyType ==
  ASSUME NEW s, NEW r \in Replies(s)
  PROVE  r \in [outcome : Outcomes, kinds : SUBSET Kinds]
<1>1. r \in {Skipped, Failed} \/ r \in [outcome : HandlerOutcomes, kinds : SUBSET Kinds]
  BY DEF Replies
<1>2. ASSUME r \in [outcome : HandlerOutcomes, kinds : SUBSET Kinds]
      PROVE  r \in [outcome : Outcomes, kinds : SUBSET Kinds]
  BY <1>2, HandlerOutcomesOK
<1>3. ASSUME r \in {Skipped, Failed}
      PROVE  r \in [outcome : Outcomes, kinds : SUBSET Kinds]
  BY <1>3 DEF Skipped, Failed, Outcomes
<1> QED
  BY <1>1, <1>2, <1>3

LEMMA AnswerType ==
  ASSUME TypeOK, NEW s \in Steps,
         NEW r \in [outcome : Outcomes, kinds : SUBSET Kinds], NEW e \in Events,
         plan' = plan, Answer(s, r, e)
  PROVE  /\ result' \in [Steps -> Results]' /\ w' \in [Steps -> Positions]'
         /\ life' \in [Steps -> Seq(Events)]'
<1>1. r \in Results
  BY DEF Results
<1>2. Append(life[s], e) \in Seq(Events)
  BY DEF TypeOK
<1> QED
  BY <1>1, <1>2 DEF TypeOK, Answer, Log, Steps, Positions, Results

LEMMA WorkerType ==
  ASSUME TypeOK, NEW s \in Steps, Worker(s) \/ ExecuteInterrupted(s) \/ ExecuteBroken(s)
  PROVE  TypeOK'
<1> USE DEF mainVars
<1>1. Skipped \in [outcome : Outcomes, kinds : SUBSET Kinds]
  BY DEF Skipped, Outcomes
<1>2. CASE Begin(s)
  <2>1. CASE Answer(s, Skipped, "skipped")
    BY <1>1, <1>2, <2>1, AnswerType DEF Begin, TypeOK, Steps, Events
  <2>2. CASE w' = [w EXCEPT ![s] = "armed"] /\ UNCHANGED <<result, life>>
    BY <1>2, <2>2 DEF Begin, TypeOK, Steps, Positions
  <2> QED BY <1>2, <2>1, <2>2 DEF Begin
<1>3. CASE StartAttempt(s)
  <2>1. Append(life[s], "started") \in Seq(Events)
    BY DEF TypeOK, Events
  <2> QED BY <1>3, <2>1 DEF StartAttempt, TypeOK, Log, Steps, Positions
<1>4. CASE Execute(s)
  <2>1. PICK r \in Replies(s) :
          \/ Answer(s, r, TerminalEvent(r.outcome)) /\ UNCHANGED attempt
          \/ /\ Log(s, "retrying")
             /\ w' = [w EXCEPT ![s] = IF plan[s].backoff THEN "backoff" ELSE "again"]
             /\ attempt' = [attempt EXCEPT ![s] = @ + 1]
             /\ UNCHANGED result
    BY <1>4 DEF Execute
  <2>2. r \in [outcome : Outcomes, kinds : SUBSET Kinds] /\ TerminalEvent(r.outcome) \in Events
    BY ReplyType DEF TerminalEvent, Events
  <2>3. CASE Answer(s, r, TerminalEvent(r.outcome)) /\ UNCHANGED attempt
    BY <1>4, <2>2, <2>3, AnswerType DEF Execute, TypeOK, Steps
  <2>4. CASE /\ Log(s, "retrying")
             /\ w' = [w EXCEPT ![s] = IF plan[s].backoff THEN "backoff" ELSE "again"]
             /\ attempt' = [attempt EXCEPT ![s] = @ + 1]
             /\ UNCHANGED result
    <3>1. Append(life[s], "retrying") \in Seq(Events)
      BY DEF TypeOK, Events
    <3>2. /\ w' \in [Steps -> Positions] /\ attempt' \in [Steps -> Nat]
          /\ life' \in [Steps -> Seq(Events)]
      BY <2>4, <3>1 DEF TypeOK, Positions, Log
    <3> QED BY <1>4, <2>4, <3>2 DEF Execute, TypeOK, Steps
  <2> QED BY <2>1, <2>3, <2>4
<1>5. CASE Backoff(s)
  <2>1. CASE Answer(s, Skipped, "skipped")
    BY <1>1, <1>5, <2>1, AnswerType DEF Backoff, TypeOK, Steps, Events
  <2>2. CASE w' = [w EXCEPT ![s] = "again"] /\ UNCHANGED <<result, life>>
    BY <1>5, <2>2 DEF Backoff, TypeOK, Steps, Positions
  <2> QED BY <1>5, <2>1, <2>2 DEF Backoff
<1>6. CASE ExecuteInterrupted(s)
  BY <1>6 DEF ExecuteInterrupted, TypeOK, Steps, Positions
<1>7. CASE ExecuteBroken(s)
  BY <1>7 DEF ExecuteBroken, TypeOK, Steps, Positions
<1> QED
  BY <1>2, <1>3, <1>4, <1>5, <1>6, <1>7 DEF Worker

LEMMA StepType == TypeOK /\ [Next]_vars => TypeOK'
<1>1. ASSUME TypeOK, UNCHANGED vars PROVE TypeOK'
  BY <1>1 DEF vars, mainVars, workVars, TypeOK, Steps
<1> QED
  BY <1>1, ScheduleType, RunWaveType, WorkerType DEF Next, Main, Settled

(* Whatever the plan and however threads interleave, the state of a run keeps
   to its types (the annotations of schedule_plan and _run_wave). *)
THEOREM TypeCorrect == Spec => []TypeOK
BY InitType, StepType, PTL DEF Spec

-----------------------------------------------------------------------------
(***************************************************************************)
(* The inductive invariant.  Books: what the sets of steps have to do with *)
(* each other and with the workers.  Position: what is known of them at a  *)
(* position of the main thread.  Prerequisites: why a step may run.        *)
(* Announced: what the plan's events say of all this.                      *)
(***************************************************************************)
Books ==
  /\ recorded \subseteq placed
  /\ pending \subseteq placed \ recorded
  /\ \A s \in Steps : w[s] # "idle" => s \in placed \ pending
  /\ running \intersect (results \union recorded) = {}
  /\ \A s \in results : w[s] \in {"returned", "broken"}
  /\ \A s \in results \union recorded : w[s] = "broken" => result[s] = Failed
  /\ \A s \in recorded : w[s] \notin Live
  /\ \A i \in DOMAIN store : store[i] \in recorded
  /\ \A s \in Steps : \A i \in DOMAIN seen[s] : seen[s][i] \in recorded
  /\ \A s \in Steps : HasResult(s) =>
       w[s] = "returned" \/ s \in recorded \/ (w[s] = "broken" /\ result[s] = Failed)
  /\ ~interrupted => \A s \in Steps :
       HasResult(s) \/ w[s] \in Live \union {"broken"} =>
         s \in running \union results \union recorded

Between == {"start", "group", "finish", "complete", "done"}

Position ==
  /\ interrupted => Cancelled
  /\ pc \in Between \union {"merge"} =>
       pending = {} /\ running = {} /\ \A s \in Steps : w[s] \notin Live
  /\ pc = "join" => \A s \in Steps : w[s] # "submitted"
  /\ pc \in Between => results = {}
  /\ pc \in {"shutdown", "join"} /\ ~interrupted => running = {}
  /\ pc \in {"shutdown", "join"} /\ ~Cancelled => pending = {}
  /\ ~Cancelled => placed \subseteq recorded \union pending \union running \union results
  /\ pc \in {"finish", "complete", "done"} /\ ~Cancelled => placed = Steps

Prepared(s, evidence) ==
  /\ DependsOn(plan, s) \subseteq recorded
  /\ \A d \in RequiredDeps(plan, s) : result[d.on].outcome \notin {"failed", "skipped"}
  /\ RequiredKinds(plan, s) \subseteq KindsOf(evidence)

Prerequisites ==
  /\ \A s \in pending : Prepared(s, store)
  /\ \A s \in Steps : w[s] \in Live => Prepared(s, seen[s])

Announced ==
  /\ In("cancelled", planLog) => Cancelled
  /\ In("ended", planLog) => pc = "done" /\ ~In("cancelled", planLog)
  /\ pc \in {"complete", "done"} /\ recorded # Steps => In("cancelled", planLog)

IInv == TypeOK /\ Books /\ Position /\ Prerequisites /\ Announced

-----------------------------------------------------------------------------
\* What a step of a worker changes.
LEMMA WorkerEffect ==
  ASSUME TypeOK, NEW s \in Steps, Worker(s) \/ ExecuteInterrupted(s) \/ ExecuteBroken(s)
  PROVE  /\ UNCHANGED <<plan, mainVars, seen, recorded, store, cancel, planLog>>
         /\ w[s] \in Live
         /\ \A t \in Steps \ {s} : w'[t] = w[t] /\ result'[t] = result[t]
         /\ \/ /\ w'[s] \in (Live \ {"submitted"}) \union {"raised", "broken"}
               /\ result'[s] = result[s]
            \/ w'[s] = "returned"
<1> USE DEF TypeOK, mainVars, Live
<1>1. CASE Begin(s)
  BY <1>1 DEF Begin, Answer
<1>2. CASE StartAttempt(s)
  BY <1>2 DEF StartAttempt
<1>3. CASE Execute(s)
  BY <1>3 DEF Execute, Answer
<1>4. CASE Backoff(s)
  BY <1>4 DEF Backoff, Answer
<1>5. CASE ExecuteInterrupted(s) \/ ExecuteBroken(s)
  BY <1>5 DEF ExecuteInterrupted, ExecuteBroken
<1> QED
  BY <1>1, <1>2, <1>3, <1>4, <1>5 DEF Worker

\* What taking the finished futures changes.
LEMMA CollectEffect ==
  ASSUME TypeOK, Books, Collect
  PROVE  /\ UNCHANGED <<plan, placed, wave, pending, w, attempt, seen, recorded, store, life,
                        planLog, late>>
         /\ pc = "wait" /\ pc' = "submit"
         /\ Done \subseteq running /\ running' = running \ Done
         /\ results' = results \union {s \in Done : w[s] \in {"returned", "broken"}}
         /\ \A s \in Steps : result'[s] = IF s \in Done /\ w[s] = "broken" THEN Failed
                                                                         ELSE result[s]
         /\ \A s \in results \union recorded : s \in Steps /\ result'[s] = result[s]
<1>1. Done \subseteq running /\ Broken = {s \in Done : w[s] = "broken"}
  BY DEF Done, Broken
<1>2. \A s \in Steps : result'[s] = IF s \in Done /\ w[s] = "broken" THEN Failed ELSE result[s]
  BY <1>1 DEF Collect
<1>3. \A s \in results \union recorded : s \in Steps /\ s \notin running
  BY DEF TypeOK, Books
<1> QED
  BY <1>1, <1>2, <1>3 DEF Collect

\* What is recorded and stored stays as it is.
Final ==
  /\ plan' = plan
  /\ \A s \in recorded : s \in recorded' /\ result'[s] = result[s]
  /\ Len(store') >= Len(store)
  /\ \A i \in DOMAIN store : store'[i] = store[i]

LEMMA AppendKeeps ==
  ASSUME NEW S, NEW q \in Seq(S), NEW e \in S
  PROVE  /\ Len(q) \in Nat /\ Len(Append(q, e)) = Len(q) + 1
         /\ DOMAIN q = 1 .. Len(q) /\ DOMAIN Append(q, e) = 1 .. Len(q) + 1
         /\ \A i \in DOMAIN q : Append(q, e)[i] = q[i]
         /\ Append(q, e)[Len(q) + 1] = e
OBVIOUS

LEMMA StepFinal ==
  ASSUME TypeOK, Books, [Next]_vars
  PROVE  Final
<1>1. CASE TakeGroup
  <2>1. \A s \in NextGroup(plan, placed) : s \notin recorded
    BY GroupIsFresh DEF TypeOK, Steps, Books
  <2> QED BY <1>1, <2>1 DEF TakeGroup, Final, TypeOK
<1>2. CASE Merge
  <2>1. Least(results) \in Steps
    BY <1>2, StepsAreNumbers, LeastOf DEF Merge, TypeOK
  <2>2. store' = store \/ store' = Append(store, Least(results))
    BY <1>2 DEF Merge
  <2>3. Len(store') >= Len(store) /\ \A i \in DOMAIN store : store'[i] = store[i]
    <3>1. store \in Seq(Steps) /\ Len(store) \in Nat
      BY DEF TypeOK
    <3>2. CASE store' = store
      BY <3>1, <3>2
    <3>3. CASE store' = Append(store, Least(results))
      <4>1. /\ Len(Append(store, Least(results))) = Len(store) + 1
            /\ \A i \in DOMAIN store : Append(store, Least(results))[i] = store[i]
        BY <2>1, <3>1, AppendKeeps
      <4> QED BY <3>1, <3>3, <4>1
    <3> QED BY <2>2, <3>2, <3>3
  <2> QED BY <1>2, <2>3 DEF Merge, Final, workVars
<1>3. CASE \E s \in Steps : Worker(s) \/ ExecuteInterrupted(s) \/ ExecuteBroken(s)
  <2>1. PICK s \in Steps : Worker(s) \/ ExecuteInterrupted(s) \/ ExecuteBroken(s)
    BY <1>3
  <2>2. s \notin recorded
    BY <2>1, WorkerEffect DEF Books
  <2>3. \A t \in recorded : t \in Steps \ {s}
    BY <2>2 DEF TypeOK
  <2>4. plan' = plan /\ recorded' = recorded /\ store' = store
    BY <2>1, WorkerEffect
  <2>5. \A t \in recorded : result'[t] = result[t]
    BY <2>1, <2>3, WorkerEffect
  <2> QED BY <2>4, <2>5 DEF Final, TypeOK
<1>4. ASSUME UNCHANGED <<plan, recorded, result, store>> PROVE Final
  BY <1>4 DEF Final, TypeOK
<1>5. CASE Start \/ LeaveLoop \/ EndWave \/ ReportCancelled \/ ReportCompleted \/ Escape
  BY <1>4, <1>5 DEF Start, LeaveLoop, EndWave, ReportCancelled, ReportCompleted, Escape,
                    workVars
<1>6. CASE Submit \/ StopSubmitting \/ InterruptWave \/ Shutdown \/ Join
  BY <1>4, <1>6 DEF Submit, StopSubmitting, InterruptWave, Shutdown, Join, workVars
<1>7. CASE RequestCancel \/ CancelStep \/ Settled \/ UNCHANGED vars
  BY <1>4, <1>7 DEF RequestCancel, CancelStep, Settled, vars, workVars
<1>8. CASE Collect
  <2>1. /\ UNCHANGED <<plan, recorded, store>>
        /\ \A s \in recorded : result'[s] = result[s]
    BY <1>8, CollectEffect
  <2>2. Len(store) \in Nat
    BY DEF TypeOK
  <2> QED BY <2>1, <2>2 DEF Final
<1> QED
  BY <1>1, <1>2, <1>3, <1>5, <1>6, <1>7, <1>8 DEF Next, Main

\* Evidence that is recorded keeps the kinds it has, and more of it has more.
LEMMA KindsStay ==
  ASSUME Final, NEW q \in Seq(Steps), \A i \in DOMAIN q : q[i] \in recorded,
         NEW q2 \in Seq(Steps), Len(q2) >= Len(q), \A i \in DOMAIN q : q2[i] = q[i]
  PROVE  UNION {result[q[i]].kinds : i \in DOMAIN q}
           \subseteq UNION {result'[q2[i]].kinds : i \in DOMAIN q2}
<1>1. \A i \in DOMAIN q : i \in DOMAIN q2 /\ result'[q2[i]] = result[q[i]]
  BY DEF Final
<1> QED
  BY <1>1

\* A step that may run may run later.
LEMMA PreparedStays ==
  ASSUME TypeOK, TypeOK', Books, Final, NEW s \in Steps
  PROVE  /\ Prepared(s, store) => Prepared(s, store)'
         /\ Prepared(s, seen[s]) /\ seen'[s] = seen[s] => Prepared(s, seen[s])'
<1>1. /\ DependsOn(plan, s)' = DependsOn(plan, s)
      /\ RequiredDeps(plan, s)' = RequiredDeps(plan, s)
      /\ RequiredKinds(plan, s)' = RequiredKinds(plan, s)
      /\ \A d \in RequiredDeps(plan, s) : d.on \in DependsOn(plan, s)
      /\ recorded \subseteq recorded' /\ \A t \in recorded : result'[t] = result[t]
      /\ Steps' = Steps
  BY DEF Final, DependsOn, RequiredDeps, RequiredKinds, Steps
<1>2. KindsOf(store) \subseteq KindsOf(store)'
  <2>1. store \in Seq(Steps) /\ store' \in Seq(Steps)
    BY <1>1 DEF TypeOK
  <2>2. UNION {result[store[i]].kinds : i \in DOMAIN store}
          \subseteq UNION {result'[store'[i]].kinds : i \in DOMAIN store'}
    BY <2>1, KindsStay DEF Books, Final
  <2> QED BY <2>2 DEF KindsOf
<1>3. ASSUME seen'[s] = seen[s] PROVE KindsOf(seen[s]) \subseteq KindsOf(seen[s])'
  <2>1. seen[s] \in Seq(Steps)
    BY DEF TypeOK
  <2>2. UNION {result[seen[s][i]].kinds : i \in DOMAIN seen[s]}
          \subseteq UNION {result'[seen[s][i]].kinds : i \in DOMAIN seen[s]}
    BY <2>1, KindsStay DEF Books
  <2> QED BY <1>3, <2>2 DEF KindsOf
<1> QED
  BY <1>1, <1>2, <1>3 DEF Prepared

-----------------------------------------------------------------------------
LEMMA InitInv == Init => IInv
<1> SUFFICES ASSUME Init PROVE IInv
  OBVIOUS
<1> USE DEF Init
<1>1. TypeOK
  BY InitType
<1>2. Books
  BY DEF Books, Live, HasResult, NoResult
<1>3. Position
  BY DEF Position, Between, Live
<1>4. Prerequisites
  BY DEF Prerequisites, Live
<1>5. Announced
  BY DEF Announced, In
<1> QED
  BY <1>1, <1>2, <1>3, <1>4, <1>5 DEF IInv

LEMMA BooksStep ==
  ASSUME IInv, [Next]_vars, TypeOK', Final
  PROVE  Books'
<1> USE DEF IInv
<1> Steps' = Steps
  BY DEF Final, Steps
<1>1. CASE TakeGroup
  <2> DEFINE group == NextGroup(plan, placed)
             skip  == {s \in group : DependencySkip(s)}
  <2>1. group \subseteq Steps \ placed
    BY GroupIsFresh DEF Steps, TypeOK
  <2>2. /\ placed' = placed \union group /\ recorded' = recorded \union skip
        /\ pending' = group \ skip /\ skip \subseteq group
        /\ UNCHANGED <<running, results, interrupted, w, seen, store>>
        /\ \A s \in Steps : result'[s] = IF s \in skip THEN Skipped ELSE result[s]
        /\ \A s \in group : w[s] = "idle"
    BY <1>1, <2>1 DEF TakeGroup, TypeOK, Books
  <2> HIDE DEF group, skip
  <2>3. pending = {} /\ running = {} /\ results = {} /\ recorded \subseteq Steps
    BY <1>1 DEF TakeGroup, Position, Between, TypeOK
  <2>4. \A s \in recorded : s \in Steps \ group
    BY <2>1, <2>3 DEF Books
  <2>5. \A s \in results' \union recorded' : w'[s] = "broken" => result'[s] = Failed
    BY <2>1, <2>2, <2>3, <2>4 DEF Books
  <2>6. \A s \in recorded' : w'[s] \notin Live
    BY <2>1, <2>2, <2>3, <2>4 DEF Books, Live
  <2>7. \A s \in Steps : /\ w'[s] # "idle" => s \in placed' \ pending'
                         /\ \A i \in DOMAIN seen'[s] : seen'[s][i] \in recorded'
    BY <2>1, <2>2, <2>3 DEF Books
  <2>8. ASSUME NEW s \in Steps, HasResult(s)'
        PROVE  w'[s] = "returned" \/ s \in recorded' \/ (w'[s] = "broken" /\ result'[s] = Failed)
    BY <2>2, <2>8 DEF Books, HasResult
  <2>9. ASSUME ~interrupted', NEW s \in Steps, HasResult(s)' \/ w'[s] \in Live \union {"broken"}
        PROVE  s \in running' \union results' \union recorded'
    BY <2>2, <2>3, <2>9 DEF Books, HasResult
  <2>10. /\ recorded' \subseteq placed' /\ pending' \subseteq placed' \ recorded'
         /\ running' = {} /\ results' = {} /\ \A i \in DOMAIN store' : store'[i] \in recorded'
    BY <2>1, <2>2, <2>3 DEF Books
  <2> QED BY <2>5, <2>6, <2>7, <2>8, <2>9, <2>10 DEF Books
<1>2. CASE Submit
  <2>1. Least(pending) \in pending
    BY <1>2, StepsAreNumbers, LeastOf DEF Submit, CanSubmit, TypeOK
  <2>2. PICK s \in pending :
          /\ pending' = pending \ {s} /\ running' = running \union {s}
          /\ w' = [w EXCEPT ![s] = "submitted"] /\ seen' = [seen EXCEPT ![s] = store]
          /\ UNCHANGED <<placed, results, interrupted, result, recorded, store>>
    BY <1>2, <2>1 DEF Submit
  <2>3. \A t \in Steps : /\ w'[t] = IF t = s THEN "submitted" ELSE w[t]
                         /\ seen'[t] = IF t = s THEN store ELSE seen[t]
    BY <2>2 DEF TypeOK
  <2>4. s \in Steps /\ w[s] = "idle" /\ s \notin results /\ s \notin recorded
    BY <2>2 DEF TypeOK, Books
  <2>5. \A t \in Steps : \A i \in DOMAIN seen'[t] : seen'[t][i] \in recorded'
    BY <2>2, <2>3 DEF Books
  <2>6. \A t \in Steps :
          /\ w'[t] # "idle" => t \in placed' \ pending'
          /\ HasResult(t)' =>
               w'[t] = "returned" \/ t \in recorded' \/ (w'[t] = "broken" /\ result'[t] = Failed)
    BY <2>2, <2>3, <2>4 DEF Books, HasResult
  <2>7. ASSUME ~interrupted', NEW t \in Steps, HasResult(t)' \/ w'[t] \in Live \union {"broken"}
        PROVE  t \in running' \union results' \union recorded'
    BY <2>2, <2>3, <2>7 DEF Books, HasResult
  <2>8. \A t \in recorded' : w'[t] \notin Live
    BY <2>2, <2>3, <2>4 DEF Books, TypeOK
  <2>10. \A t \in results \union recorded : t \in Steps /\ t # s /\ t \notin running
    BY <2>4 DEF Books, TypeOK
  <2>9. \A t \in results' \union recorded' : w'[t] = w[t] /\ t \notin running'
    BY <2>2, <2>3, <2>10
  <2> QED BY <2>2, <2>5, <2>6, <2>7, <2>8, <2>9 DEF Books
<1>3. CASE Collect
  <2>1. /\ UNCHANGED <<placed, pending, w, seen, recorded, store>> /\ Done \subseteq running
        /\ running' = running \ Done
        /\ results' = results \union {s \in Done : w[s] \in {"returned", "broken"}}
        /\ \A s \in Steps : result'[s] = IF s \in Done /\ w[s] = "broken" THEN Failed
                                                                        ELSE result[s]
        /\ \A s \in results \union recorded : s \in Steps /\ result'[s] = result[s]
    BY <1>3, CollectEffect
  <2>2. ~interrupted' => ~interrupted /\ \A s \in Done : w[s] \in {"returned", "broken"}
    BY <1>3 DEF Collect, Done
  <2>3. ASSUME ~interrupted' PROVE running' \union results' = running \union results
    BY <2>1, <2>2, <2>3
  <2>4. \A s \in Steps : HasResult(s)' => HasResult(s) \/ (s \in running /\ w[s] = "broken")
    BY <2>1 DEF HasResult
  <2>5. ASSUME ~interrupted', NEW s \in Steps, HasResult(s)' \/ w'[s] \in Live \union {"broken"}
        PROVE  s \in running' \union results' \union recorded'
    BY <2>1, <2>2, <2>3, <2>4, <2>5 DEF Books
  <2>6. ASSUME NEW s \in Steps, HasResult(s)'
        PROVE  w'[s] = "returned" \/ s \in recorded' \/ (w'[s] = "broken" /\ result'[s] = Failed)
    BY <2>1, <2>6 DEF Books, HasResult
  <2>7. \A s \in results' \union recorded' :
          /\ s \notin running'
          /\ w'[s] = "broken" => result'[s] = Failed
    BY <2>1 DEF Books, TypeOK
  <2>8. \A s \in results' : w'[s] \in {"returned", "broken"}
    BY <2>1 DEF Books
  <2> QED BY <2>1, <2>5, <2>6, <2>7, <2>8 DEF Books
<1>4. CASE InterruptWave
  BY <1>4 DEF InterruptWave, Books, HasResult, workVars
<1>5. CASE Shutdown
  <2>1. \A s \in Steps : w'[s] = IF w[s] = "submitted" THEN "withdrawn" ELSE w[s]
    BY <1>5 DEF Shutdown
  <2> QED BY <1>5, <2>1 DEF Shutdown, Books, HasResult, Live, TypeOK
<1>6. CASE Join
  <2>1. running' = {} /\ pending' = {} /\ results' \subseteq results
    BY <1>6 DEF Join, WaveResults
  <2>2. ~interrupted => running = {} /\ results' = results
    BY <1>6 DEF Join, WaveResults, Position
  <2> QED BY <1>6, <2>1, <2>2 DEF Join, Books, HasResult, Live, workVars
<1>7. CASE Merge
  <2>1. Least(results) \in results
    BY <1>7, StepsAreNumbers, LeastOf DEF Merge, TypeOK
  <2>2. PICK s \in results :
          /\ results' = results \ {s} /\ recorded' = recorded \union {s}
          /\ store' = store \/ store' = Append(store, s)
          /\ UNCHANGED <<placed, pending, running, interrupted, w, seen, result>>
    BY <1>7, <2>1 DEF Merge, workVars
  <2>3. s \in Steps /\ w[s] \in {"returned", "broken"} /\ s \in placed \ pending
    BY <2>2 DEF TypeOK, Books
  <2>4. \A i \in DOMAIN store' : store'[i] \in recorded'
    <3>1. CASE store' = store
      BY <2>2, <3>1 DEF Books
    <3>2. CASE store' = Append(store, s)
      <4>1. store \in Seq(Steps)
        BY DEF TypeOK
      <4>2. \A i \in DOMAIN Append(store, s) :
              \/ Append(store, s)[i] = s
              \/ i \in DOMAIN store /\ Append(store, s)[i] = store[i]
        BY <2>3, <4>1, AppendKeeps
      <4> QED BY <2>2, <3>2, <4>2 DEF Books
    <3> QED BY <2>2, <3>1, <3>2
  <2> QED BY <2>2, <2>3, <2>4 DEF Books, HasResult, Live
<1>8. CASE \E s \in Steps : Worker(s) \/ ExecuteInterrupted(s) \/ ExecuteBroken(s)
  <2>1. PICK s \in Steps : Worker(s) \/ ExecuteInterrupted(s) \/ ExecuteBroken(s)
    BY <1>8
  <2>2. /\ UNCHANGED <<placed, pending, running, results, interrupted, seen, recorded, store>>
        /\ w[s] \in Live
        /\ \A t \in Steps \ {s} : w'[t] = w[t] /\ result'[t] = result[t]
        /\ \/ /\ w'[s] \in (Live \ {"submitted"}) \union {"raised", "broken"}
              /\ result'[s] = result[s]
           \/ w'[s] = "returned"
    BY <2>1, WorkerEffect DEF mainVars
  <2>3. s \notin results /\ s \notin recorded /\ s \in placed \ pending
    BY <2>2 DEF Books, Live
  <2>4. \A t \in Steps :
          /\ w'[t] # "idle" => t \in placed' \ pending'
          /\ HasResult(t)' =>
               w'[t] = "returned" \/ t \in recorded' \/ (w'[t] = "broken" /\ result'[t] = Failed)
    BY <2>2, <2>3 DEF Books, HasResult, Live
  <2>5. ASSUME ~interrupted', NEW t \in Steps, HasResult(t)' \/ w'[t] \in Live \union {"broken"}
        PROVE  t \in running' \union results' \union recorded'
    BY <2>2, <2>3, <2>5 DEF Books, HasResult
  <2>6. \A t \in recorded' : w'[t] \notin Live
    BY <2>2, <2>3 DEF Books, TypeOK
  <2>7. \A t \in results' \union recorded' : w'[t] = w[t] /\ result'[t] = result[t]
    BY <2>2, <2>3 DEF TypeOK
  <2> QED BY <2>2, <2>4, <2>5, <2>6, <2>7 DEF Books
<1>9. ASSUME UNCHANGED <<placed, pending, running, results, interrupted, w, seen,
                         result, recorded, store>>
      PROVE  Books'
  BY <1>9 DEF Books, HasResult
<1>10. CASE \/ Start \/ LeaveLoop \/ EndWave \/ ReportCancelled \/ ReportCompleted
            \/ Escape \/ StopSubmitting
  BY <1>9, <1>10 DEF Start, LeaveLoop, EndWave, ReportCancelled, ReportCompleted, Escape,
                     StopSubmitting, workVars
<1>11. CASE RequestCancel \/ CancelStep \/ Settled \/ UNCHANGED vars
  BY <1>9, <1>11 DEF RequestCancel, CancelStep, Settled, vars, workVars, mainVars
<1> QED
  BY <1>1, <1>2, <1>3, <1>4, <1>5, <1>6, <1>7, <1>8, <1>10, <1>11 DEF Next, Main

LEMMA PositionStep ==
  ASSUME IInv, [Next]_vars, TypeOK', Final
  PROVE  Position'
<1> USE DEF IInv
<1> Steps' = Steps
  BY DEF Final, Steps
<1>1. CASE TakeGroup
  <2> DEFINE group == NextGroup(plan, placed)
             skip  == {s \in group : DependencySkip(s)}
  <2>1. /\ pc = "group" /\ pc' \in {"group", "submit"}
        /\ pc' = "group" => group \ skip = {}
        /\ placed' = placed \union group /\ recorded' = recorded \union skip
        /\ pending' = group \ skip
        /\ UNCHANGED <<running, results, interrupted, w, cancel>>
    BY <1>1 DEF TakeGroup
  <2> HIDE DEF group, skip
  <2> QED BY <2>1 DEF Position, Between, Cancelled
<1>2. CASE Submit
  BY <1>2 DEF Submit, Position, Between, Cancelled
<1>3. CASE StopSubmitting
  <2>1. Cardinality({}) < MaxConcurrency
    BY FS_EmptySet, ConcurrencyOK
  <2>2. running = {} /\ ~Cancelled => pending = {}
    BY <1>3, <2>1 DEF StopSubmitting, CanSubmit
  <2> QED BY <1>3, <2>2 DEF StopSubmitting, Position, Between, Cancelled, workVars
<1>4. ASSUME Collect \/ InterruptWave, interrupted'
      PROVE  Cancelled'
  <2>1. Raised(cancel) # NotCancelled
    BY DEF Raised, NotCancelled
  <2>2. cancel' = Raised(cancel) \/ (interrupted /\ cancel' = cancel)
    BY <1>4 DEF Collect, InterruptWave
  <2> QED BY <2>1, <2>2 DEF Position, Cancelled
<1>5. CASE Collect
  <2>1. ~Cancelled' => ~Cancelled
    BY <1>5 DEF Collect, Cancelled, Raised, NotCancelled
  <2>2. ~Cancelled' => running \union results = running' \union results'
    BY <1>4, <1>5 DEF Collect, Done, Broken
  <2>3. pc' = "submit" /\ UNCHANGED <<placed, pending, recorded>>
    BY <1>5 DEF Collect
  <2> QED BY <1>4, <1>5, <2>1, <2>2, <2>3 DEF Position, Between
<1>6. CASE InterruptWave
  <2>1. interrupted' /\ Cancelled'
    BY <1>4, <1>6 DEF InterruptWave
  <2> QED BY <1>6, <2>1 DEF InterruptWave, Position, Between
<1>7. CASE Shutdown
  <2>1. \A s \in Steps : w'[s] # "submitted"
    BY <1>7 DEF Shutdown
  <2> QED BY <1>7, <2>1 DEF Shutdown, Position, Between, Cancelled
<1>8. CASE Join
  <2>1. \A s \in Steps : w[s] \notin Live
    BY <1>8 DEF Join, Busy, Live, Position
  <2> QED BY <1>8, <2>1 DEF Join, WaveResults, Position, Between, Cancelled, workVars
<1>9. CASE Merge
  <2>1. Least(results) \in results
    BY <1>9, StepsAreNumbers, LeastOf DEF Merge, TypeOK
  <2> QED BY <1>9, <2>1 DEF Merge, Position, Between, Cancelled, workVars
<1>10. CASE \E s \in Steps : Worker(s) \/ ExecuteInterrupted(s) \/ ExecuteBroken(s)
  <2>1. PICK s \in Steps : Worker(s) \/ ExecuteInterrupted(s) \/ ExecuteBroken(s)
    BY <1>10
  <2>2. /\ UNCHANGED <<mainVars, recorded, cancel>> /\ w[s] \in Live
        /\ \A t \in Steps : w'[t] \in Live => w[t] \in Live
        /\ \A t \in Steps : w'[t] = "submitted" => w[t] = "submitted"
    BY <2>1, WorkerEffect DEF Live
  <2> QED BY <2>2 DEF Position, Between, Cancelled, mainVars
<1>11. CASE Start \/ LeaveLoop \/ EndWave
  BY <1>11 DEF Start, LeaveLoop, EndWave, Position, Between, Cancelled, workVars
<1>12. CASE ReportCancelled \/ ReportCompleted \/ Escape
  BY <1>12 DEF ReportCancelled, ReportCompleted, Escape, Position, Between, Cancelled, workVars
<1>13. CASE RequestCancel \/ CancelStep
  BY <1>13 DEF RequestCancel, CancelStep, Position, Cancelled, NotCancelled, workVars, mainVars,
               TypeOK, EventSet
<1>14. CASE Settled \/ UNCHANGED vars
  BY <1>14 DEF Settled, vars, workVars, mainVars, Position, Cancelled
<1> QED
  BY <1>1, <1>2, <1>3, <1>5, <1>6, <1>7, <1>8, <1>9, <1>10, <1>11, <1>12, <1>13, <1>14
     DEF Next, Main

LEMMA PrerequisitesStep ==
  ASSUME IInv, [Next]_vars, TypeOK', Final
  PROVE  Prerequisites'
<1> USE DEF IInv
<1> Steps' = Steps
  BY DEF Final, Steps
<1>1. CASE TakeGroup
  <2> DEFINE group == NextGroup(plan, placed)
             skip  == {s \in group : DependencySkip(s)}
  <2>1. group \subseteq Steps /\ \A s \in group : DependsOn(plan, s) \subseteq placed
    <3>1. plan \in Plans /\ placed \in SUBSET DOMAIN plan
      BY DEF TypeOK, Steps
    <3> HIDE DEF group
    <3>2. NextGroup(plan, placed) \subseteq DOMAIN plan
      BY <3>1, GroupIsFresh
    <3>3. \A s \in NextGroup(plan, placed) : DependsOn(plan, s) \subseteq placed
      BY <3>1, GroupIsFresh
    <3> QED BY <3>2, <3>3 DEF group, Steps
  <2>2. placed \subseteq recorded
    BY <1>1 DEF TakeGroup, Position, Between
  <2>3. ASSUME NEW s \in group \ skip PROVE Prepared(s, store)
    BY <2>1, <2>2 DEF Prepared, DependencySkip, DependsOn, RequiredDeps
  <2>4. pending' = group \ skip /\ w' = w /\ seen' = seen
    BY <1>1 DEF TakeGroup
  <2> HIDE DEF group, skip
  <2>5. ASSUME NEW s \in group \ skip PROVE Prepared(s, store)'
    BY <2>1, <2>3, PreparedStays
  <2> QED BY <2>4, <2>5, PreparedStays DEF Prerequisites
<1>2. CASE Submit
  <2>1. Least(pending) \in pending
    BY <1>2, StepsAreNumbers, LeastOf DEF Submit, CanSubmit, TypeOK
  <2>2. PICK s \in pending :
          /\ pending' = pending \ {s} /\ store' = store
          /\ w' = [w EXCEPT ![s] = "submitted"] /\ seen' = [seen EXCEPT ![s] = store]
    BY <1>2, <2>1 DEF Submit
  <2>3. s \in Steps /\ pending \subseteq Steps
    BY DEF TypeOK
  <2>4. \A t \in Steps : /\ w'[t] = IF t = s THEN "submitted" ELSE w[t]
                         /\ seen'[t] = IF t = s THEN store ELSE seen[t]
    BY <2>2 DEF TypeOK
  <2>5. \A t \in pending : Prepared(t, store)'
    BY <2>3, PreparedStays DEF Prerequisites
  <2>6. Prepared(s, seen[s])'
    BY <2>2, <2>3, <2>4, <2>5 DEF Prepared, KindsOf
  <2>7. \A t \in Steps \ {s} : w'[t] \in Live => Prepared(t, seen[t])'
    BY <2>4, PreparedStays DEF Prerequisites
  <2> QED BY <2>2, <2>5, <2>6, <2>7 DEF Prerequisites
<1>3. ASSUME pending' \subseteq pending, seen' = seen,
             \A s \in Steps : w'[s] \in Live => w[s] \in Live
      PROVE  Prerequisites'
  BY <1>3, PreparedStays DEF Prerequisites, TypeOK
<1>4. CASE \E s \in Steps : Worker(s) \/ ExecuteInterrupted(s) \/ ExecuteBroken(s)
  <2>1. PICK s \in Steps : Worker(s) \/ ExecuteInterrupted(s) \/ ExecuteBroken(s)
    BY <1>4
  <2>2. UNCHANGED mainVars /\ seen' = seen /\ w[s] \in Live
        /\ \A t \in Steps \ {s} : w'[t] = w[t]
    BY <2>1, WorkerEffect
  <2> QED BY <2>2, <1>3 DEF mainVars
<1>5. CASE Shutdown
  <2>1. \A s \in Steps : w'[s] \in Live => w[s] \in Live
    BY <1>5 DEF Shutdown, Live
  <2> QED BY <1>5, <2>1, <1>3 DEF Shutdown
<1>6. CASE \/ StopSubmitting \/ Collect \/ InterruptWave \/ Join \/ Merge
           \/ Start \/ LeaveLoop \/ EndWave
  BY <1>3, <1>6 DEF StopSubmitting, Collect, InterruptWave, Join, Merge, Start, LeaveLoop,
                    EndWave, workVars
<1>7. CASE \/ ReportCancelled \/ ReportCompleted \/ Escape \/ RequestCancel \/ CancelStep
           \/ Settled \/ UNCHANGED vars
  BY <1>3, <1>7 DEF ReportCancelled, ReportCompleted, Escape, RequestCancel, CancelStep, Settled,
                    vars, workVars, mainVars
<1> QED
  BY <1>1, <1>2, <1>4, <1>5, <1>6, <1>7 DEF Next, Main

LEMMA AnnouncedStep ==
  ASSUME IInv, [Next]_vars, TypeOK', Final
  PROVE  Announced'
<1> USE DEF IInv
<1> Steps' = Steps
  BY DEF Final, Steps
<1>1. ASSUME NEW e \in PlanEvents, planLog' = Append(planLog, e)
      PROVE  \A x : In(x, planLog') <=> In(x, planLog) \/ x = e
  <2>1. planLog \in Seq(PlanEvents)
    BY DEF TypeOK
  <2>2. /\ Len(planLog) + 1 \in DOMAIN planLog' /\ planLog'[Len(planLog) + 1] = e
        /\ \A i \in DOMAIN planLog : i \in DOMAIN planLog' /\ planLog'[i] = planLog[i]
        /\ \A i \in DOMAIN planLog' : i \in DOMAIN planLog \/ i = Len(planLog) + 1
    BY <1>1, <2>1, AppendKeeps
  <2> QED BY <2>2 DEF In
<1>2. CASE Start
  BY <1>1, <1>2 DEF Start, Announced, PlanEvents, Cancelled
<1>3. CASE LeaveLoop
  BY <1>3 DEF LeaveLoop, Announced, Cancelled
<1>4. CASE ReportCancelled
  <2>1. CASE Cancelled
    BY <1>1, <1>4, <2>1 DEF ReportCancelled, Announced, PlanEvents, Cancelled
  <2>2. CASE ~Cancelled
    <3>1. recorded = Steps
      BY <1>4, <2>2 DEF ReportCancelled, Position, Between, TypeOK
    <3> QED BY <1>4, <2>2, <3>1 DEF ReportCancelled, Announced, Cancelled
  <2> QED BY <2>1, <2>2
<1>5. CASE ReportCompleted
  <2>1. CASE Cancelled
    BY <1>1, <1>5, <2>1 DEF ReportCompleted, Announced, PlanEvents, Cancelled
  <2>2. CASE ~Cancelled
    BY <1>1, <1>5, <2>2 DEF ReportCompleted, Announced, PlanEvents, Cancelled
  <2> QED BY <2>1, <2>2
<1>6. ASSUME planLog' = planLog, Cancelled => Cancelled',
             UNCHANGED pc \/ {pc, pc'} \intersect {"complete", "done"} = {},
             pc = "complete" \/ pc = "done" => recorded' = recorded
      PROVE  Announced'
  BY <1>6 DEF Announced
<1>7. CASE TakeGroup \/ EndWave \/ Merge \/ Escape
  BY <1>6, <1>7 DEF TakeGroup, EndWave, Merge, Escape, Cancelled, Announced
<1>8. Raised(cancel) # NotCancelled
  BY DEF Raised, NotCancelled
<1>9. CASE Submit \/ StopSubmitting \/ Collect \/ InterruptWave \/ Shutdown \/ Join
  BY <1>6, <1>8, <1>9 DEF Submit, StopSubmitting, Collect, InterruptWave, Shutdown, Join, Cancelled
<1>10. CASE \E s \in Steps : Worker(s) \/ ExecuteInterrupted(s) \/ ExecuteBroken(s)
  BY <1>6, <1>10, WorkerEffect DEF mainVars, Cancelled
<1>11. CASE RequestCancel \/ CancelStep
  BY <1>6, <1>11 DEF RequestCancel, CancelStep, Cancelled, NotCancelled, EventSet, TypeOK, mainVars
<1>12. CASE Settled \/ UNCHANGED vars
  BY <1>6, <1>12 DEF Settled, vars, mainVars, Cancelled
<1> QED
  BY <1>2, <1>3, <1>4, <1>5, <1>7, <1>9, <1>10, <1>11, <1>12 DEF Next, Main

LEMMA StepInv == IInv /\ [Next]_vars => IInv' /\ Final
<1> SUFFICES ASSUME IInv, [Next]_vars PROVE IInv' /\ Final
  OBVIOUS
<1>1. TypeOK'
  BY StepType DEF IInv
<1>2. Final
  BY StepFinal DEF IInv
<1> QED
  BY <1>1, <1>2, BooksStep, PositionStep, PrerequisitesStep, AnnouncedStep DEF IInv

LEMMA Invariance == Spec => []IInv
BY InitInv, StepInv, PTL DEF Spec

-----------------------------------------------------------------------------
(* No handler ever runs before its dependencies have their outcomes, after a
   required one ended badly, or without the evidence it requires: the check
   _dependency_skip makes once per step is still true at every later attempt,
   whatever other workers and the canceller do (schedule_plan, _run_wave). *)
THEOREM DependencySafety == Spec => []RunsOnlyWhenReady
<1>1. IInv => RunsOnlyWhenReady
  BY DEF IInv, Prerequisites, Prepared, RunsOnlyWhenReady, Busy, Live
<1> QED
  BY <1>1, Invariance, PTL

(* A result never changes once it is in its slot and evidence is only ever
   appended (schedule_plan). *)
THEOREM RecordsFinal == Spec => RecordsAreFinal
<1>1. IInv /\ [Next]_vars
        => [/\ \A s \in recorded : s \in recorded' /\ result'[s] = result[s]
            /\ Len(store') >= Len(store)
            /\ \A i \in DOMAIN store : store'[i] = store[i]]_vars
  BY StepInv DEF Final
<1> QED
  BY <1>1, Invariance, PTL DEF Spec, RecordsAreFinal

(* A run that no Ctrl-C cut short returns every result there is, a failure
   where a worker raised an Exception, and a run that was not cancelled a
   result for every step (schedule_plan, _run_wave). *)
THEOREM CompleteResults == Spec => []ResultsAreComplete
<1>1. IInv => ResultsAreComplete
  BY DEF IInv, TypeOK, Books, Position, Between, ResultsAreComplete
<1> QED
  BY <1>1, Invariance, PTL

(* No worker outlives a run that returned (the shutdown in _run_wave). *)
THEOREM QuietEnd == Spec => []QuietAtTheEnd
<1>1. IInv => QuietAtTheEnd
  BY DEF IInv, Position, Between, QuietAtTheEnd
<1> QED
  BY <1>1, Invariance, PTL

(* Missing results are announced by plan.cancelled, and plan.completed does
   not contradict it, though it reads the flag a second time (schedule_plan). *)
THEOREM LossesReported == Spec => []LossesAreReported
<1>1. IInv => LossesAreReported
  BY DEF IInv, Announced, LossesAreReported
<1> QED
  BY <1>1, Invariance, PTL

-----------------------------------------------------------------------------
(***************************************************************************)
(* More of the inductive invariant, on top of IInv.  InFlight:             *)
(* what the wave and the pool hold.  Lateness: who may still start when    *)
(* the run is cancelled.  Snapshots: the evidence of the steps of a wave   *)
(* is the store as it was when the wave began.  Told: what the events of a *)
(* step say at each position of its worker.                                *)
(***************************************************************************)
InFlight ==
  /\ running \union pending \union results \subseteq wave
  /\ pc \in {"submit", "wait"} =>
       /\ Cardinality(running) <= MaxConcurrency
       /\ {s \in Steps : w[s] \in Live} \subseteq running
  /\ Cardinality(Busy) <= MaxConcurrency

Lateness ==
  /\ ~Cancelled => \A s \in Steps : late[s] = 0
  /\ \A s \in Steps : late[s] = 0 \/ (late[s] = 1 /\ w[s] # "armed")
  /\ Cardinality({s \in Steps : late[s] > 0 \/ w[s] = "armed"}) <= MaxConcurrency

Snapshots ==
  /\ \A s \in Steps : w[s] = "idle" <=> attempt[s] = 0
  /\ pc \in {"submit", "wait", "shutdown", "join"} =>
       \A s \in wave : w[s] # "idle" => seen[s] = store
  /\ \A s, t \in wave : w[s] # "idle" /\ w[t] # "idle" => seen[s] = seen[t]
  /\ \A s \in recorded : result[s].kinds # {} => In(s, store)
  /\ \A s \in Steps : w[s] \in Live =>
       \A t \in DependsOn(plan, s) : result[t].kinds # {} => In(t, seen[s])
  /\ \A s \in results : \A i \in DOMAIN store :
       In(store[i], seen[s]) \/ (seen[store[i]] = seen[s] /\ store[i] < s)
  /\ \A i, j \in DOMAIN store : i < j =>
       In(store[i], seen[store[j]]) \/ (seen[store[i]] = seen[store[j]] /\ store[i] < store[j])

Terminal == {"completed", "failed", "skipped"}

Shaped(e) ==
  \A i \in DOMAIN e :
    /\ i = 1 => e[i] \in {"queued", "skipped"}
    /\ e[i] = "queued" => i = 1
    /\ e[i] = "started" => e[i - 1] \in {"queued", "retrying"}
    /\ e[i] \in {"completed", "failed", "retrying"} => e[i - 1] = "started"
    /\ e[i] \in Terminal => i = Len(e)

Starts(e) == {i \in DOMAIN e : e[i] = "started"}

\* The last event, if there is one, is one of these.
EndsIn(e, S) == e # <<>> /\ e[Len(e)] \in S

LastEvents(position) ==
  CASE position = "armed"                   -> {"queued", "retrying"}
    [] position \in {"again", "backoff"}    -> {"retrying"}
    [] position \in {"executing", "broken"} -> {"started"}

ToldOf(s) ==
  /\ Shaped(life[s])
  /\ attempt[s] <= plan[s].max
  /\ Cardinality(Starts(life[s])) <= attempt[s]
  /\ w[s] \in Live \ {"executing"} => Cardinality(Starts(life[s])) < attempt[s]
  /\ s \notin placed => life[s] = <<>>
  /\ s \in pending \/ w[s] = "submitted" => EndsIn(life[s], {"queued"})
  /\ w[s] \in (Live \union {"broken"}) \ {"submitted"} => EndsIn(life[s], LastEvents(w[s]))
  /\ w[s] \in {"idle", "submitted", "withdrawn"} => Starts(life[s]) = {}
  /\ w[s] \in {"again", "backoff", "executing"} => Starts(life[s]) # {}
  /\ HasResult(s) /\ w[s] # "broken" => EndsIn(life[s], {TerminalEvent(result[s].outcome)})
  /\ ~HasResult(s) => result[s] = NoResult /\ \A i \in DOMAIN life[s] : life[s][i] \notin Terminal
  /\ w[s] = "returned" \/ s \in recorded => HasResult(s)

Told == \A s \in Steps : ToldOf(s)

More == InFlight /\ Lateness /\ Snapshots /\ Told

-----------------------------------------------------------------------------
LEMMA StepsFinite == TypeOK => IsFiniteSet(Steps)
<1>1. TypeOK => Steps = 1 .. Len(plan) /\ Len(plan) \in Nat
  BY PlansOK DEF TypeOK, Steps
<1> QED
  BY <1>1, FS_Interval

\* A worker changes what is its own.
LEMMA OthersStay ==
  ASSUME TypeOK, NEW s \in Steps, Worker(s) \/ ExecuteInterrupted(s) \/ ExecuteBroken(s)
  PROVE  /\ UNCHANGED <<plan, mainVars, seen, recorded, store, cancel, planLog>>
         /\ \A t \in Steps \ {s} :
              UNCHANGED <<w[t], result[t], life[t], attempt[t], late[t]>>
<1> USE DEF TypeOK, mainVars
<1>1. CASE Begin(s)
  BY <1>1 DEF Begin, Answer, Log
<1>2. CASE StartAttempt(s)
  BY <1>2 DEF StartAttempt, Log
<1>3. CASE Execute(s)
  BY <1>3 DEF Execute, Answer, Log
<1>4. CASE Backoff(s)
  BY <1>4 DEF Backoff, Answer, Log
<1>5. CASE ExecuteInterrupted(s) \/ ExecuteBroken(s)
  BY <1>5 DEF ExecuteInterrupted, ExecuteBroken
<1> QED
  BY <1>1, <1>2, <1>3, <1>4, <1>5 DEF Worker

\* Where a worker is before and after a step of its own.
LEMMA WorkerMoves ==
  ASSUME TypeOK, NEW s \in Steps, Worker(s) \/ ExecuteInterrupted(s) \/ ExecuteBroken(s)
  PROVE  /\ w[s] \in Live /\ w'[s] \notin {"idle", "submitted", "withdrawn"}
         /\ w'[s] \in Live => w[s] # "submitted" \/ Cardinality(Busy) < PoolSize
         /\ w'[s] = "armed" => ~Cancelled
         /\ attempt'[s] \in {attempt[s], attempt[s] + 1}
         /\ \/ late'[s] = late[s]
            \/ w[s] = "armed" /\ w'[s] # "armed" /\ Cancelled /\ late'[s] = late[s] + 1
<1> USE DEF TypeOK, Live
<1>1. CASE Begin(s)
  BY <1>1 DEF Begin, Answer
<1>2. CASE StartAttempt(s)
  BY <1>2 DEF StartAttempt
<1>3. CASE Execute(s)
  BY <1>3 DEF Execute, Answer
<1>4. CASE Backoff(s)
  BY <1>4 DEF Backoff, Answer
<1>5. CASE ExecuteInterrupted(s) \/ ExecuteBroken(s)
  BY <1>5 DEF ExecuteInterrupted, ExecuteBroken
<1> QED
  BY <1>1, <1>2, <1>3, <1>4, <1>5 DEF Worker

\* A finite set, a part of it, and one element more.
LEMMA AtMost ==
  ASSUME NEW n \in Nat, NEW S, IsFiniteSet(S), Cardinality(S) <= n, NEW T,
         \/ T \subseteq S
         \/ Cardinality(S) < n /\ \E x : T \subseteq S \union {x}
  PROVE  Cardinality(T) <= n
<1>1. Cardinality(S) \in Nat
  BY FS_CardinalityType
<1>2. CASE T \subseteq S
  <2>1. IsFiniteSet(T) /\ Cardinality(T) <= Cardinality(S) /\ Cardinality(T) \in Nat
    BY <1>2, FS_Subset, FS_CardinalityType
  <2> QED BY <1>1, <2>1
<1>3. ASSUME Cardinality(S) < n, NEW x, T \subseteq S \union {x}
      PROVE  Cardinality(T) <= n
  <2>1. IsFiniteSet(S \union {x}) /\ Cardinality(S \union {x}) <= Cardinality(S) + 1
    BY <1>1, FS_AddElement
  <2>2. /\ IsFiniteSet(T) /\ Cardinality(T) <= Cardinality(S \union {x})
        /\ Cardinality(T) \in Nat /\ Cardinality(S \union {x}) \in Nat
    BY <1>3, <2>1, FS_Subset, FS_CardinalityType
  <2> QED BY <1>1, <1>3, <2>1, <2>2
<1> QED
  BY <1>2, <1>3

-----------------------------------------------------------------------------
LEMMA InitMore == Init => More
<1> SUFFICES ASSUME Init PROVE More
  OBVIOUS
<1>1. TypeOK
  BY InitType
<1>2. Cardinality({}) = 0 /\ Cardinality({}) <= MaxConcurrency
  BY FS_EmptySet, ConcurrencyOK
<1> USE DEF Init
<1>3. InFlight
  BY <1>2 DEF InFlight, Busy
<1>4. Lateness
  <2>1. {s \in Steps : late[s] > 0 \/ w[s] = "armed"} = {}
    OBVIOUS
  <2> QED BY <1>2, <2>1 DEF Lateness
<1>5. Snapshots
  BY DEF Snapshots, Live
<1>6. Told
  <2>1. ASSUME NEW s \in Steps PROVE ToldOf(s)
    <3>1. plan[s].max \in Nat
      BY PlansOK DEF Steps, StepOK
    <3>2. Starts(life[s]) = {} /\ Shaped(life[s])
      BY DEF Starts, Shaped
    <3>3. /\ life[s] = <<>> /\ attempt[s] = 0 /\ w[s] = "idle" /\ s \notin pending
          /\ result[s] = NoResult /\ ~HasResult(s) /\ s \notin recorded
      BY DEF HasResult, NoResult
    <3>4. DOMAIN life[s] = {} /\ w[s] \notin Live
      BY <3>3 DEF Live
    <3> HIDE DEF Init
    <3>5. /\ attempt[s] <= plan[s].max
          /\ Cardinality(Starts(life[s])) <= attempt[s]
      BY <1>2, <3>1, <3>2, <3>3
    <3> QED BY <3>2, <3>3, <3>4, <3>5 DEF ToldOf
  <2> QED BY <2>1 DEF Told
<1> QED
  BY <1>3, <1>4, <1>5, <1>6 DEF More

LEMMA InFlightStep ==
  ASSUME IInv, More, [Next]_vars, TypeOK', Final
  PROVE  InFlight'
<1> USE DEF IInv, More
<1> Steps' = Steps
  BY DEF Final, Steps
<1>0. /\ \A S \in SUBSET Steps : IsFiniteSet(S)
      /\ MaxConcurrency \in Nat \ {0} /\ Cardinality({}) = 0
  BY StepsFinite, FS_Subset, FS_EmptySet, ConcurrencyOK
<1>1. CASE TakeGroup
  <2>1. /\ running' = {} /\ results' = {} /\ pending' = wave' /\ w' = w
        /\ \A s \in Steps : w[s] \notin Live
    BY <1>1 DEF TakeGroup, Position, Between
  <2> QED BY <1>0, <2>1 DEF InFlight, Busy
<1>2. CASE Submit
  <2>1. Least(pending) \in pending
    BY <1>2, StepsAreNumbers, LeastOf DEF Submit, CanSubmit, TypeOK
  <2>2. PICK s \in pending :
          /\ pending' = pending \ {s} /\ running' = running \union {s}
          /\ w' = [w EXCEPT ![s] = "submitted"]
          /\ UNCHANGED <<results, wave>>
    BY <1>2, <2>1 DEF Submit
  <2>3. /\ s \in Steps /\ w[s] = "idle"
        /\ \A t \in Steps : w'[t] = IF t = s THEN "submitted" ELSE w[t]
    BY <2>2 DEF TypeOK, Books
  <2>4. Cardinality(running') <= MaxConcurrency
    <3>1. Cardinality(running) < MaxConcurrency
      BY <1>2 DEF Submit, CanSubmit
    <3>2. IsFiniteSet(running) /\ Cardinality(running) <= MaxConcurrency
      BY <1>0, <1>2 DEF TypeOK, InFlight, Submit
    <3> QED BY <1>0, <2>2, <3>1, <3>2, AtMost
  <2>5. Busy' = Busy
    BY <2>3 DEF Busy
  <2> QED BY <1>2, <2>2, <2>3, <2>4, <2>5 DEF InFlight, Live, Submit
<1>3. CASE Collect
  <2>1. /\ running' = running \ Done /\ Done \subseteq running
        /\ results' \subseteq results \union Done /\ pc = "wait"
        /\ UNCHANGED <<pending, wave, w>>
        /\ \A s \in Done : w[s] \notin Live
    BY <1>3 DEF Collect, Broken, Done, Live
  <2>2. Cardinality(running') <= MaxConcurrency
    <3>1. IsFiniteSet(running) /\ Cardinality(running) <= MaxConcurrency
      BY <1>0, <2>1 DEF TypeOK, InFlight
    <3> QED BY <1>0, <2>1, <3>1, AtMost
  <2> QED BY <2>1, <2>2 DEF InFlight, Busy
<1>4. CASE Shutdown
  <2>1. \A s \in Steps : w'[s] = w[s] \/ (w[s] = "submitted" /\ w'[s] = "withdrawn")
    BY <1>4 DEF Shutdown
  <2>2. Busy' = Busy
    BY <2>1 DEF Busy
  <2> QED BY <1>4, <2>2 DEF Shutdown, InFlight
<1>5. CASE \E s \in Steps : Worker(s) \/ ExecuteInterrupted(s) \/ ExecuteBroken(s)
  <2>1. PICK s \in Steps : Worker(s) \/ ExecuteInterrupted(s) \/ ExecuteBroken(s)
    BY <1>5
  <2>2. /\ UNCHANGED mainVars /\ w[s] \in Live
        /\ \A t \in Steps \ {s} : w'[t] = w[t]
        /\ w'[s] \in Live => w[s] # "submitted" \/ Cardinality(Busy) < PoolSize
        /\ w'[s] # "submitted"
    BY <2>1, OthersStay, WorkerMoves
  <2>3. Cardinality(Busy') <= MaxConcurrency
    <3>1. IsFiniteSet(Busy) /\ Cardinality(Busy) \in Nat /\ Cardinality(Busy) <= MaxConcurrency
      BY <1>0, FS_CardinalityType DEF InFlight, Busy
    <3>2. PoolSize <= MaxConcurrency /\ PoolSize \in Nat
      <4>1. Cardinality(wave) \in Nat
        BY <1>0, FS_CardinalityType DEF TypeOK
      <4> QED BY <1>0, <4>1 DEF PoolSize
    <3>3. CASE w'[s] \notin Live \/ w[s] # "submitted"
      <4>1. Busy' \subseteq Busy
        BY <2>2, <3>3 DEF Busy, Live
      <4> QED BY <1>0, <3>1, <4>1, AtMost
    <3>4. CASE Cardinality(Busy) < PoolSize
      <4>1. Busy' \subseteq Busy \union {s}
        BY <2>2 DEF Busy
      <4>2. Cardinality(Busy) < MaxConcurrency
        BY <1>0, <3>1, <3>2, <3>4
      <4> QED BY <1>0, <3>1, <4>1, <4>2, AtMost
    <3> QED BY <2>2, <3>3, <3>4
  <2>4. \A t \in Steps : w'[t] \in Live => w[t] \in Live
    BY <2>2
  <2> QED BY <2>2, <2>3, <2>4 DEF InFlight, mainVars
<1>6. CASE EndWave
  <2>1. running = {} /\ pending = {}
    BY <1>6 DEF EndWave, Position
  <2> QED BY <1>6, <2>1 DEF EndWave, InFlight, Busy, workVars
<1>7. CASE Start \/ LeaveLoop \/ ReportCancelled \/ ReportCompleted \/ Escape
  BY <1>7 DEF Start, LeaveLoop, ReportCancelled, ReportCompleted, Escape, InFlight, Busy, workVars
<1>8. CASE StopSubmitting \/ InterruptWave \/ Join \/ Merge
  BY <1>8 DEF StopSubmitting, InterruptWave, Join, WaveResults, Merge, InFlight, Busy, workVars
<1>9. CASE RequestCancel \/ CancelStep \/ Settled \/ UNCHANGED vars
  BY <1>9 DEF RequestCancel, CancelStep, Settled, vars, workVars, mainVars, InFlight, Busy
<1> QED
  BY <1>1, <1>2, <1>3, <1>4, <1>5, <1>6, <1>7, <1>8, <1>9 DEF Next, Main

LEMMA LatenessStep ==
  ASSUME IInv, More, [Next]_vars, TypeOK', Final
  PROVE  Lateness'
<1> USE DEF IInv, More
<1> Steps' = Steps
  BY DEF Final, Steps
<1> DEFINE Marked == {s \in Steps : late[s] > 0 \/ w[s] = "armed"}
<1>0. /\ \A S \in SUBSET Steps : IsFiniteSet(S)
      /\ MaxConcurrency \in Nat \ {0}
  BY StepsFinite, FS_Subset, ConcurrencyOK
<1>1. Cardinality(Marked) <= MaxConcurrency
  BY DEF Lateness
<1>2. ASSUME late' = late, Cancelled => Cancelled',
             \A s \in Steps : w'[s] = "armed" => w[s] = "armed"
      PROVE  Lateness'
  <2>1. Marked' \subseteq Marked
    BY <1>2
  <2>2. Cardinality(Marked') <= MaxConcurrency
    <3> HIDE DEF Marked
    <3>1. IsFiniteSet(Marked)
      BY <1>0 DEF Marked
    <3> QED BY <1>0, <1>1, <2>1, <3>1, AtMost
  <2> QED BY <1>2, <2>2 DEF Lateness
<1>3. CASE \E s \in Steps : Worker(s) \/ ExecuteInterrupted(s) \/ ExecuteBroken(s)
  <2>1. PICK s \in Steps : Worker(s) \/ ExecuteInterrupted(s) \/ ExecuteBroken(s)
    BY <1>3
  <2>2. /\ cancel' = cancel
        /\ \A t \in Steps \ {s} : w'[t] = w[t] /\ late'[t] = late[t]
        /\ w'[s] = "armed" => ~Cancelled
        /\ \/ late'[s] = late[s]
           \/ w[s] = "armed" /\ w'[s] # "armed" /\ Cancelled /\ late'[s] = late[s] + 1
        /\ w[s] \in Live
    BY <2>1, OthersStay, WorkerMoves
  <2>3. ~Cancelled' => \A t \in Steps : late'[t] = 0
    BY <2>2 DEF Lateness, Cancelled
  <2>4. \A t \in Steps : late'[t] = 0 \/ (late'[t] = 1 /\ w'[t] # "armed")
    BY <2>2 DEF Lateness
  <2>5. CASE Cancelled
    <3>1. \A t \in Steps : t \in Marked' => t \in Marked
      BY <2>2, <2>5 DEF Lateness
    <3> HIDE DEF Marked
    <3>2. IsFiniteSet(Marked) /\ Marked' \subseteq Marked
      BY <1>0, <3>1 DEF Marked
    <3>3. Cardinality(Marked') <= MaxConcurrency
      BY <1>0, <1>1, <3>2, AtMost
    <3> QED BY <2>3, <2>4, <3>3 DEF Lateness, Marked
  <2>6. CASE ~Cancelled
    <3>1. \A t \in Steps : late'[t] = 0
      BY <2>2, <2>3, <2>6 DEF Cancelled
    <3>2. Marked' \subseteq Busy'
      BY <3>1 DEF Busy
    <3>3. IsFiniteSet(Busy') /\ Cardinality(Busy') <= MaxConcurrency
      <4>1. InFlight'
        BY InFlightStep
      <4> QED BY <1>0, <4>1 DEF InFlight, Busy
    <3> HIDE DEF Marked
    <3>4. Cardinality(Marked') <= MaxConcurrency
      BY <1>0, <3>2, <3>3, AtMost
    <3> QED BY <2>3, <2>4, <3>4 DEF Lateness, Marked
  <2> QED BY <2>5, <2>6
<1> HIDE DEF Marked
<1>4. CASE Submit
  <2>1. \A s \in Steps : w'[s] = "armed" => w[s] = "armed"
    BY <1>4 DEF Submit, TypeOK
  <2> QED BY <1>2, <1>4, <2>1 DEF Submit, Cancelled
<1>5. CASE Shutdown
  <2>1. \A s \in Steps : w'[s] = "armed" => w[s] = "armed"
    BY <1>5 DEF Shutdown
  <2> QED BY <1>2, <1>5, <2>1 DEF Shutdown, Cancelled
<1>6. CASE Collect \/ InterruptWave
  <2>1. Raised(cancel) # NotCancelled
    BY DEF Raised, NotCancelled
  <2> QED BY <1>2, <1>6, <2>1 DEF Collect, InterruptWave, Cancelled, workVars
<1>7. CASE \/ Start \/ TakeGroup \/ LeaveLoop \/ StopSubmitting \/ Join \/ Merge \/ EndWave
           \/ ReportCancelled \/ ReportCompleted \/ Escape
  BY <1>2, <1>7 DEF Start, TakeGroup, LeaveLoop, StopSubmitting, Join, Merge, EndWave,
     ReportCancelled, ReportCompleted, Escape, Cancelled, workVars
<1>8. CASE RequestCancel \/ CancelStep
  BY <1>2, <1>8 DEF RequestCancel, CancelStep, Cancelled, NotCancelled, EventSet, TypeOK, workVars
<1>9. CASE Settled \/ UNCHANGED vars
  BY <1>2, <1>9 DEF Settled, vars, Cancelled, workVars
<1> QED
  BY <1>3, <1>4, <1>5, <1>6, <1>7, <1>8, <1>9 DEF Next, Main

\* Most steps leave what Snapshots is about as it is.
LEMMA SnapshotsKept ==
  ASSUME IInv, More, TypeOK', Final, seen' = seen, store' = store, wave' = wave,
         recorded' = recorded, results' \subseteq results,
         \A s \in Steps : /\ w'[s] = "idle" <=> w[s] = "idle"
                          /\ attempt'[s] = 0 <=> attempt[s] = 0
                          /\ w'[s] \in Live => w[s] \in Live,
         pc' \in {"submit", "wait", "shutdown", "join"} =>
           pc \in {"submit", "wait", "shutdown", "join"}
  PROVE  Snapshots'
<1> USE DEF IInv, More
<1> Steps' = Steps
  BY DEF Final, Steps
<1>1. \A s \in Steps : w[s] = "idle" <=> attempt[s] = 0
  BY DEF Snapshots
<1>2. \A s \in Steps : w'[s] = "idle" <=> attempt'[s] = 0
  BY <1>1
<1>3. /\ pc' \in {"submit", "wait", "shutdown", "join"} =>
           \A s \in wave' : w'[s] # "idle" => seen'[s] = store'
      /\ \A s, t \in wave' : w'[s] # "idle" /\ w'[t] # "idle" => seen'[s] = seen'[t]
  <2>1. wave \subseteq Steps
    BY DEF TypeOK
  <2> QED BY <2>1 DEF Snapshots
<1>4. \A s \in recorded' : result'[s].kinds # {} => In(s, store)'
  BY DEF Snapshots, Final, In
<1>5. ASSUME NEW s \in Steps, w'[s] \in Live, NEW t \in DependsOn(plan, s)'
      PROVE  result'[t].kinds # {} => In(t, seen[s])'
  <2>1. w[s] \in Live /\ t \in DependsOn(plan, s)
    BY <1>5 DEF DependsOn, Final
  <2>2. t \in recorded
    BY <2>1 DEF Prerequisites, Prepared
  <2> QED BY <2>1, <2>2 DEF Snapshots, Final, In
<1>6. \A s \in results' : \A i \in DOMAIN store' :
        In(store[i], seen[s])' \/ (seen'[store'[i]] = seen'[s] /\ store'[i] < s)
  BY DEF Snapshots, In
<1>7. \A i, j \in DOMAIN store' : i < j =>
        \/ In(store[i], seen[store[j]])'
        \/ (seen'[store'[i]] = seen'[store'[j]] /\ store'[i] < store'[j])
  BY DEF Snapshots, In
<1> QED
  BY <1>2, <1>3, <1>4, <1>5, <1>6, <1>7 DEF Snapshots

LEMMA SnapshotsStep ==
  ASSUME IInv, More, [Next]_vars, TypeOK', Final
  PROVE  Snapshots'
<1> USE DEF IInv, More
<1> Steps' = Steps
  BY DEF Final, Steps
<1>1. CASE TakeGroup
  <2> DEFINE group == NextGroup(plan, placed)
             skip  == {s \in group : DependencySkip(s)}
  <2>1. group \subseteq Steps \ placed
    BY GroupIsFresh DEF Steps, TypeOK
  <2>2. /\ wave' = group \ skip /\ recorded' = recorded \union skip /\ skip \subseteq group
        /\ UNCHANGED <<w, attempt, seen, store, results>>
        /\ \A s \in Steps : result'[s] = IF s \in skip THEN Skipped ELSE result[s]
        /\ \A s \in group : w[s] = "idle"
        /\ results = {} /\ \A s \in Steps : w[s] \notin Live
    BY <1>1, <2>1 DEF TakeGroup, TypeOK, Books, Position, Between
  <2> HIDE DEF group, skip
  <2>3. \A s \in recorded' : result'[s].kinds # {} => In(s, store)'
    <3>1. Skipped.kinds = {}
      BY DEF Skipped
    <3> QED BY <2>1, <2>2, <3>1 DEF Snapshots, In, TypeOK
  <2> QED BY <2>1, <2>2, <2>3 DEF Snapshots, In
<1>2. CASE Submit
  <2>1. Least(pending) \in pending
    BY <1>2, StepsAreNumbers, LeastOf DEF Submit, CanSubmit, TypeOK
  <2>2. PICK s \in pending :
          /\ w' = [w EXCEPT ![s] = "submitted"] /\ seen' = [seen EXCEPT ![s] = store]
          /\ attempt' = [attempt EXCEPT ![s] = 1]
          /\ UNCHANGED <<pc, wave, results, result, recorded, store>>
    BY <1>2, <2>1 DEF Submit
  <2>3. /\ s \in Steps /\ s \in wave /\ w[s] = "idle" /\ s \notin results /\ s \notin recorded
        /\ \A t \in Steps : /\ w'[t] = IF t = s THEN "submitted" ELSE w[t]
                            /\ seen'[t] = IF t = s THEN store ELSE seen[t]
                            /\ attempt'[t] = IF t = s THEN 1 ELSE attempt[t]
        /\ wave \subseteq Steps /\ results \subseteq Steps
        /\ \A i \in DOMAIN store : store[i] \in Steps /\ store[i] # s
    <3>1. s \in Steps /\ w[s] = "idle" /\ s \notin recorded
      BY DEF TypeOK, Books
    <3>2. s \in wave /\ s \notin results
      BY <3>1 DEF Books, InFlight
    <3>3. \A i \in DOMAIN store : store[i] \in Steps /\ store[i] # s
      BY <3>1 DEF Books, TypeOK
    <3> QED BY <2>2, <3>1, <3>2, <3>3 DEF TypeOK
  <2>4. \A t \in wave' : w'[t] # "idle" => seen'[t] = store'
    BY <1>2, <2>2, <2>3 DEF Submit, Snapshots
  <2>5. ASSUME NEW t \in Steps, w'[t] \in Live, NEW u \in DependsOn(plan, t)'
        PROVE  result'[u].kinds # {} => In(u, seen[t])'
    <3>1. u \in DependsOn(plan, t)
      BY DEF DependsOn, Final
    <3>2. CASE t = s
      <4>1. u \in recorded
        BY <2>2, <3>1, <3>2 DEF Prerequisites, Prepared
      <4> QED BY <2>2, <2>3, <3>2, <4>1 DEF Snapshots, In
    <3>3. CASE t # s
      BY <2>2, <2>3, <2>5, <3>1, <3>3 DEF Snapshots, In
    <3> QED BY <3>2, <3>3
  <2>6. \A t \in results' : \A i \in DOMAIN store' :
          In(store[i], seen[t])' \/ (seen'[store'[i]] = seen'[t] /\ store'[i] < t)
    BY <2>2, <2>3 DEF Snapshots, In
  <2>7. \A i, j \in DOMAIN store' : i < j =>
          \/ In(store[i], seen[store[j]])'
          \/ (seen'[store'[i]] = seen'[store'[j]] /\ store'[i] < store'[j])
    BY <2>2, <2>3 DEF Snapshots, In
  <2>8. /\ \A t \in Steps : w'[t] = "idle" <=> attempt'[t] = 0
        /\ \A t \in recorded' : result'[t].kinds # {} => In(t, store)'
    BY <2>2, <2>3 DEF Snapshots, In
  <2> QED BY <2>4, <2>5, <2>6, <2>7, <2>8 DEF Snapshots
<1>3. CASE Collect
  <2>1. /\ results' \subseteq results \union Done /\ pc = "wait" /\ pc' = "submit"
        /\ \A s \in Done : s \in Steps /\ s \in wave /\ w[s] # "idle"
        /\ UNCHANGED <<wave, w, attempt, seen, recorded, store>>
        /\ \A s \in Steps : result'[s].kinds # {} => result'[s] = result[s]
    <3>1. Failed.kinds = {}
      BY DEF Failed
    <3>2. /\ \A s \in Done : s \in running /\ w[s] # "idle"
          /\ running \subseteq Steps /\ running \subseteq wave
      BY DEF Done, InFlight, TypeOK
    <3> QED BY <1>3, <3>1, <3>2, CollectEffect
  <2>2. \A s \in Done : seen[s] = store
    BY <2>1 DEF Snapshots
  <2>3. \A s \in results' : \A i \in DOMAIN store :
          In(store[i], seen[s]) \/ (seen[store[i]] = seen[s] /\ store[i] < s)
    BY <2>1, <2>2 DEF Snapshots, In
  <2>4. /\ \A s \in recorded : s \in Steps
        /\ \A s \in Steps : w[s] \in Live => DependsOn(plan, s) \subseteq Steps
    BY DEF TypeOK, Prerequisites, Prepared
  <2>5. \A s \in recorded' : result'[s].kinds # {} => In(s, store)'
    BY <2>1, <2>4 DEF Snapshots, In
  <2>6. ASSUME NEW s \in Steps, w'[s] \in Live, NEW t \in DependsOn(plan, s)'
        PROVE  result'[t].kinds # {} => In(t, seen[s])'
    <3>1. w[s] \in Live /\ t \in DependsOn(plan, s) /\ t \in Steps
      BY <2>1, <2>4, <2>6 DEF DependsOn, Final
    <3> QED BY <2>1, <3>1 DEF Snapshots, In
  <2>7. /\ \A s \in Steps : w'[s] = "idle" <=> attempt'[s] = 0
        /\ \A s \in wave' : w'[s] # "idle" => seen'[s] = store'
        /\ \A s, t \in wave' : w'[s] # "idle" /\ w'[t] # "idle" => seen'[s] = seen'[t]
        /\ \A i, j \in DOMAIN store' : i < j =>
             \/ In(store[i], seen[store[j]])'
             \/ (seen'[store'[i]] = seen'[store'[j]] /\ store'[i] < store'[j])
    BY <2>1 DEF Snapshots, In
  <2>8. \A s \in results' : \A i \in DOMAIN store' :
          In(store[i], seen[s])' \/ (seen'[store'[i]] = seen'[s] /\ store'[i] < s)
    BY <2>1, <2>3 DEF In
  <2> QED BY <2>5, <2>6, <2>7, <2>8 DEF Snapshots
<1>4. CASE Merge
  <2>1. Least(results) \in results /\ \A t \in results : Least(results) <= t
    BY <1>4, StepsAreNumbers, LeastOf DEF Merge, TypeOK
  <2>2. PICK s \in results :
          /\ \A t \in results : s <= t
          /\ results' = results \ {s} /\ recorded' = recorded \union {s}
          /\ store' = IF result[s].kinds = {} THEN store ELSE Append(store, s)
          /\ UNCHANGED <<wave, w, attempt, seen, result>> /\ pc' = "merge"
    BY <1>4, <2>1 DEF Merge, workVars
  <2>3. /\ s \in Steps /\ results \subseteq Steps /\ Steps \subseteq Nat
        /\ \A t \in results : t \in wave /\ w[t] # "idle"
        /\ store \in Seq(Steps)
    BY StepsAreNumbers DEF TypeOK, Books, InFlight
  <2>4. /\ \A i \in DOMAIN store : i \in DOMAIN store' /\ store'[i] = store[i]
        /\ result[s].kinds # {} => In(s, store')
        /\ \A i \in DOMAIN store' :
             \/ i \in DOMAIN store
             \/ store'[i] = s /\ \A j \in DOMAIN store' : i < j => FALSE
    <3>1. CASE store' = store
      BY <2>2, <2>3, <3>1, AppendKeeps
    <3>2. CASE store' = Append(store, s)
      <4>1. /\ Len(store) \in Nat /\ DOMAIN store = 1 .. Len(store)
            /\ DOMAIN store' = 1 .. Len(store) + 1 /\ store'[Len(store) + 1] = s
            /\ \A i \in DOMAIN store : store'[i] = store[i]
        BY <2>3, <3>2, AppendKeeps
      <4>2. Len(store) + 1 \in DOMAIN store'
        BY <4>1
      <4>3. ASSUME NEW i \in DOMAIN store', i \notin DOMAIN store
            PROVE  i = Len(store) + 1 /\ \A j \in DOMAIN store' : i < j => FALSE
        BY <4>1, <4>3
      <4> QED BY <4>1, <4>2, <4>3 DEF In
    <3> QED BY <2>2, <3>1, <3>2
  <2>5. ASSUME NEW t \in results', NEW i \in DOMAIN store'
        PROVE  In(store[i], seen[t])' \/ (seen'[store'[i]] = seen'[t] /\ store'[i] < t)
    <3>1. CASE i \in DOMAIN store
      BY <2>2, <2>4, <2>5, <3>1 DEF Snapshots, In
    <3>2. CASE store'[i] = s
      <4>1. seen[s] = seen[t]
        BY <2>2, <2>3, <2>5 DEF Snapshots
      <4>2. s < t
        BY <2>2, <2>3, <2>5
      <4> QED BY <2>2, <3>2, <4>1, <4>2
    <3> QED BY <2>4, <3>1, <3>2
  <2>6. ASSUME NEW i \in DOMAIN store', NEW j \in DOMAIN store', i < j
        PROVE  \/ In(store[i], seen[store[j]])'
               \/ (seen'[store'[i]] = seen'[store'[j]] /\ store'[i] < store'[j])
    <3>1. i \in DOMAIN store
      BY <2>4, <2>6
    <3>2. store'[i] = store[i] /\ seen' = seen
      BY <2>2, <2>4, <3>1
    <3>3. CASE j \in DOMAIN store
      <4>1. store'[j] = store[j]
        BY <2>4, <3>3
      <4>2. \/ In(store[i], seen[store[j]])
            \/ seen[store[i]] = seen[store[j]] /\ store[i] < store[j]
        BY <2>6, <3>1, <3>3 DEF Snapshots
      <4> QED BY <3>2, <4>1, <4>2 DEF In
    <3>4. CASE store'[j] = s
      <4>1. In(store[i], seen[s]) \/ (seen[store[i]] = seen[s] /\ store[i] < s)
        BY <3>1 DEF Snapshots
      <4> QED BY <3>2, <3>4, <4>1 DEF In
    <3> QED BY <2>4, <3>3, <3>4
  <2>7. \A t \in recorded' : result'[t].kinds # {} => In(t, store)'
    BY <2>2, <2>4 DEF Snapshots, In
  <2>8. /\ \A t \in Steps : w'[t] = "idle" <=> attempt'[t] = 0
        /\ \A t, u \in wave' : w'[t] # "idle" /\ w'[u] # "idle" => seen'[t] = seen'[u]
        /\ \A t \in Steps : w'[t] \in Live =>
             \A u \in DependsOn(plan, t)' : result'[u].kinds # {} => In(u, seen[t])'
    BY <2>2, <2>3 DEF Snapshots, In, DependsOn, Final
  <2>9. pc' \notin {"submit", "wait", "shutdown", "join"}
    BY <2>2
  <2> QED BY <2>5, <2>6, <2>7, <2>8, <2>9 DEF Snapshots
<1>5. CASE EndWave
  BY <1>5 DEF EndWave, workVars, Snapshots, In, DependsOn, Final
<1>6. CASE \E s \in Steps : Worker(s) \/ ExecuteInterrupted(s) \/ ExecuteBroken(s)
  <2>1. PICK s \in Steps : Worker(s) \/ ExecuteInterrupted(s) \/ ExecuteBroken(s)
    BY <1>6
  <2>2. /\ UNCHANGED <<mainVars, seen, recorded, store>> /\ w[s] \in Live
        /\ \A t \in Steps \ {s} : w'[t] = w[t] /\ attempt'[t] = attempt[t]
        /\ w'[s] # "idle" /\ attempt'[s] \in {attempt[s], attempt[s] + 1}
    BY <2>1, OthersStay, WorkerMoves
  <2>3. w[s] # "idle" /\ attempt[s] # 0 /\ attempt'[s] # 0
    BY <2>2 DEF Live, Snapshots, TypeOK
  <2> QED BY <2>2, <2>3, SnapshotsKept DEF mainVars
<1>7. CASE Shutdown
  <2>1. \A s \in Steps : /\ w'[s] = "idle" <=> w[s] = "idle"
                         /\ w'[s] \in Live => w[s] \in Live
    BY <1>7 DEF Shutdown, Live
  <2> QED BY <1>7, <2>1, SnapshotsKept DEF Shutdown
<1>8. CASE \/ Start \/ LeaveLoop \/ StopSubmitting \/ InterruptWave \/ Join
           \/ ReportCancelled \/ ReportCompleted \/ Escape
  BY <1>8, SnapshotsKept DEF Start, LeaveLoop, StopSubmitting, InterruptWave, Join, WaveResults,
     ReportCancelled, ReportCompleted, Escape, workVars
<1>9. CASE RequestCancel \/ CancelStep \/ Settled \/ UNCHANGED vars
  BY <1>9, SnapshotsKept DEF RequestCancel, CancelStep, Settled, vars, workVars, mainVars
<1> QED
  BY <1>1, <1>2, <1>3, <1>4, <1>5, <1>6, <1>7, <1>8, <1>9 DEF Next, Main

-----------------------------------------------------------------------------
\* An event may follow those that a step has.
MayFollow(e, x) ==
  /\ e = <<>> => x \in {"queued", "skipped"}
  /\ e # <<>> => x # "queued" /\ ~EndsIn(e, Terminal)
  /\ x = "started" => EndsIn(e, {"queued", "retrying"})
  /\ x \in {"completed", "failed", "retrying"} => EndsIn(e, {"started"})

LEMMA Longer ==
  ASSUME NEW e \in Seq(Events), NEW x \in Events, Shaped(e), MayFollow(e, x)
  PROVE  Shaped(Append(e, x)) /\ EndsIn(Append(e, x), {x})
<1> DEFINE f == Append(e, x)
<1>1. /\ Len(e) \in Nat /\ Len(f) = Len(e) + 1 /\ DOMAIN e = 1 .. Len(e)
      /\ DOMAIN f = 1 .. Len(e) + 1 /\ f[Len(e) + 1] = x
      /\ \A i \in DOMAIN e : f[i] = e[i]
  BY AppendKeeps
<1>2. f # <<>> /\ (e = <<>> <=> Len(e) = 0)
  BY <1>1
<1> HIDE DEF f
<1>3. EndsIn(f, {x})
  BY <1>1, <1>2 DEF EndsIn
<1>4. ASSUME NEW i \in DOMAIN e
      PROVE  /\ i = 1 => f[i] \in {"queued", "skipped"}
             /\ f[i] = "queued" => i = 1
             /\ f[i] = "started" => f[i - 1] \in {"queued", "retrying"}
             /\ f[i] \in {"completed", "failed", "retrying"} => f[i - 1] = "started"
             /\ f[i] \notin Terminal
  <2>1. f[i] = e[i] /\ i \in 1 .. Len(e)
    BY <1>1
  <2>2. i # 1 => f[i - 1] = e[i - 1]
    BY <1>1, <2>1
  <2>3. i = 1 => e[i] \in {"queued", "skipped"}
    BY DEF Shaped
  <2>4. f[i] \notin Terminal
    BY <1>1, <1>2, <2>1 DEF Shaped, MayFollow, EndsIn
  <2> QED BY <2>1, <2>2, <2>3, <2>4 DEF Shaped
<1>5. /\ Len(e) = 0 => x \in {"queued", "skipped"}
      /\ Len(e) # 0 => x # "queued"
      /\ x = "started" => Len(e) # 0 /\ f[Len(e)] \in {"queued", "retrying"}
      /\ x \in {"completed", "failed", "retrying"} => Len(e) # 0 /\ f[Len(e)] = "started"
  BY <1>1, <1>2 DEF MayFollow, EndsIn
<1>6. ASSUME NEW i \in DOMAIN f, i \notin DOMAIN e
      PROVE  i = Len(e) + 1 /\ f[i] = x /\ i - 1 = Len(e)
  BY <1>1, <1>6
<1>7. Shaped(f)
  BY <1>1, <1>4, <1>5, <1>6 DEF Shaped
<1> QED
  BY <1>3, <1>7 DEF f

LEMMA StartsOf ==
  ASSUME NEW e \in Seq(Events), NEW x \in Events
  PROVE  /\ Cardinality(Starts(e)) \in Nat
         /\ Starts(e) = {} => Cardinality(Starts(e)) = 0
         /\ x # "started" => Starts(Append(e, x)) = Starts(e)
         /\ x = "started" => /\ Starts(Append(e, x)) # {}
                             /\ Cardinality(Starts(Append(e, x))) = Cardinality(Starts(e)) + 1
<1> DEFINE f == Append(e, x)
<1>1. /\ Len(e) \in Nat /\ DOMAIN e = 1 .. Len(e)
      /\ DOMAIN f = 1 .. Len(e) + 1 /\ f[Len(e) + 1] = x
      /\ \A i \in DOMAIN e : f[i] = e[i]
  BY AppendKeeps
<1>2. IsFiniteSet(Starts(e))
  <2>1. IsFiniteSet(DOMAIN e) /\ Starts(e) \subseteq DOMAIN e
    BY <1>1, FS_Interval DEF Starts
  <2> QED BY <2>1, FS_Subset
<1> HIDE DEF f
<1>3. Len(e) + 1 \notin Starts(e) /\ Len(e) + 1 \in DOMAIN f
  BY <1>1 DEF Starts
<1>4. \A i \in DOMAIN f : i \in DOMAIN e \/ i = Len(e) + 1
  BY <1>1
<1>5. x # "started" => Starts(f) = Starts(e)
  BY <1>1, <1>3, <1>4 DEF Starts
<1>6. x = "started" => Starts(f) = Starts(e) \union {Len(e) + 1}
  BY <1>1, <1>3, <1>4 DEF Starts
<1>7. Cardinality(Starts(e) \union {Len(e) + 1}) = Cardinality(Starts(e)) + 1
  BY <1>2, <1>3, FS_AddElement
<1> QED
  BY <1>2, <1>5, <1>6, <1>7, FS_CardinalityType, FS_EmptySet DEF f

\* A step to which nothing happens that its events would tell.
LEMMA ToldStays ==
  ASSUME NEW s \in Steps, ToldOf(s), plan' = plan, life'[s] = life[s],
         attempt'[s] = attempt[s], result'[s] = result[s],
         \/ w'[s] = w[s]
         \/ w'[s] = "withdrawn" /\ w[s] = "submitted"
         \/ w'[s] = "raised" /\ w[s] = "executing"
         \/ w'[s] = "broken" /\ w[s] = "executing",
         placed \subseteq placed',
         s \in pending' => s \in pending,
         s \in recorded' => s \in recorded \/ HasResult(s)
  PROVE  ToldOf(s)'
<1>1. /\ HasResult(s)' <=> HasResult(s)
      /\ s \in recorded' => HasResult(s)
  BY DEF HasResult, ToldOf
<1>2. CASE w'[s] = w[s]
  BY <1>1, <1>2 DEF ToldOf
<1>3. CASE w'[s] = "withdrawn" /\ w[s] = "submitted"
  BY <1>1, <1>3 DEF ToldOf, Live
<1>4. CASE w'[s] = "raised" /\ w[s] = "executing"
  BY <1>1, <1>4 DEF ToldOf, Live
<1>5. CASE w'[s] = "broken" /\ w[s] = "executing"
  <2>1. EndsIn(life[s], LastEvents("broken"))
    BY <1>5 DEF ToldOf, Live, LastEvents
  <2> QED BY <1>1, <1>5, <2>1 DEF ToldOf, Live
<1> QED
  BY <1>2, <1>3, <1>4, <1>5

LEMMA AnswerTold ==
  ASSUME TypeOK, NEW s \in Steps, ToldOf(s), UNCHANGED <<plan, placed, pending>>,
         s \in placed \ pending, attempt' = attempt,
         NEW r \in [outcome : Outcomes, kinds : SUBSET Kinds],
         MayFollow(life[s], TerminalEvent(r.outcome)),
         Answer(s, r, TerminalEvent(r.outcome))
  PROVE  ToldOf(s)'
<1> DEFINE x == TerminalEvent(r.outcome)
<1>1. x \in Terminal /\ x \in Events /\ x # "started" /\ life[s] \in Seq(Events)
  BY DEF TypeOK, TerminalEvent, Terminal, Events
<1>2. result'[s] = r /\ w'[s] = "returned" /\ life'[s] = Append(life[s], x)
  BY DEF Answer, Log, TypeOK
<1>3. HasResult(s)'
  BY <1>2 DEF HasResult, Outcomes
<1>4. Shaped(life'[s]) /\ EndsIn(life'[s], {x}) /\ Starts(life'[s]) = Starts(life[s])
  <2> HIDE DEF x
  <2>1. Shaped(life[s]) /\ MayFollow(life[s], x)
    BY DEF ToldOf, x
  <2> QED BY <1>1, <1>2, <2>1, Longer, StartsOf
<1> HIDE DEF x
<1>5. EndsIn(life'[s], {TerminalEvent(result'[s].outcome)})
  BY <1>2, <1>4 DEF x
<1> QED
  BY <1>2, <1>3, <1>4, <1>5 DEF ToldOf, Live

LEMMA WorkerTold ==
  ASSUME IInv, More, TypeOK', NEW s \in Steps, Worker(s) \/ ExecuteInterrupted(s) \/ ExecuteBroken(s)
  PROVE  ToldOf(s)'
<1> USE DEF IInv, More
<1>1. /\ ToldOf(s) /\ UNCHANGED <<plan, placed, pending, recorded>>
      /\ s \in placed \ pending /\ s \notin recorded /\ life[s] \in Seq(Events)
      /\ w[s] \in Live /\ attempt[s] \in Nat /\ plan[s].max \in Nat
  <2>1. w[s] \in Live /\ UNCHANGED <<plan, mainVars, recorded>>
    BY OthersStay, WorkerMoves
  <2>2. plan[s].max \in Nat
    BY PlansOK DEF Steps, StepOK, TypeOK
  <2> QED BY <2>1, <2>2 DEF Told, Books, Live, TypeOK, mainVars
<1>2. ~EndsIn(life[s], Terminal) /\ life[s] # <<>>
  BY <1>1 DEF ToldOf, EndsIn, LastEvents, Live, Terminal
<1>3. MayFollow(life[s], TerminalEvent(Skipped.outcome))
      /\ TerminalEvent(Skipped.outcome) = "skipped"
      /\ Skipped \in [outcome : Outcomes, kinds : SUBSET Kinds]
  BY <1>2 DEF MayFollow, TerminalEvent, Skipped, Outcomes
<1>4. CASE Begin(s)
  <2>1. CASE Answer(s, Skipped, "skipped")
    <3>1. attempt' = attempt
      BY <1>4 DEF Begin
    <3> QED BY <1>1, <1>3, <2>1, <3>1, AnswerTold
  <2>2. CASE w' = [w EXCEPT ![s] = "armed"] /\ UNCHANGED <<result, life>>
    <3>1. w'[s] = "armed" /\ attempt' = attempt /\ life' = life /\ result' = result
          /\ w[s] \in {"submitted", "again"}
      BY <1>4, <2>2 DEF Begin, TypeOK
    <3>2. EndsIn(life[s], LastEvents("armed"))
      BY <1>1, <3>1 DEF ToldOf, EndsIn, LastEvents, Live
    <3> QED BY <1>1, <3>1, <3>2 DEF ToldOf, HasResult, Live
  <2> QED BY <1>4, <2>1, <2>2 DEF Begin
<1>5. CASE StartAttempt(s)
  <2>1. /\ w[s] = "armed" /\ w'[s] = "executing" /\ life'[s] = Append(life[s], "started")
        /\ attempt' = attempt /\ result' = result
    BY <1>5 DEF StartAttempt, Log, TypeOK
  <2>2. "started" \in Events /\ Shaped(life[s]) /\ MayFollow(life[s], "started")
    BY <1>1, <1>2, <2>1 DEF ToldOf, MayFollow, EndsIn, LastEvents, Live, Events
  <2>3. Shaped(life'[s]) /\ EndsIn(life'[s], {"started"})
    BY <1>1, <2>1, <2>2, Longer
  <2>4. Starts(life'[s]) # {} /\ Cardinality(Starts(life'[s])) <= attempt'[s]
    <3>1. /\ Cardinality(Starts(life'[s])) = Cardinality(Starts(life[s])) + 1
          /\ Starts(life'[s]) # {} /\ Cardinality(Starts(life[s])) \in Nat
      BY <1>1, <2>1, <2>2, StartsOf
    <3>2. Cardinality(Starts(life[s])) < attempt[s]
      BY <1>1, <2>1 DEF ToldOf, Live
    <3> QED BY <1>1, <2>1, <3>1, <3>2
  <2>5. ~HasResult(s)
    BY <1>1, <2>1 DEF Books, Live
  <2>6. \A i \in DOMAIN life'[s] : life'[s][i] \notin Terminal
    BY <2>3 DEF Shaped, EndsIn, Terminal
  <2> QED BY <1>1, <2>1, <2>3, <2>4, <2>5, <2>6 DEF ToldOf, HasResult, Live, LastEvents
<1>6. CASE Execute(s)
  <2>1. PICK r \in Replies(s) :
          \/ Answer(s, r, TerminalEvent(r.outcome)) /\ UNCHANGED attempt
          \/ /\ CanRetry(s, r)
             /\ Log(s, "retrying")
             /\ w' = [w EXCEPT ![s] = IF plan[s].backoff THEN "backoff" ELSE "again"]
             /\ attempt' = [attempt EXCEPT ![s] = @ + 1]
             /\ UNCHANGED result
    BY <1>6 DEF Execute
  <2>2. w[s] = "executing" /\ EndsIn(life[s], {"started"})
    BY <1>1, <1>6 DEF Execute, ToldOf, LastEvents, Live
  <2>3. CASE Answer(s, r, TerminalEvent(r.outcome)) /\ UNCHANGED attempt
    <3>1. MayFollow(life[s], TerminalEvent(r.outcome))
      BY <1>2, <2>2 DEF MayFollow, TerminalEvent
    <3>2. r \in [outcome : Outcomes, kinds : SUBSET Kinds]
      BY ReplyType
    <3> QED BY <1>1, <2>3, <3>1, <3>2, AnswerTold
  <2>4. CASE /\ CanRetry(s, r)
             /\ Log(s, "retrying")
             /\ w' = [w EXCEPT ![s] = IF plan[s].backoff THEN "backoff" ELSE "again"]
             /\ attempt' = [attempt EXCEPT ![s] = @ + 1]
             /\ UNCHANGED result
    <3>1. /\ w'[s] \in {"backoff", "again"} /\ life'[s] = Append(life[s], "retrying")
          /\ attempt'[s] = attempt[s] + 1 /\ result' = result /\ attempt[s] < plan[s].max
      BY <2>4 DEF Log, TypeOK, CanRetry
    <3>2. "retrying" \in Events /\ Shaped(life[s]) /\ MayFollow(life[s], "retrying")
      BY <1>1, <1>2, <2>2 DEF ToldOf, MayFollow, Events
    <3>3. Shaped(life'[s]) /\ EndsIn(life'[s], {"retrying"})
      BY <1>1, <3>1, <3>2, Longer
    <3>4. /\ Cardinality(Starts(life'[s])) < attempt'[s] /\ Starts(life'[s]) # {}
          /\ Cardinality(Starts(life'[s])) <= attempt'[s] /\ attempt'[s] <= plan'[s].max
      <4>1. Starts(life'[s]) = Starts(life[s]) /\ Cardinality(Starts(life[s])) \in Nat
        BY <1>1, <3>1, <3>2, StartsOf
      <4>2. Cardinality(Starts(life[s])) <= attempt[s] /\ Starts(life[s]) # {}
        BY <1>1, <2>2 DEF ToldOf
      <4> QED BY <1>1, <3>1, <4>1, <4>2
    <3>5. ~HasResult(s)
      BY <1>1 DEF Books, Live
    <3>6. \A i \in DOMAIN life'[s] : life'[s][i] \notin Terminal
      BY <3>3 DEF Shaped, EndsIn, Terminal
    <3> QED BY <1>1, <3>1, <3>3, <3>4, <3>5, <3>6 DEF ToldOf, HasResult, Live, LastEvents
  <2> QED BY <2>1, <2>3, <2>4
<1>7. CASE Backoff(s)
  <2>1. CASE Answer(s, Skipped, "skipped")
    <3>1. attempt' = attempt
      BY <1>7 DEF Backoff
    <3> QED BY <1>1, <1>3, <2>1, <3>1, AnswerTold
  <2>2. CASE w' = [w EXCEPT ![s] = "again"] /\ UNCHANGED <<result, life>>
    <3>1. w'[s] = "again" /\ attempt' = attempt /\ life' = life /\ result' = result
          /\ w[s] = "backoff"
      BY <1>7, <2>2 DEF Backoff, TypeOK
    <3> QED BY <1>1, <3>1 DEF ToldOf, HasResult, Live, LastEvents
  <2> QED BY <1>7, <2>1, <2>2 DEF Backoff
<1>8. CASE ExecuteInterrupted(s) \/ ExecuteBroken(s)
  <2>1. /\ w'[s] \in {"raised", "broken"} /\ w[s] = "executing"
        /\ UNCHANGED <<life, attempt, result>>
    BY <1>8 DEF ExecuteInterrupted, ExecuteBroken, TypeOK
  <2> QED BY <1>1, <2>1, ToldStays
<1> QED
  BY <1>4, <1>5, <1>6, <1>7, <1>8 DEF Worker

LEMMA ToldStep ==
  ASSUME IInv, More, [Next]_vars, TypeOK', Final
  PROVE  Told'
<1> USE DEF IInv, More
<1> Steps' = Steps
  BY DEF Final, Steps
<1> SUFFICES ASSUME NEW s \in Steps PROVE ToldOf(s)'
  BY DEF Told
<1>0. ToldOf(s) /\ plan' = plan
  BY DEF Told, Final
<1>1. CASE TakeGroup
  <2> DEFINE group == NextGroup(plan, placed)
             skip  == {t \in group : DependencySkip(t)}
  <2>1. group \subseteq Steps \ placed
    BY GroupIsFresh DEF Steps, TypeOK
  <2>2. /\ placed' = placed \union group /\ recorded' = recorded \union skip
        /\ pending' = group \ skip /\ skip \subseteq group
        /\ UNCHANGED <<w, attempt>>
        /\ result'[s] = IF s \in skip THEN Skipped ELSE result[s]
        /\ life'[s] = CASE s \in skip         -> Append(life[s], "skipped")
                        [] s \in group \ skip -> Append(life[s], "queued")
                        [] OTHER              -> life[s]
    BY <1>1 DEF TakeGroup
  <2> HIDE DEF group, skip
  <2>3. CASE s \notin group
    BY <1>0, <2>2, <2>3, ToldStays
  <2>4. ASSUME s \in group, NEW x \in {"skipped", "queued"}, life'[s] = Append(life[s], x)
        PROVE  /\ Shaped(life'[s]) /\ EndsIn(life'[s], {x})
               /\ Starts(life'[s]) = Starts(life[s]) /\ life[s] = <<>> /\ x \in Events
    <3>1. life[s] = <<>> /\ Shaped(life[s]) /\ life[s] \in Seq(Events)
      BY <1>0, <2>1, <2>4 DEF ToldOf, TypeOK
    <3>2. MayFollow(life[s], x) /\ x \in Events /\ x # "started"
      BY <2>4, <3>1 DEF MayFollow, EndsIn, Events
    <3> QED BY <2>4, <3>1, <3>2, Longer, StartsOf
  <2>5. s \in group => w[s] = "idle" /\ s \in Steps
    BY <2>1 DEF Books
  <2>6. CASE s \in skip
    <3>1. /\ Shaped(life'[s]) /\ EndsIn(life'[s], {"skipped"})
          /\ Starts(life'[s]) = Starts(life[s])
      BY <2>2, <2>4, <2>6
    <3>2. HasResult(s)' /\ TerminalEvent(result'[s].outcome) = "skipped"
      BY <2>2, <2>6 DEF HasResult, Skipped, TerminalEvent
    <3> QED BY <1>0, <2>2, <2>5, <2>6, <3>1, <3>2 DEF ToldOf, Live
  <2>7. CASE s \in group \ skip
    <3>1. /\ Shaped(life'[s]) /\ EndsIn(life'[s], {"queued"})
          /\ Starts(life'[s]) = Starts(life[s]) /\ life[s] = <<>>
      BY <2>2, <2>4, <2>7
    <3>2. ~HasResult(s) /\ result'[s] = result[s] /\ w'[s] = "idle" /\ s \notin recorded
      BY <1>0, <2>1, <2>2, <2>5, <2>7, <3>1 DEF ToldOf, EndsIn, Books
    <3>3. \A i \in DOMAIN life'[s] : life'[s][i] \notin Terminal
      BY <3>1 DEF Shaped, EndsIn, Terminal
    <3> QED BY <1>0, <2>2, <2>7, <3>1, <3>2, <3>3 DEF ToldOf, HasResult, Live
  <2> QED BY <2>2, <2>3, <2>6, <2>7
<1>2. CASE Submit
  <2>1. Least(pending) \in pending
    BY <1>2, StepsAreNumbers, LeastOf DEF Submit, CanSubmit, TypeOK
  <2>2. PICK t \in pending :
          /\ pending' = pending \ {t} /\ w' = [w EXCEPT ![t] = "submitted"]
          /\ attempt' = [attempt EXCEPT ![t] = 1]
          /\ UNCHANGED <<plan, placed, result, recorded, life>>
    BY <1>2, <2>1 DEF Submit
  <2>3. CASE s # t
    <3>1. w'[s] = w[s] /\ attempt'[s] = attempt[s]
      BY <2>2, <2>3 DEF TypeOK
    <3> QED BY <1>0, <2>2, <2>3, <3>1, ToldStays
  <2>4. CASE s = t
    <3>1. w'[s] = "submitted" /\ attempt'[s] = 1 /\ w[s] = "idle" /\ s \notin recorded
      BY <2>2, <2>4 DEF TypeOK, Books
    <3>2. Starts(life[s]) = {} /\ EndsIn(life[s], {"queued"}) /\ s \in placed
      BY <1>0, <2>2, <2>4, <3>1 DEF ToldOf, Books
    <3>3. Cardinality(Starts(life[s])) = 0
      BY <3>2, FS_EmptySet
    <3>4. 1 <= plan[s].max
      <4>1. plan[s].max \in Nat \ {0}
        BY PlansOK DEF Steps, StepOK, TypeOK
      <4> QED BY <4>1
    <3>5. /\ life'[s] = life[s] /\ plan'[s].max = plan[s].max /\ result'[s] = result[s]
          /\ s \in placed' /\ s \notin recorded'
      BY <2>2, <3>1, <3>2
    <3>6. /\ attempt'[s] <= plan'[s].max
          /\ Cardinality(Starts(life'[s])) <= attempt'[s]
          /\ Cardinality(Starts(life'[s])) < attempt'[s]
      BY <3>1, <3>3, <3>4, <3>5
    <3> QED BY <1>0, <3>1, <3>2, <3>5, <3>6 DEF ToldOf, HasResult, Live
  <2> QED BY <2>3, <2>4
<1>3. CASE \E t \in Steps : Worker(t) \/ ExecuteInterrupted(t) \/ ExecuteBroken(t)
  <2>1. PICK t \in Steps : Worker(t) \/ ExecuteInterrupted(t) \/ ExecuteBroken(t)
    BY <1>3
  <2>2. CASE s = t
    BY <2>1, <2>2, WorkerTold
  <2>3. CASE s # t
    <3>1. UNCHANGED <<placed, pending, recorded, w[s], result[s], life[s], attempt[s]>>
      BY <2>1, <2>3, OthersStay DEF mainVars
    <3> QED BY <1>0, <3>1, ToldStays
  <2> QED BY <2>2, <2>3
<1>4. CASE Merge
  <2>1. Least(results) \in results
    BY <1>4, StepsAreNumbers, LeastOf DEF Merge, TypeOK
  <2>2. s \in recorded' => s \in recorded \/ HasResult(s)
    <3>1. s \in results => w[s] = "returned" \/ result[s] = Failed
      BY DEF Books
    <3>2. Failed.outcome # "none"
      BY DEF Failed
    <3> QED BY <1>0, <1>4, <2>1, <3>1, <3>2 DEF Merge, ToldOf, HasResult
  <2> QED BY <1>0, <1>4, <2>2, ToldStays DEF Merge, workVars
<1>5. CASE Shutdown
  <2>1. w'[s] = w[s] \/ (w'[s] = "withdrawn" /\ w[s] = "submitted")
    BY <1>5 DEF Shutdown
  <2> QED BY <1>0, <1>5, <2>1, ToldStays DEF Shutdown
<1>6. CASE \/ Start \/ LeaveLoop \/ StopSubmitting \/ InterruptWave \/ Join \/ EndWave
           \/ ReportCancelled \/ ReportCompleted \/ Escape
  BY <1>0, <1>6, ToldStays DEF Start, LeaveLoop, StopSubmitting, InterruptWave, Join, EndWave,
     ReportCancelled, ReportCompleted, Escape, workVars
<1>7. CASE RequestCancel \/ CancelStep \/ Settled \/ UNCHANGED vars
  BY <1>0, <1>7, ToldStays DEF RequestCancel, CancelStep, Settled, vars, workVars, mainVars
<1>8. CASE Collect
  <2>1. /\ UNCHANGED <<placed, pending, recorded, w, attempt, life>>
        /\ result'[s] = IF s \in Done /\ w[s] = "broken" THEN Failed ELSE result[s]
    BY <1>8, CollectEffect
  <2>2. CASE result'[s] = result[s]
    BY <1>0, <2>1, <2>2, ToldStays
  <2>3. CASE w[s] = "broken" /\ result'[s] = Failed
    <3>1. HasResult(s)' /\ w'[s] = "broken"
      BY <2>1, <2>3 DEF HasResult, Failed
    <3> QED BY <1>0, <2>1, <3>1 DEF ToldOf, Live
  <2> QED BY <2>1, <2>2, <2>3
<1> QED
  BY <1>1, <1>2, <1>3, <1>4, <1>5, <1>6, <1>7, <1>8 DEF Next, Main

LEMMA MoreStep == IInv /\ More /\ [Next]_vars => More'
<1> SUFFICES ASSUME IInv, More, [Next]_vars PROVE More'
  OBVIOUS
<1>1. TypeOK' /\ Final
  BY StepInv DEF IInv
<1> QED
  BY <1>1, InFlightStep, LatenessStep, SnapshotsStep, ToldStep DEF More

LEMMA MoreInvariance == Spec => [](IInv /\ More)
BY InitInv, InitMore, StepInv, MoreStep, PTL DEF Spec

-----------------------------------------------------------------------------
(* The submission loop never has more in flight than the pool has threads,
   nor more than max_concurrency allows (_run_wave). *)
THEOREM PoolFits == Spec => []InFlightFitsPool
<1>1. ASSUME IInv, More, pc \in {"submit", "wait"}
      PROVE  /\ Cardinality(running) <= PoolSize
             /\ {s \in Steps : w[s] \in Live} \subseteq running
  <2> USE <1>1 DEF IInv, More
  <2>1. IsFiniteSet(wave) /\ running \subseteq wave
    BY StepsFinite, FS_Subset DEF TypeOK, InFlight
  <2>2. Cardinality(running) <= Cardinality(wave)
    BY <2>1, FS_Subset
  <2> QED BY <1>1, <2>2 DEF InFlight, PoolSize
<1>2. IInv /\ More => InFlightFitsPool
  BY <1>1 DEF InFlightFitsPool
<1> QED
  BY <1>2, MoreInvariance, PTL

(* A cancellation lets each worker start the attempt it was past the check
   for, and nothing else (_execute_with_retries). *)
THEOREM CancellationStops == Spec => []CancelStopsWork
<1>1. ASSUME IInv, More PROVE CancelStopsWork
  <2> USE <1>1 DEF IInv, More
  <2> DEFINE marked == {s \in Steps : late[s] > 0 \/ w[s] = "armed"}
             started == {s \in Steps : late[s] > 0}
  <2>1. IsFiniteSet(marked) /\ Cardinality(marked) <= MaxConcurrency /\ MaxConcurrency \in Nat
    BY StepsFinite, FS_Subset, ConcurrencyOK DEF Lateness
  <2>2. started \subseteq marked
    OBVIOUS
  <2>3. \A s \in Steps : late[s] <= 1
    BY DEF Lateness
  <2> HIDE DEF marked, started
  <2>4. Cardinality(started) <= MaxConcurrency
    BY <2>1, <2>2, AtMost
  <2> QED BY <2>3, <2>4 DEF CancelStopsWork, started
<1> QED
  BY <1>1, MoreInvariance, PTL

(* Which evidence a step is given does not depend on which worker was faster
   (_run_wave submits every step with the same snapshot). *)
THEOREM EvidenceDeterministic == Spec => []EvidenceIsDeterministic
<1>1. ASSUME IInv, More PROVE EvidenceIsDeterministic
  <2> USE <1>1 DEF IInv, More
  <2>1. \A s, t \in wave : attempt[s] > 0 /\ attempt[t] > 0 => seen[s] = seen[t]
    <3>1. \A s \in wave : attempt[s] > 0 => w[s] # "idle"
      BY DEF Snapshots, TypeOK
    <3> QED BY <3>1 DEF Snapshots
  <2>2. \A s \in Busy : \A t \in DependsOn(plan, s) : result[t].kinds # {} => In(t, seen[s])
    BY DEF Snapshots, Busy, Live
  <2>3. \A i, j \in DOMAIN store : i < j =>
          In(store[i], seen[store[j]]) \/ (seen[store[i]] = seen[store[j]] /\ store[i] < store[j])
    BY DEF Snapshots
  <2> QED BY <2>1, <2>2, <2>3 DEF EvidenceIsDeterministic
<1> QED
  BY <1>1, MoreInvariance, PTL

(* The events of a step tell its story once, and the last one is its verdict;
   only those of a worker that raised an Exception end with the attempt
   (_execute_with_retries). *)
THEOREM EventsTellTheStory == Spec => []EventLifecycle
<1>1. ASSUME IInv, More, NEW s \in Steps
      PROVE  /\ \A i \in DOMAIN life[s] :
                  /\ i = 1 => life[s][i] \in {"queued", "skipped"}
                  /\ life[s][i] = "queued" => i = 1
                  /\ life[s][i] = "started" => life[s][i - 1] \in {"queued", "retrying"}
                  /\ life[s][i] \in {"completed", "failed", "retrying"} => life[s][i - 1] = "started"
                  /\ life[s][i] \in Terminal => i = Len(life[s])
             /\ Cardinality({i \in DOMAIN life[s] : life[s][i] = "started"}) <= plan[s].max
             /\ IF w[s] = "broken" THEN life[s][Len(life[s])] = "started"
                ELSE HasResult(s) <=> \E i \in DOMAIN life[s] :
                                        /\ life[s][i] = TerminalEvent(result[s].outcome)
                                        /\ life[s][i] \in Terminal
  <2> USE <1>1 DEF IInv, More
  <2>1. ToldOf(s) /\ life[s] \in Seq(Events)
    BY <1>1 DEF Told, TypeOK
  <2>2. Cardinality(Starts(life[s])) <= plan[s].max
    <3>1. /\ Cardinality(Starts(life[s])) <= attempt[s] /\ attempt[s] <= plan[s].max
          /\ attempt[s] \in Nat /\ plan[s].max \in Nat
      BY <1>1, <2>1, PlansOK DEF ToldOf, TypeOK, Steps, StepOK
    <3>2. Cardinality(Starts(life[s])) \in Nat
      BY <2>1, StartsOf DEF Events
    <3> QED BY <3>1, <3>2
  <2>3. CASE HasResult(s) /\ w[s] # "broken"
    <3>1. EndsIn(life[s], {TerminalEvent(result[s].outcome)})
      BY <2>1, <2>3 DEF ToldOf
    <3>2. Len(life[s]) \in DOMAIN life[s] /\ life[s][Len(life[s])] = TerminalEvent(result[s].outcome)
      BY <2>1, <3>1 DEF EndsIn
    <3>3. TerminalEvent(result[s].outcome) \in Terminal
      BY DEF TerminalEvent, Terminal
    <3> QED BY <2>1, <2>2, <2>3, <3>2, <3>3 DEF ToldOf, Shaped, Starts
  <2>4. CASE ~HasResult(s) /\ w[s] # "broken"
    BY <2>1, <2>2, <2>4 DEF ToldOf, Shaped, Starts
  <2>5. CASE w[s] = "broken"
    <3>1. life[s][Len(life[s])] = "started"
      BY <2>1, <2>5 DEF ToldOf, EndsIn, LastEvents, Live
    <3> QED BY <2>1, <2>2, <2>5, <3>1 DEF ToldOf, Shaped, Starts
  <2> QED BY <2>3, <2>4, <2>5
<1>2. IInv /\ More => EventLifecycle
  BY <1>1 DEF EventLifecycle, Terminal
<1> QED
  BY <1>2, MoreInvariance, PTL

-----------------------------------------------------------------------------
(***************************************************************************)
(* The scheduler implements PlanRun: every step of a thread is a step of   *)
(* the plan's run or changes nothing there.                                *)
(***************************************************************************)
LEMMA PhaseWhere ==
  ASSUME IInv, More, NEW s \in Steps
  PROVE  /\ HasResult(s) \/ w[s] \in {"raised", "broken"} => PhaseOf(s) = "over"
         /\ w[s] \in Live \union {"idle", "withdrawn"} /\ ~HasResult(s) =>
              PhaseOf(s) = IF Starts(life[s]) = {} THEN "waiting" ELSE "running"
         /\ w[s] \in Live => ~HasResult(s)
         /\ PhaseOf(s) = "running" => s \in Busy
         /\ s \in recorded => HasResult(s)
<1> USE DEF IInv, More
<1>1. ToldOf(s) /\ w[s] \in Positions
  BY DEF Told, TypeOK
<1>2. In("started", life[s]) <=> Starts(life[s]) # {}
  BY DEF In, Starts
<1>3. w[s] \in Live => ~HasResult(s)
  BY DEF Books, Live
<1>4. w[s] \in Live \union {"idle", "withdrawn"} => w[s] \notin {"raised", "broken"}
  BY DEF Live
<1>5. ASSUME PhaseOf(s) = "running" PROVE s \in Busy
  <2>1. Starts(life[s]) # {} /\ ~HasResult(s) /\ w[s] \notin {"raised", "broken"}
    BY <1>2, <1>5 DEF PhaseOf
  <2> QED BY <1>1, <2>1 DEF ToldOf, Busy, Positions
<1> QED
  BY <1>1, <1>2, <1>3, <1>4, <1>5 DEF PhaseOf, ToldOf

\* Where a verdict is not yet the result, it has no artifacts.
LEMMA VerdictWhere ==
  ASSUME IInv, NEW s \in Steps
  PROVE  /\ s \in recorded \/ w[s] # "broken" => VerdictOf(s) = result[s]
         /\ VerdictOf(s).kinds # {} => VerdictOf(s) = result[s]
<1>1. Failed.kinds = {}
  BY DEF Failed
<1> QED
  BY <1>1 DEF VerdictOf, IInv, Books

LEMMA SameCardinality == \A S : Abstract!Cardinality(S) = Cardinality(S)
BY DEF Abstract!Cardinality, Cardinality

\* What PlanRun calls available, over and bad.
LEMMA Verdict ==
  ASSUME IInv, More
  PROVE  /\ \A s \in Steps : Abstract!Over(s) <=> PhaseOf(s) = "over"
         /\ \A s \in recorded : s \in Steps /\ Abstract!Over(s)
         /\ \A s \in recorded : Abstract!Bad(s) <=> result[s].outcome \in {"failed", "skipped"}
         /\ Abstract!Available = UNION {VerdictOf(s).kinds : s \in {t \in Steps : PhaseOf(t) = "over"}}
         /\ Abstract!Running = {s \in Steps : PhaseOf(s) = "running"}
<1>1. \A s \in Steps : Abstract!Over(s) <=> PhaseOf(s) = "over"
  BY DEF Abstract!Over
<1>2. \A s \in recorded : s \in Steps /\ Abstract!Over(s)
  BY <1>1, PhaseWhere DEF IInv, TypeOK
<1>3. \A s \in recorded : Abstract!Bad(s) <=> result[s].outcome \in {"failed", "skipped"}
  <2>1. \A s \in recorded : VerdictOf(s) = result[s]
    BY <1>2, VerdictWhere
  <2> QED BY <1>2, <2>1 DEF Abstract!Bad, Steps
<1>4. Abstract!Available = UNION {VerdictOf(s).kinds : s \in {t \in Steps : PhaseOf(t) = "over"}}
  BY <1>1 DEF Abstract!Available, Steps
<1>5. Abstract!Running = {s \in Steps : PhaseOf(s) = "running"}
  BY DEF Abstract!Running, Steps
<1> QED
  BY <1>1, <1>2, <1>3, <1>4, <1>5

LEMMA InitRefines == Init => Abstract!Init
<1> SUFFICES ASSUME Init PROVE Abstract!Init
  OBVIOUS
<1>1. \A s \in Steps : PhaseOf(s) = "waiting"
  BY DEF Init, PhaseOf, HasResult, NoResult, In
<1>2. Cancelled \in BOOLEAN /\ RunOf = "open"
  BY DEF Init, Cancelled, RunOf
<1>3. \A s \in Steps : VerdictOf(s) = NoResult
  BY DEF Init, VerdictOf
<1> QED
  BY <1>1, <1>2, <1>3 DEF Init, Abstract!Init, Steps, NoResult, Abstract!None

LEMMA Stutter ==
  ASSUME plan' = plan, Cancelled' = Cancelled, RunOf' = RunOf,
         \A s \in Steps : PhaseOf(s)' = PhaseOf(s) /\ VerdictOf(s)' = VerdictOf(s)
  PROVE  UNCHANGED Abstract!vars
BY DEF Abstract!vars, Steps

LEMMA PhaseStays ==
  ASSUME NEW s \in Steps, result'[s] = result[s],
         In("started", life[s])' <=> In("started", life[s]),
         w'[s] = "raised" <=> w[s] = "raised", w'[s] = "broken" <=> w[s] = "broken"
  PROVE  PhaseOf(s)' = PhaseOf(s) /\ VerdictOf(s)' = VerdictOf(s)
BY DEF PhaseOf, VerdictOf, HasResult

\* One step of the plan gets its verdict, or is passed over in a cancelled run.
LEMMA EndRefines ==
  ASSUME IInv, More, plan' = plan, Cancelled' = Cancelled, RunOf' = RunOf, RunOf # "closed",
         NEW s \in Steps, NEW v \in Abstract!Verdicts \union {Abstract!None},
         PhaseOf(s)' = "over", VerdictOf(s)' = v,
         \A t \in Steps \ {s} : PhaseOf(t)' = PhaseOf(t) /\ VerdictOf(t)' = VerdictOf(t),
         \/ PhaseOf(s) = "running"
         \/ PhaseOf(s) = "waiting" /\ Cancelled /\ v = Skipped
  PROVE  Abstract!Next
<1>1. CASE PhaseOf(s) = "running"
  <2>1. [t \in Steps |-> VerdictOf(t)]' = [[t \in Steps |-> VerdictOf(t)] EXCEPT ![s] = v]
    BY DEF Steps
  <2>2. [t \in Steps |-> PhaseOf(t)]' = [[t \in Steps |-> PhaseOf(t)] EXCEPT ![s] = "over"]
    BY DEF Steps
  <2>3. [t \in Steps |-> PhaseOf(t)][s] = "running"
    BY <1>1
  <2>4. Abstract!Conclude(s)
    BY <2>1, <2>2, <2>3 DEF Abstract!Conclude
  <2> QED BY <2>4 DEF Abstract!Next, Steps
<1>2. CASE PhaseOf(s) = "waiting" /\ Cancelled /\ v = Skipped
  <2>1. [t \in Steps |-> VerdictOf(t)]'
          = [t \in Steps |-> IF t \in {s} THEN Skipped ELSE [u \in Steps |-> VerdictOf(u)][t]]
    BY <1>2 DEF Steps
  <2>2. Abstract!PassOver({s})
    BY <1>2, <2>1 DEF Abstract!PassOver, Abstract!Skipped, Skipped, Steps
  <2>3. {s} \in SUBSET DOMAIN plan
    BY DEF Steps
  <2> QED BY <2>2, <2>3 DEF Abstract!Next
<1> QED
  BY <1>1, <1>2

LEMMA WorkerRefines ==
  ASSUME IInv, More, TypeOK', NEW s \in Steps, Worker(s) \/ ExecuteInterrupted(s) \/ ExecuteBroken(s)
  PROVE  [Abstract!Next]_(Abstract!vars)
<1> USE DEF IInv, More
<1>1. /\ UNCHANGED <<plan, pc, recorded, cancel, seen>> /\ w[s] \in Live
      /\ \A t \in Steps \ {s} : UNCHANGED <<w[t], result[t], life[t]>>
  BY OthersStay, WorkerMoves DEF mainVars
<1>2. /\ Cancelled' = Cancelled /\ RunOf' = RunOf /\ RunOf # "closed"
      /\ \A t \in Steps \ {s} : PhaseOf(t)' = PhaseOf(t) /\ VerdictOf(t)' = VerdictOf(t)
      /\ ~HasResult(s) /\ result[s] = NoResult /\ life[s] \in Seq(Events)
      /\ w[s] # "broken" /\ VerdictOf(s) = NoResult
  <2>1. \A t \in Steps \ {s} : PhaseOf(t)' = PhaseOf(t) /\ VerdictOf(t)' = VerdictOf(t)
    BY <1>1, PhaseStays DEF In
  <2>2. pc # "done"
    BY <1>1 DEF Position, Between
  <2>3. ~HasResult(s) /\ result[s] = NoResult
    BY <1>1, PhaseWhere DEF Told, ToldOf
  <2>4. w[s] # "broken" /\ VerdictOf(s) = result[s]
    BY <1>1 DEF Live, VerdictOf
  <2> QED BY <1>1, <2>1, <2>2, <2>3, <2>4 DEF Cancelled, RunOf, TypeOK
<1>3. PhaseOf(s) = IF Starts(life[s]) = {} THEN "waiting" ELSE "running"
  BY <1>1, <1>2, PhaseWhere
<1>4. ASSUME NEW r \in [outcome : Outcomes, kinds : SUBSET Kinds], NEW e, Answer(s, r, e)
      PROVE  r \in Abstract!Verdicts /\ PhaseOf(s)' = "over" /\ VerdictOf(s)' = r
  <2>1. result'[s] = r /\ r.outcome # "none" /\ w'[s] = "returned"
    BY <1>4 DEF Answer, TypeOK, Outcomes
  <2> QED BY <1>4, <2>1 DEF Abstract!Verdicts, Abstract!Outcomes, Outcomes, PhaseOf, HasResult,
             VerdictOf
<1>5. Skipped \in [outcome : Outcomes, kinds : SUBSET Kinds]
  BY DEF Skipped, Outcomes
<1>6. ASSUME result' = result, PhaseOf(s)' = PhaseOf(s), w'[s] # "broken"
      PROVE  UNCHANGED Abstract!vars
  <2>1. \A t \in Steps : PhaseOf(t)' = PhaseOf(t) /\ VerdictOf(t)' = VerdictOf(t)
    BY <1>2, <1>6 DEF VerdictOf
  <2> QED BY <1>1, <1>2, <1>6, <2>1, Stutter
<1>7. CASE Begin(s)
  <2>1. CASE Answer(s, Skipped, "skipped") /\ Cancelled
    BY <1>1, <1>2, <1>3, <1>4, <1>5, <2>1, EndRefines
  <2>2. CASE w' = [w EXCEPT ![s] = "armed"] /\ UNCHANGED <<result, life>>
    <3>1. {w[s], w'[s]} \intersect {"raised", "broken"} = {}
      BY <1>1, <2>2 DEF TypeOK, Live
    <3>2. PhaseOf(s)' = PhaseOf(s)
      BY <2>2, <3>1, PhaseStays DEF In
    <3> QED BY <1>6, <2>2, <3>1, <3>2
  <2>3. \/ Answer(s, Skipped, "skipped") /\ Cancelled
        \/ w' = [w EXCEPT ![s] = "armed"] /\ UNCHANGED <<result, life>>
    BY <1>7 DEF Begin
  <2> QED BY <2>1, <2>2, <2>3
<1>8. CASE StartAttempt(s)
  <2>1. /\ w[s] = "armed" /\ w'[s] = "executing" /\ life'[s] = Append(life[s], "started")
        /\ result' = result
    BY <1>8 DEF StartAttempt, Log, TypeOK
  <2>2. PhaseOf(s)' = "running"
    <3>1. Len(life[s]) + 1 \in DOMAIN life'[s] /\ life'[s][Len(life[s]) + 1] = "started"
      BY <1>2, <2>1, AppendKeeps DEF Events
    <3>2. In("started", life'[s])
      BY <3>1 DEF In
    <3> QED BY <1>2, <2>1, <3>2 DEF PhaseOf, HasResult
  <2>3. CASE Starts(life[s]) # {}
    BY <1>3, <1>6, <2>1, <2>2, <2>3
  <2>4. CASE Starts(life[s]) = {}
    <3>1. Prepared(s, seen[s])
      BY <1>1 DEF Prerequisites
    <3>2. \A t \in DependsOn(plan, s) : Abstract!Over(t)
      BY <3>1, Verdict DEF Prepared
    <3>3. \A d \in RequiredDeps(plan, s) : ~Abstract!Bad(d.on)
      BY <3>1, Verdict DEF Prepared, DependsOn, RequiredDeps
    <3>4. RequiredKinds(plan, s) \subseteq Abstract!Available
      <4>1. \A i \in DOMAIN seen[s] : seen[s][i] \in recorded
        BY DEF Books
      <4>2. \A t \in recorded : t \in Steps /\ PhaseOf(t) = "over"
        BY Verdict
      <4>3. KindsOf(seen[s]) \subseteq Abstract!Available
        BY <4>1, <4>2, Verdict, VerdictWhere DEF KindsOf
      <4> QED BY <3>1, <4>3 DEF Prepared
    <3>5. Cardinality(Abstract!Running) < MaxConcurrency
      <4>1. Abstract!Running \subseteq Busy \ {s} /\ s \in Busy
        BY <1>3, <2>1, <2>4, Verdict, PhaseWhere DEF Busy
      <4>2. IsFiniteSet(Busy) /\ Cardinality(Busy) <= MaxConcurrency /\ MaxConcurrency \in Nat
        BY StepsFinite, FS_Subset, ConcurrencyOK DEF InFlight, Busy
      <4>3. Cardinality(Busy \ {s}) = Cardinality(Busy) - 1 /\ IsFiniteSet(Busy \ {s})
        BY <4>1, <4>2, FS_RemoveElement
      <4>4. Cardinality(Abstract!Running) <= Cardinality(Busy \ {s})
        BY <4>1, <4>3, FS_Subset
      <4>5. /\ Cardinality(Busy) \in Nat /\ Cardinality(Abstract!Running) \in Nat
            /\ Cardinality(Busy \ {s}) \in Nat
        BY <4>1, <4>2, <4>3, FS_CardinalityType, FS_Subset
      <4> QED BY <4>2, <4>3, <4>4, <4>5
    <3>6. Abstract!Satisfied(s)
      BY <3>2, <3>3, <3>4 DEF Abstract!Satisfied, Abstract!DependsOn, Abstract!RequiredDeps,
         Abstract!RequiredKinds, DependsOn, RequiredDeps, RequiredKinds
    <3>7. Abstract!Launch(s)
      <4>1. PhaseOf(s) = "waiting"
        BY <1>3, <2>4
      <4>2. [t \in Steps |-> PhaseOf(t)]' = [[t \in Steps |-> PhaseOf(t)] EXCEPT ![s] = "running"]
        BY <1>1, <1>2, <2>2 DEF Steps
      <4>3. [t \in Steps |-> PhaseOf(t)][s] = "waiting"
        BY <4>1
      <4>4. /\ UNCHANGED <<plan, Cancelled, RunOf>>
            /\ [t \in Steps |-> VerdictOf(t)]' = [t \in Steps |-> VerdictOf(t)]
        BY <1>1, <1>2, <2>1 DEF VerdictOf, Steps
      <4> QED BY <3>5, <3>6, <4>2, <4>3, <4>4, SameCardinality DEF Abstract!Launch
    <3> QED BY <1>2, <3>7 DEF Abstract!Next, Steps
  <2> QED BY <2>3, <2>4
<1>9. CASE Execute(s)
  <2>1. PICK r \in Replies(s) :
          \/ Answer(s, r, TerminalEvent(r.outcome))
          \/ /\ Log(s, "retrying")
             /\ w' = [w EXCEPT ![s] = IF plan[s].backoff THEN "backoff" ELSE "again"]
             /\ UNCHANGED result
    BY <1>9 DEF Execute
  <2>2. PhaseOf(s) = "running" /\ In("started", life[s])
    BY <1>3, <1>9 DEF Execute, Told, ToldOf, Starts, In
  <2>3. CASE Answer(s, r, TerminalEvent(r.outcome))
    <3>1. r \in [outcome : Outcomes, kinds : SUBSET Kinds]
      BY ReplyType
    <3> QED BY <1>1, <1>2, <1>4, <2>2, <2>3, <3>1, EndRefines
  <2>4. CASE /\ Log(s, "retrying")
             /\ w' = [w EXCEPT ![s] = IF plan[s].backoff THEN "backoff" ELSE "again"]
             /\ UNCHANGED result
    <3>1. w'[s] \notin {"raised", "broken"} /\ life'[s] = Append(life[s], "retrying")
      BY <2>4 DEF TypeOK, Log
    <3>2. In("started", life'[s])
      <4>1. \A i \in DOMAIN life[s] : i \in DOMAIN life'[s] /\ life'[s][i] = life[s][i]
        BY <1>2, <3>1, AppendKeeps DEF Events
      <4> QED BY <2>2, <4>1 DEF In
    <3>3. PhaseOf(s)' = "running"
      BY <1>2, <2>4, <3>1, <3>2 DEF PhaseOf, HasResult
    <3> QED BY <1>6, <2>2, <2>4, <3>1, <3>3
  <2> QED BY <2>1, <2>3, <2>4
<1>10. CASE Backoff(s)
  <2>1. PhaseOf(s) = "running"
    BY <1>3, <1>10 DEF Backoff, Told, ToldOf
  <2>2. CASE Answer(s, Skipped, "skipped")
    BY <1>1, <1>2, <1>4, <1>5, <2>1, <2>2, EndRefines
  <2>3. CASE w' = [w EXCEPT ![s] = "again"] /\ UNCHANGED <<result, life>>
    <3>1. {w[s], w'[s]} \intersect {"raised", "broken"} = {}
      BY <1>1, <2>3 DEF TypeOK, Live
    <3>2. PhaseOf(s)' = PhaseOf(s)
      BY <2>3, <3>1, PhaseStays DEF In
    <3> QED BY <1>6, <2>3, <3>1, <3>2
  <2> QED BY <1>10, <2>2, <2>3 DEF Backoff
<1>11. CASE ExecuteInterrupted(s)
  <2>1. PhaseOf(s) = "running"
    BY <1>3, <1>11 DEF ExecuteInterrupted, Told, ToldOf
  <2>2. VerdictOf(s)' = Abstract!None /\ PhaseOf(s)' = "over"
    <3>1. result' = result /\ w'[s] = "raised" /\ Abstract!None = result[s]
      BY <1>2, <1>11 DEF ExecuteInterrupted, TypeOK, Abstract!None, NoResult
    <3> QED BY <3>1 DEF PhaseOf, VerdictOf
  <2> QED BY <1>1, <1>2, <2>1, <2>2, EndRefines
<1>12. CASE ExecuteBroken(s)
  <2>1. PhaseOf(s) = "running"
    BY <1>3, <1>12 DEF ExecuteBroken, Told, ToldOf
  <2>2. w'[s] = "broken"
    BY <1>12 DEF ExecuteBroken, TypeOK
  <2>3. /\ VerdictOf(s)' = Failed /\ PhaseOf(s)' = "over"
        /\ Failed \in Abstract!Verdicts
    BY <2>2 DEF PhaseOf, VerdictOf, Failed, Abstract!Verdicts, Abstract!Outcomes
  <2> QED BY <1>1, <1>2, <2>1, <2>3, EndRefines
<1> QED
  BY <1>7, <1>8, <1>9, <1>10, <1>11, <1>12 DEF Worker

\* Steps that change nothing in the plan's run, unless they cancel it.
LEMMA QuietRefines ==
  ASSUME plan' = plan, RunOf' = RunOf, Cancelled => Cancelled',
         \A s \in Steps : PhaseOf(s)' = PhaseOf(s) /\ VerdictOf(s)' = VerdictOf(s)
  PROVE  [Abstract!Next]_(Abstract!vars)
<1>1. CASE Cancelled' = Cancelled
  BY <1>1, Stutter
<1>2. CASE ~Cancelled /\ Cancelled'
  <2>1. /\ [s \in Steps |-> PhaseOf(s)]' = [s \in Steps |-> PhaseOf(s)]
        /\ [s \in Steps |-> VerdictOf(s)]' = [s \in Steps |-> VerdictOf(s)]
    BY DEF Steps
  <2>2. Cancelled' = TRUE
    BY <1>2 DEF Cancelled
  <2>3. Abstract!Cancel
    BY <1>2, <2>1, <2>2 DEF Abstract!Cancel
  <2> QED BY <2>3 DEF Abstract!Next
<1> QED
  BY <1>1, <1>2 DEF Cancelled

LEMMA TakeGroupRefines ==
  ASSUME IInv, More, TypeOK', TakeGroup
  PROVE  [Abstract!Next]_(Abstract!vars)
<1> USE DEF IInv, More
<1> DEFINE group == NextGroup(plan, placed)
           skip  == {s \in group : DependencySkip(s)}
<1>1. group \subseteq Steps \ placed
  BY GroupIsFresh DEF Steps, TypeOK
<1>2. /\ plan' = plan /\ w' = w /\ cancel' = cancel /\ ~Cancelled /\ ~interrupted
      /\ running = {} /\ results = {} /\ skip \subseteq group
      /\ result' = [s \in Steps |-> IF s \in skip THEN Skipped ELSE result[s]]
      /\ \A s \in Steps : life'[s] = CASE s \in skip         -> Append(life[s], "skipped")
                                       [] s \in group \ skip -> Append(life[s], "queued")
                                       [] OTHER              -> life[s]
      /\ pc = "group" /\ pc' \in {"group", "submit"}
      /\ \A s \in skip : DependencySkip(s)
  BY DEF TakeGroup, Position, Between
<1> HIDE DEF group, skip
<1>3. RunOf = "open" /\ RunOf' = "open" /\ Cancelled' = Cancelled
  BY <1>2 DEF RunOf, Cancelled
<1>4. \A s \in Steps : In("started", life[s])' <=> In("started", life[s])
  <2>1. ASSUME NEW s \in Steps, NEW x \in {"skipped", "queued"}
        PROVE  In("started", Append(life[s], x)) <=> In("started", life[s])
    <3>1. Starts(Append(life[s], x)) = Starts(life[s])
      BY StartsOf DEF TypeOK, Events
    <3> QED BY <3>1 DEF In, Starts
  <2> QED BY <1>2, <2>1
<1>5. \A s \in Steps \ skip : PhaseOf(s)' = PhaseOf(s) /\ VerdictOf(s)' = VerdictOf(s)
  BY <1>2, <1>4, PhaseStays
<1>6. \A s \in skip : PhaseOf(s) = "waiting" /\ PhaseOf(s)' = "over" /\ VerdictOf(s)' = Skipped
  <2>1. ASSUME NEW s \in skip
        PROVE  PhaseOf(s) = "waiting" /\ PhaseOf(s)' = "over" /\ VerdictOf(s)' = Skipped
    <3>1. s \in Steps /\ s \notin placed /\ w[s] = "idle" /\ ToldOf(s)
      BY <1>1, <1>2 DEF Told, Books
    <3>2. ~HasResult(s) /\ Starts(life[s]) = {}
      BY <3>1 DEF ToldOf, EndsIn
    <3>3. PhaseOf(s) = "waiting"
      BY <3>1, <3>2, PhaseWhere
    <3>4. HasResult(s)' /\ VerdictOf(s)' = Skipped
      BY <1>2, <3>1 DEF HasResult, VerdictOf, Skipped
    <3> QED BY <3>3, <3>4 DEF PhaseOf
  <2> QED BY <2>1
<1>7. CASE skip = {}
  BY <1>2, <1>3, <1>5, <1>7, QuietRefines
<1>8. CASE skip # {}
  <2>1. Abstract!Available \subseteq KindsOf(store)
    <3>1. ASSUME NEW s \in Steps, PhaseOf(s) = "over", VerdictOf(s).kinds # {}
          PROVE  VerdictOf(s).kinds \subseteq KindsOf(store)
      <4>1. VerdictOf(s) = result[s] /\ HasResult(s)
        <5>1. NoResult.kinds = {} /\ ToldOf(s)
          BY DEF NoResult, Told
        <5> QED BY <3>1, <5>1, VerdictWhere DEF ToldOf
      <4>2. s \in recorded
        BY <1>2, <4>1 DEF Books
      <4>3. In(s, store)
        BY <3>1, <4>1, <4>2 DEF Snapshots
      <4> QED BY <4>1, <4>3 DEF In, KindsOf
    <3> QED BY <3>1, Verdict
  <2>2. ASSUME NEW s \in skip
        PROVE  \/ \E d \in RequiredDeps(plan, s) : Abstract!Bad(d.on)
               \/ ~ (RequiredKinds(plan, s) \subseteq Abstract!Available)
    <3>1. DependencySkip(s)
      BY <1>2
    <3> QED BY <2>1, <3>1, Verdict DEF DependencySkip
  <2>3. [s \in Steps |-> PhaseOf(s)]'
          = [s \in Steps |-> IF s \in skip THEN "over" ELSE [t \in Steps |-> PhaseOf(t)][s]]
    BY <1>2, <1>5, <1>6 DEF Steps
  <2>4. \A s \in skip : [t \in Steps |-> PhaseOf(t)][s] = "waiting"
    BY <1>1, <1>2, <1>6
  <2>7. [s \in Steps |-> VerdictOf(s)]'
          = [s \in Steps |-> IF s \in skip THEN Skipped ELSE [t \in Steps |-> VerdictOf(t)][s]]
    BY <1>2, <1>5, <1>6 DEF Steps
  <2>5. Abstract!PassOver(skip)
    BY <1>2, <1>3, <1>8, <2>2, <2>3, <2>4, <2>7 DEF Abstract!PassOver, Abstract!Skipped, Skipped, Steps,
       Abstract!RequiredDeps, Abstract!RequiredKinds, RequiredDeps, RequiredKinds
  <2>6. skip \in SUBSET DOMAIN plan
    BY <1>1, <1>2 DEF Steps
  <2> QED BY <1>3, <2>5, <2>6 DEF Abstract!Next
<1> QED
  BY <1>7, <1>8

LEMMA EndOfRunRefines ==
  ASSUME IInv, More, ReportCompleted \/ Escape
  PROVE  Abstract!Next
<1> USE DEF IInv, More
<1>1. /\ plan' = plan /\ cancel' = cancel
      /\ \A s \in Steps : PhaseOf(s)' = PhaseOf(s) /\ VerdictOf(s)' = VerdictOf(s)
  BY DEF ReportCompleted, Escape, workVars, PhaseOf, VerdictOf, HasResult, In
<1>2. /\ [s \in Steps |-> PhaseOf(s)]' = [s \in Steps |-> PhaseOf(s)] /\ Cancelled' = Cancelled
      /\ [s \in Steps |-> VerdictOf(s)]' = [s \in Steps |-> VerdictOf(s)]
  BY <1>1 DEF Steps, Cancelled
<1>3. CASE Escape
  <2>1. RunOf = "open" /\ RunOf' = "abandoned"
    BY <1>3 DEF Escape, RunOf
  <2>2. Abstract!Abandon
    BY <1>1, <1>2, <2>1 DEF Abstract!Abandon
  <2> QED BY <2>2 DEF Abstract!Next
<1>4. CASE ReportCompleted
  <2>1. RunOf = "open" /\ RunOf' = "closed" /\ pc = "complete"
    BY <1>4 DEF ReportCompleted, RunOf
  <2>2. Abstract!Running = {}
    <3>1. \A s \in Steps : w[s] \notin Live
      BY <2>1 DEF Position, Between
    <3>2. Busy = {}
      BY <3>1 DEF Busy, Live
    <3> QED BY <3>2, PhaseWhere, Verdict
  <2>3. Cancelled \/ \A s \in Steps : Abstract!Over(s)
    <3>1. ~Cancelled => recorded = Steps
      BY <2>1 DEF Position, Between, TypeOK
    <3> QED BY <3>1, Verdict
  <2>4. Abstract!Close
    BY <1>1, <1>2, <2>1, <2>2, <2>3 DEF Abstract!Close, Steps
  <2> QED BY <2>4 DEF Abstract!Next
<1> QED
  BY <1>3, <1>4

LEMMA StepRefines == IInv /\ More /\ [Next]_vars => [Abstract!Next]_(Abstract!vars)
<1> SUFFICES ASSUME IInv, More, [Next]_vars PROVE [Abstract!Next]_(Abstract!vars)
  OBVIOUS
<1> USE DEF IInv, More
<1>1. TypeOK' /\ plan' = plan
  BY StepInv DEF Final
<1>2. ASSUME result' = result, life' = life, RunOf' = RunOf, Cancelled => Cancelled',
             \A s \in Steps : /\ w'[s] = "raised" <=> w[s] = "raised"
                              /\ w'[s] = "broken" <=> w[s] = "broken"
      PROVE  [Abstract!Next]_(Abstract!vars)
  <2>1. \A s \in Steps : PhaseOf(s)' = PhaseOf(s) /\ VerdictOf(s)' = VerdictOf(s)
    BY <1>2, PhaseStays DEF In
  <2> QED BY <1>1, <1>2, <2>1, QuietRefines
<1>3. CASE TakeGroup
  BY <1>1, <1>3, TakeGroupRefines
<1>4. CASE ReportCompleted \/ Escape
  BY <1>4, EndOfRunRefines
<1>5. CASE \E s \in Steps : Worker(s) \/ ExecuteInterrupted(s) \/ ExecuteBroken(s)
  BY <1>1, <1>5, WorkerRefines
<1>6. CASE Submit
  <2>1. Least(pending) \in pending
    BY <1>6, StepsAreNumbers, LeastOf DEF Submit, CanSubmit, TypeOK
  <2>2. \A s \in Steps : /\ w'[s] = "raised" <=> w[s] = "raised"
                         /\ w'[s] = "broken" <=> w[s] = "broken"
    BY <1>6, <2>1 DEF Submit, TypeOK, Books
  <2> QED BY <1>2, <1>6, <2>2 DEF Submit, RunOf, Cancelled
<1>7. CASE Shutdown
  <2>1. \A s \in Steps : /\ w'[s] = "raised" <=> w[s] = "raised"
                         /\ w'[s] = "broken" <=> w[s] = "broken"
    BY <1>7 DEF Shutdown
  <2> QED BY <1>2, <1>7, <2>1 DEF Shutdown, RunOf, Cancelled
<1>12. Raised(cancel) # NotCancelled
  BY DEF Raised, NotCancelled
<1>8. CASE InterruptWave
  BY <1>2, <1>8, <1>12 DEF InterruptWave, Cancelled, RunOf, workVars
<1>13. CASE Collect
  <2>1. /\ UNCHANGED <<w, life>>
        /\ \A s \in Steps : result'[s] = result[s] \/ (w[s] = "broken" /\ result'[s] = Failed)
    BY <1>13, CollectEffect
  <2>2. \A s \in Steps : PhaseOf(s)' = PhaseOf(s) /\ VerdictOf(s)' = VerdictOf(s)
    BY <2>1 DEF PhaseOf, VerdictOf, HasResult, In
  <2>3. RunOf' = RunOf /\ (Cancelled => Cancelled')
    BY <1>12, <1>13 DEF Collect, Cancelled, RunOf
  <2> QED BY <1>1, <2>2, <2>3, QuietRefines
<1>9. CASE Start \/ LeaveLoop \/ StopSubmitting \/ Join \/ Merge \/ EndWave \/ ReportCancelled
  BY <1>2, <1>9 DEF Start, LeaveLoop, StopSubmitting, Join, Merge, EndWave, ReportCancelled,
     Cancelled, RunOf, workVars
<1>10. CASE RequestCancel \/ CancelStep
  BY <1>2, <1>10 DEF RequestCancel, CancelStep, Cancelled, RunOf, NotCancelled, EventSet, TypeOK,
     workVars, mainVars
<1>11. CASE Settled \/ UNCHANGED vars
  BY <1>2, <1>11 DEF Settled, vars, Cancelled, RunOf, workVars, mainVars
<1> QED
  BY <1>3, <1>4, <1>5, <1>6, <1>7, <1>8, <1>9, <1>10, <1>11, <1>13 DEF Next, Main

(* The scheduler implements PlanRun: with its threads, waves, futures, store
   and events it is a run in which steps run at most max_concurrency at a
   time, each only when what it depends on is settled, a step is passed over
   only for cause, and the run is closed only when nothing runs and nothing
   was left out (schedule_plan, _run_wave, _execute_with_retries). *)
THEOREM Implements == Spec => ImplementsPlanRun
<1>1. Spec => Abstract!Init /\ [][Abstract!Next]_(Abstract!vars)
  BY InitRefines, MoreInvariance, StepRefines, PTL DEF Spec
<1> QED
  BY <1>1 DEF ImplementsPlanRun, Abstract!Spec

-----------------------------------------------------------------------------
(***************************************************************************)
(* Validation.  The invariant says, of the loop of dependency_waves, that  *)
(* the waves partition what is placed (Partition), that every dependency   *)
(* of a placed step is in an earlier wave (Layered), that every step of a  *)
(* wave waited for the wave before and every step that could be placed     *)
(* waited for the last one (Tight), that no set of placed steps waits on   *)
(* itself (NoKnot), and that the verdicts are reached for their reasons    *)
(* (Reasons).                                                              *)
(***************************************************************************)
Placed == DOMAIN graph \ remaining

Partition ==
  /\ UNION {waves[k] : k \in DOMAIN waves} = Placed
  /\ \A j, k \in DOMAIN waves : j # k => waves[j] \intersect waves[k] = {}
  /\ completed = Identities(graph, Placed)

Layered ==
  \A k \in DOMAIN waves : \A s \in waves[k] : \A t \in DOMAIN graph :
    graph[t].id \in DependsOn(graph, s) => \E j \in DOMAIN waves : j < k /\ t \in waves[j]

\* s depends on a step of S.
WaitsFor(s, S) == \E t \in S : graph[t].id \in DependsOn(graph, s)

Tight ==
  /\ \A k \in DOMAIN waves : k > 1 => \A s \in waves[k] : WaitsFor(s, waves[k - 1])
  /\ waves # <<>> => \A s \in Ready(graph, remaining, completed) : WaitsFor(s, waves[Len(waves)])

NoKnot == \A S \in SUBSET Placed : ~Deadlocked(graph, S)

Reasons ==
  /\ stage \in {"references", "waves", "valid", "cycle"} => ~HasDuplicates(graph)
  /\ stage \in {"waves", "valid", "cycle"} => ~HasUnknown(graph)
  /\ stage \in {"identities", "references"} => waves = <<>>
  /\ stage = "valid" => remaining = {}
  /\ stage = "cycle" => remaining # {} /\ Ready(graph, remaining, completed) = {}

ValidationInv == ValidationTypeOK /\ Partition /\ Layered /\ Tight /\ NoKnot /\ Reasons

-----------------------------------------------------------------------------
\* Two steps with one identity are one step, once duplicates are ruled out.
LEMMA UniqueIdentity ==
  ASSUME NEW p, ~HasDuplicates(p), NEW s \in DOMAIN p, NEW t \in DOMAIN p,
         p[s].id = p[t].id
  PROVE  s = t
BY DEF HasDuplicates

\* What is ready depends, within the plan, on placed steps only.
LEMMA ReadyDependsOnPlaced ==
  ASSUME ValidationInv, stage = "waves",
         NEW s \in Ready(graph, remaining, completed),
         NEW t \in DOMAIN graph, graph[t].id \in DependsOn(graph, s)
  PROVE  t \in Placed
<1>1. graph[t].id \in Identities(graph, Placed)
  BY DEF ValidationInv, Partition, Ready
<1>2. PICK u \in Placed : graph[t].id = graph[u].id
  BY <1>1 DEF Identities
<1>3. ~HasDuplicates(graph) /\ u \in DOMAIN graph
  BY <1>2 DEF ValidationInv, Reasons, Placed
<1>4. t = u
  BY <1>2, <1>3, UniqueIdentity
<1> QED
  BY <1>4

LEMMA InitValid == ValidationInit => ValidationInv
<1> SUFFICES ASSUME ValidationInit PROVE ValidationInv
  OBVIOUS
<1>1. ValidationTypeOK
  BY DEF ValidationInit, ValidationTypeOK, Identities
<1>2. Placed = {} /\ DOMAIN waves = {}
  BY DEF ValidationInit, Placed
<1>3. Partition
  BY <1>2 DEF ValidationInit, Partition, Identities
<1>4. Layered /\ Tight /\ NoKnot
  BY <1>2 DEF ValidationInit, Layered, Tight, NoKnot, Deadlocked
<1>5. Reasons
  BY DEF ValidationInit, Reasons
<1> QED
  BY <1>1, <1>3, <1>4, <1>5 DEF ValidationInv

LEMMA PeelValid ==
  ASSUME ValidationInv, PeelWave
  PROVE  ValidationInv'
<1> DEFINE ready == Ready(graph, remaining, completed)
           n == Len(waves) + 1
<1>1. /\ stage = "waves" /\ stage' = "waves" /\ graph' = graph
      /\ ready # {} /\ ready \subseteq remaining
      /\ waves' = Append(waves, ready)
      /\ remaining' = remaining \ ready
      /\ completed' = completed \union Identities(graph, ready)
  BY DEF PeelWave, Ready
<1>2. /\ remaining \subseteq DOMAIN graph /\ Placed' = Placed \union ready
      /\ Placed \intersect ready = {}
  BY <1>1 DEF Placed, ValidationInv, ValidationTypeOK
<1>3. /\ waves \in Seq(SUBSET (DOMAIN graph)) /\ n \in Nat
      /\ DOMAIN waves = 1 .. (n - 1)
      /\ DOMAIN waves' = 1 .. n /\ n \in DOMAIN waves'
      /\ \A k \in DOMAIN waves : waves'[k] = waves[k]
      /\ waves'[n] = ready
  <2>1. ready \in SUBSET (DOMAIN graph) /\ waves \in Seq(SUBSET (DOMAIN graph))
    BY <1>1, <1>2 DEF ValidationInv, ValidationTypeOK
  <2> HIDE DEF ready
  <2> QED BY <2>1, <1>1
<1> HIDE DEF ready, n
<1>4. ValidationTypeOK'
  <2>1. ready \in SUBSET DOMAIN graph /\ waves' \in Seq(SUBSET (DOMAIN graph))
    BY <1>1, <1>2, <1>3
  <2>2. Identities(graph, ready) \subseteq Identities(graph, DOMAIN graph)
    BY <2>1 DEF Identities
  <2> QED
    BY <1>1, <2>1, <2>2 DEF ValidationInv, ValidationTypeOK
<1>5. Partition'
  <2>1. UNION {waves[k] : k \in DOMAIN waves} = Placed
    BY DEF ValidationInv, Partition
  <2>2. UNION {waves'[k] : k \in DOMAIN waves'} = Placed \union ready
    <3>1. ASSUME NEW x \in Placed PROVE \E k \in DOMAIN waves' : x \in waves'[k]
      BY <2>1, <1>3
    <3>2. ASSUME NEW x \in ready PROVE \E k \in DOMAIN waves' : x \in waves'[k]
      <4>1. n \in DOMAIN waves' /\ x \in waves'[n]
        BY <1>3
      <4> QED BY <4>1
    <3>3. ASSUME NEW k \in DOMAIN waves' PROVE waves'[k] \subseteq Placed \union ready
      <4>1. k \in DOMAIN waves \/ k = n
        BY <1>3
      <4> QED BY <4>1, <1>3, <2>1
    <3> QED BY <3>1, <3>2, <3>3
  <2>3. ASSUME NEW j \in DOMAIN waves', NEW k \in DOMAIN waves', j # k
        PROVE  waves'[j] \intersect waves'[k] = {}
    <3>1. \A i \in DOMAIN waves : waves[i] \intersect ready = {}
      BY <2>1, <1>2
    <3>2. (j \in DOMAIN waves \/ j = n) /\ (k \in DOMAIN waves \/ k = n)
      BY <1>3
    <3> QED BY <3>1, <3>2, <2>3, <1>3 DEF ValidationInv, Partition
  <2>4. completed' = Identities(graph, Placed \union ready)
    BY <1>1 DEF ValidationInv, Partition, Identities
  <2> QED
    BY <2>2, <2>3, <2>4, <1>1, <1>2 DEF Partition
<1>6. Layered'
  <2> SUFFICES ASSUME NEW k \in DOMAIN waves', NEW s \in waves'[k],
                      NEW t \in DOMAIN graph, graph[t].id \in DependsOn(graph, s)
               PROVE  \E j \in DOMAIN waves' : j < k /\ t \in waves'[j]
    BY <1>1 DEF Layered
  <2>1. CASE k \in DOMAIN waves
    <3>1. PICK j \in DOMAIN waves : j < k /\ t \in waves[j]
      BY <2>1, <1>3 DEF ValidationInv, Layered
    <3> QED BY <3>1, <1>3
  <2>2. CASE k = n
    <3>1. s \in Ready(graph, remaining, completed)
      BY <2>2, <1>3 DEF ready
    <3>2. t \in Placed
      BY <3>1, <1>1, ReadyDependsOnPlaced
    <3>3. PICK j \in DOMAIN waves : t \in waves[j]
      BY <3>2 DEF ValidationInv, Partition
    <3> QED BY <3>3, <2>2, <1>3
  <2> QED BY <2>1, <2>2, <1>3
<1>7. NoKnot'
  <2> SUFFICES ASSUME NEW S \in SUBSET (Placed \union ready), Deadlocked(graph, S)
               PROVE  FALSE
    BY <1>1, <1>2 DEF NoKnot, Deadlocked
  <2>1. ASSUME NEW s \in S, NEW t \in S, graph[t].id \in DependsOn(graph, s)
        PROVE  t \in Placed
    <3>1. t \in DOMAIN graph /\ s \in DOMAIN graph
      BY <1>1, <1>2 DEF Placed
    <3>2. CASE s \in ready
      BY <3>1, <3>2, <2>1, <1>1, ReadyDependsOnPlaced DEF ready
    <3>3. CASE s \in Placed
      <4>1. PICK k \in DOMAIN waves : s \in waves[k]
        BY <3>3 DEF ValidationInv, Partition
      <4>2. PICK j \in DOMAIN waves : t \in waves[j]
        BY <4>1, <3>1, <2>1 DEF ValidationInv, Layered
      <4> QED BY <4>2 DEF ValidationInv, Partition
    <3> QED BY <3>2, <3>3
  <2>2. Deadlocked(graph, S \intersect Placed)
    <3>1. PICK s \in S : TRUE
      BY DEF Deadlocked
    <3>2. PICK t \in S : graph[t].id \in DependsOn(graph, s)
      BY DEF Deadlocked
    <3>3. S \intersect Placed # {}
      BY <3>1, <3>2, <2>1
    <3>4. ASSUME NEW u \in S \intersect Placed
          PROVE  \E v \in S \intersect Placed : graph[v].id \in DependsOn(graph, u)
      <4>1. PICK v \in S : graph[v].id \in DependsOn(graph, u)
        BY DEF Deadlocked
      <4> QED BY <4>1, <2>1
    <3> QED BY <3>3, <3>4 DEF Deadlocked
  <2>3. S \intersect Placed \in SUBSET Placed
    OBVIOUS
  <2> QED BY <2>2, <2>3 DEF ValidationInv, NoKnot
<1>8. Reasons'
  BY <1>1 DEF ValidationInv, Reasons
<1>9. Tight'
  <2>1. ASSUME NEW k \in DOMAIN waves', k > 1, NEW s \in waves'[k]
        PROVE  WaitsFor(s, waves[k - 1])'
    <3>1. CASE k \in DOMAIN waves
      <4>1. k - 1 \in DOMAIN waves /\ waves'[k] = waves[k] /\ waves'[k - 1] = waves[k - 1]
        BY <1>3, <2>1, <3>1
      <4> QED BY <1>1, <2>1, <3>1, <4>1 DEF ValidationInv, Tight, WaitsFor
    <3>2. CASE k = n
      <4>1. /\ n - 1 \in DOMAIN waves /\ waves # <<>> /\ Len(waves) = n - 1
            /\ waves'[k - 1] = waves[Len(waves)]
        BY <1>3, <2>1, <3>2
      <4>2. s \in Ready(graph, remaining, completed)
        BY <1>3, <2>1, <3>2 DEF ready
      <4>3. WaitsFor(s, waves[Len(waves)])
        BY <4>1, <4>2 DEF ValidationInv, Tight
      <4> QED BY <1>1, <4>1, <4>3 DEF WaitsFor
    <3> QED BY <1>3, <3>1, <3>2
  <2>2. ASSUME NEW s \in Ready(graph, remaining', completed')
        PROVE  WaitsFor(s, waves[Len(waves)])'
    <3>1. s \in remaining /\ s \notin ready /\ DependsOn(graph, s) \subseteq completed'
      BY <1>1, <2>2 DEF Ready
    <3>2. PICK d \in DependsOn(graph, s) : d \notin completed
      BY <3>1 DEF Ready, ready
    <3>3. PICK t \in ready : graph[t].id = d
      BY <1>1, <3>1, <3>2 DEF Identities
    <3>4. Len(waves') = n
      BY <1>3
    <3> QED BY <1>1, <1>3, <3>2, <3>3, <3>4 DEF WaitsFor
  <2>3. graph' = graph
    BY <1>1
  <2>4. Ready(graph, remaining, completed)' = Ready(graph, remaining', completed')
    BY <2>3
  <2> QED BY <2>1, <2>2, <2>4 DEF Tight
<1> QED
  BY <1>4, <1>5, <1>6, <1>7, <1>8, <1>9 DEF ValidationInv

LEMMA StepValid == ValidationInv /\ [ValidationNext]_validationVars => ValidationInv'
<1> SUFFICES ASSUME ValidationInv, [ValidationNext]_validationVars PROVE ValidationInv'
  OBVIOUS
<1>1. CASE PeelWave
  BY <1>1, PeelValid
<1>2. ASSUME UNCHANGED <<graph, remaining, completed, waves>>
      PROVE  Partition' /\ Layered' /\ Tight' /\ NoKnot'
  <2>1. Partition' /\ Layered' /\ NoKnot'
    BY <1>2 DEF ValidationInv, Partition, Layered, NoKnot, Deadlocked, Placed
  <2>2. Ready(graph, remaining, completed)' = Ready(graph, remaining, completed)
    BY <1>2
  <2>3. Tight'
    BY <1>2, <2>2 DEF ValidationInv, Tight, WaitsFor
  <2> QED BY <2>1, <2>3
<1>3. CASE CheckIdentities
  BY <1>2, <1>3 DEF CheckIdentities, ValidationInv, ValidationTypeOK, Reasons, Verdicts
<1>4. CASE CheckReferences
  BY <1>2, <1>4 DEF CheckReferences, ValidationInv, ValidationTypeOK, Reasons, Verdicts
<1>5. CASE RejectCycle
  BY <1>2, <1>5 DEF RejectCycle, ValidationInv, ValidationTypeOK, Reasons, Verdicts
<1>6. CASE Accept
  BY <1>2, <1>6 DEF Accept, ValidationInv, ValidationTypeOK, Reasons, Verdicts
<1>7. CASE UNCHANGED validationVars
  BY <1>2, <1>7 DEF validationVars, ValidationInv, ValidationTypeOK, Reasons
<1> QED
  BY <1>1, <1>3, <1>4, <1>5, <1>6, <1>7 DEF ValidationNext

LEMMA ValidationInvariance == Validation => []ValidationInv
BY InitValid, StepValid, PTL DEF Validation

-----------------------------------------------------------------------------
(* Whatever plans are submitted, a plan is accepted only without duplicate
   identities, unknown dependencies and sets of steps that wait on
   themselves, and refused as cyclic only because of such a set
   (validate_plan_graph). *)
THEOREM VerdictCorrect == Validation => []VerdictIsRight
<1>1. ValidationInv => VerdictIsRight
  <2> SUFFICES ASSUME ValidationInv PROVE VerdictIsRight
    OBVIOUS
  <2>1. ASSUME stage = "valid"
        PROVE  /\ ~HasDuplicates(graph) /\ ~HasUnknown(graph)
               /\ ~ \E S \in SUBSET DOMAIN graph : Deadlocked(graph, S)
    <3>1. Placed = DOMAIN graph
      BY <2>1 DEF Placed, ValidationInv, Reasons
    <3> QED BY <2>1, <3>1 DEF ValidationInv, Reasons, NoKnot
  <2>2. ASSUME stage = "cycle" PROVE Deadlocked(graph, remaining)
    <3> SUFFICES ASSUME NEW s \in remaining
                 PROVE  \E t \in remaining : graph[t].id \in DependsOn(graph, s)
      BY <2>2 DEF ValidationInv, Reasons, Deadlocked
    <3>1. /\ s \in DOMAIN graph /\ ~HasUnknown(graph)
          /\ s \notin Ready(graph, remaining, completed)
      BY <2>2 DEF ValidationInv, ValidationTypeOK, Reasons
    <3>2. PICK d \in DependsOn(graph, s) : d \notin completed
      BY <3>1 DEF Ready
    <3>3. d \in Identities(graph, DOMAIN graph)
      BY <3>1, <3>2 DEF HasUnknown
    <3>4. PICK t \in DOMAIN graph : graph[t].id = d
      BY <3>3 DEF Identities
    <3>5. t \notin Placed
      BY <3>2, <3>4 DEF ValidationInv, Partition, Identities
    <3> QED BY <3>2, <3>4, <3>5 DEF Placed
  <2> QED BY <2>1, <2>2 DEF VerdictIsRight
<1> QED
  BY <1>1, ValidationInvariance, PTL

(* The waves of an accepted plan hold every step once, after everything it
   depends on and no later than that forces: what the scheduler relies on
   when it runs wave by wave (dependency_waves). *)
THEOREM WavesRespectDependencies == Validation => []ValidPlansAreLayered
<1>1. ValidationInv => ValidPlansAreLayered
  <2> SUFFICES ASSUME ValidationInv, stage = "valid" PROVE ValidPlansAreLayered
    BY DEF ValidPlansAreLayered
  <2>1. /\ UNION {waves[k] : k \in DOMAIN waves} = DOMAIN graph
        /\ \A j, k \in DOMAIN waves : j # k => waves[j] \intersect waves[k] = {}
    BY DEF ValidationInv, Partition, Reasons, Placed
  <2>2. ASSUME NEW s \in DOMAIN graph
        PROVE  /\ WaveOf(s) \in DOMAIN waves /\ s \in waves[WaveOf(s)]
               /\ \A k \in DOMAIN waves : s \in waves[k] => k = WaveOf(s)
    <3>1. \E k \in DOMAIN waves : s \in waves[k]
      BY <2>1
    <3>2. WaveOf(s) \in DOMAIN waves /\ s \in waves[WaveOf(s)]
      BY <3>1, Zenon DEF WaveOf
    <3> QED BY <2>1, <3>2
  <2>3. ASSUME NEW s \in DOMAIN graph, NEW t \in DOMAIN graph, graph[t].id \in DependsOn(graph, s)
        PROVE  WaveOf(t) < WaveOf(s)
    <3>1. PICK j \in DOMAIN waves : j < WaveOf(s) /\ t \in waves[j]
      BY <2>2, <2>3 DEF ValidationInv, Layered
    <3> QED BY <2>2, <3>1
  <2>4. ASSUME NEW s \in DOMAIN graph, WaveOf(s) > 1
        PROVE  \E t \in waves[WaveOf(s) - 1] : graph[t].id \in DependsOn(graph, s)
    BY <2>2, <2>4 DEF ValidationInv, Tight, WaitsFor
  <2> QED BY <2>1, <2>3, <2>4 DEF ValidPlansAreLayered
<1> QED
  BY <1>1, ValidationInvariance, PTL

-----------------------------------------------------------------------------
(***************************************************************************)
(* Execution.  execute_plan validates a plan and then schedules it.  The   *)
(* loop over the groups has no step of its own for a group that is empty:  *)
(* that it never meets one while steps remain is due to validation.        *)
(***************************************************************************)
Acyclic(p) == ~ \E S \in SUBSET DOMAIN p : Deadlocked(p, S)

Execution == Validation /\ Spec /\ [](pc # "start" => stage = "valid" /\ graph = plan)

\* Of finitely many things with numbers one has the lowest.
LEMMA LowestOf ==
  ASSUME NEW S, IsFiniteSet(S), S # {}, NEW g \in [S -> Int]
  PROVE  \E s \in S : \A t \in S : g[s] <= g[t]
<1> DEFINE upTo(x) == {y \in S : g[y] <= g[x]}
           T == {upTo(x) : x \in S}
           R == StrictSubsetOrdering(S)
<1>1. T # {} /\ T \subseteq FiniteSubsetsOf(S)
  <2>1. \A x \in S : IsFiniteSet(upTo(x)) /\ upTo(x) \subseteq S
    BY FS_Subset
  <2> QED BY <2>1 DEF FiniteSubsetsOf
<1>2. PICK I \in T : \A J \in T : <<J, I>> \notin R
  <2>1. IsWellFoundedOn(R, FiniteSubsetsOf(S))
    BY FS_StrictSubsetOrderingWellFounded
  <2> HIDE DEF T, R
  <2> QED BY <1>1, <2>1, WFMin
<1>3. PICK s \in S : I = upTo(s)
  OBVIOUS
<1>4. ASSUME NEW t \in S PROVE g[s] <= g[t]
  <2> SUFFICES ASSUME g[t] < g[s] PROVE FALSE
    BY g[s] \in Int /\ g[t] \in Int
  <2>1. g[s] \in Int /\ g[t] \in Int /\ \A y \in S : g[y] \in Int
    OBVIOUS
  <2>2. upTo(t) \subseteq upTo(s) /\ s \in upTo(s) /\ s \notin upTo(t)
    BY <2>1
  <2>3. upTo(t) \in T /\ upTo(t) \in SUBSET S /\ upTo(s) \in SUBSET S
    OBVIOUS
  <2> HIDE DEF upTo, T
  <2> QED BY <1>2, <1>3, <2>2, <2>3 DEF StrictSubsetOrdering
<1> QED BY <1>4

\* What validation has accepted has a next group as long as steps remain.
LEMMA GroupsGoOn ==
  ASSUME NEW p, IsFiniteSet(DOMAIN p), \A s \in DOMAIN p : p[s].group \in Int,
         ~HasUnknown(p), Acyclic(p),
         NEW P \in SUBSET DOMAIN p, P # DOMAIN p
  PROVE  NextGroup(p, P) # {}
<1> DEFINE left == DOMAIN p \ P
<1>1. left # {} /\ left \in SUBSET DOMAIN p
  OBVIOUS
<1>2. CASE HasDependencies(p)
  <2> SUFFICES ASSUME Ready(p, left, Identities(p, P)) = {} PROVE FALSE
    BY <1>2 DEF NextGroup
  <2>1. ASSUME NEW s \in left
        PROVE  \E t \in left : p[t].id \in DependsOn(p, s)
    <3>1. PICK d \in DependsOn(p, s) : d \notin Identities(p, P)
      BY DEF Ready
    <3>2. d \in Identities(p, DOMAIN p)
      BY <3>1 DEF HasUnknown
    <3>3. PICK t \in DOMAIN p : p[t].id = d
      BY <3>2 DEF Identities
    <3> QED BY <3>1, <3>3 DEF Identities
  <2>2. Deadlocked(p, left)
    BY <1>1, <2>1 DEF Deadlocked
  <2> QED BY <1>1, <2>2 DEF Acyclic
<1>3. CASE ~HasDependencies(p)
  <2> DEFINE g == [s \in left |-> EffectiveGroup(p[s])]
  <2>1. \A s \in DOMAIN p : EffectiveGroup(p[s]) \in Int
    BY DEF EffectiveGroup
  <2>2. g \in [left -> Int] /\ IsFiniteSet(left)
    BY <1>1, <2>1, FS_Subset
  <2>3. PICK s \in left : \A t \in left : g[s] <= g[t]
    <3> HIDE DEF g
    <3> QED BY <1>1, <2>2, LowestOf
  <2>4. s \in NextGroup(p, P)
    BY <1>3, <2>3 DEF NextGroup
  <2> QED BY <2>4
<1> QED BY <1>2, <1>3

(* However validation and scheduling run, the loop over the groups of a plan
   that was validated goes on: it never takes an empty group (execute_plan). *)
THEOREM ExecutionAdvances == Execution => [][TakeGroup => placed' # placed]_vars
<1> DEFINE Link == pc # "start" => stage = "valid" /\ graph = plan
<1>1. TypeOK /\ VerdictIsRight /\ Link /\ [Next]_vars => [TakeGroup => placed' # placed]_vars
  <2> SUFFICES ASSUME TypeOK, VerdictIsRight, Link, TakeGroup
               PROVE  placed' # placed
    OBVIOUS
  <2>1. /\ pc = "group" /\ placed # DOMAIN plan /\ placed \in SUBSET DOMAIN plan
        /\ placed' = placed \union NextGroup(plan, placed)
    BY DEF TakeGroup, TypeOK, Steps
  <2>2. ~HasUnknown(plan) /\ Acyclic(plan)
    BY <2>1 DEF VerdictIsRight, Acyclic
  <2>3. IsFiniteSet(DOMAIN plan) /\ \A s \in DOMAIN plan : plan[s].group \in Int
    <3>1. Len(plan) \in Nat /\ DOMAIN plan = 1 .. Len(plan) /\ \A s \in DOMAIN plan : StepOK(plan, s)
      BY PlansOK DEF TypeOK
    <3>2. IsFiniteSet(1 .. Len(plan))
      BY <3>1, FS_Interval
    <3> QED BY <3>1, <3>2 DEF StepOK
  <2>4. NextGroup(plan, placed) # {}
    BY <2>1, <2>2, <2>3, GroupsGoOn
  <2>5. NextGroup(plan, placed) \intersect placed = {}
    BY DEF NextGroup, Ready
  <2> QED BY <2>1, <2>4, <2>5
<1>2. Execution => []TypeOK /\ []VerdictIsRight /\ []Link /\ [][Next]_vars
  BY TypeCorrect, VerdictCorrect, PTL DEF Execution, Spec
<1> QED BY <1>1, <1>2, PTL
=============================================================================
