--------------------------- MODULE SessionProofs ----------------------------
(***************************************************************************)
(* Theorems about a shell and the recon runs started in it, for any jobs,  *)
(* any number of runs and any number of results of a run.                  *)
(*                                                                         *)
(* The invariant says that jobs tell of their results (Shapes), that a run *)
(* is in the shell's job and takes its steps in turn (InTurn), that no     *)
(* result has the number of a run to come (Numbered), that what is recorded*)
(* of a run so far ends its job (Progress), as what is reported does       *)
(* (Reported), and how many contexts exits have left to leave (Unwinding). *)
(***************************************************************************)
EXTENDS Session, FiniteSetTheorems, TLAPS

-----------------------------------------------------------------------------
(* The inductive invariant. *)

IsJob(job) == job.results \in Seq(Entries) /\ job = JobOf(job.results)

Runs == [job : Ids \union {Nothing}, needs : BOOLEAN, made : BOOLEAN, results : Seq(Results),
         recorded : Nat, cancelled : BOOLEAN]

\* Jobs tell of their results, and the shell's job is there.
Shapes ==
  /\ at \in {"refresh", "prompt", "authenticate", "launch", "run", "record", "ended", "killed"}
  /\ auth \in BOOLEAN /\ fresh \in BOOLEAN /\ template \in BOOLEAN
  /\ DOMAIN jobs = Ids
  /\ \A id \in Ids : jobs[id] # Nothing => IsJob(jobs[id])
  /\ active # Nothing => active \in Ids /\ jobs[active] # Nothing
  /\ active = Nothing \/ active \in Ids
  /\ runs \in 0 .. MaxRuns /\ exits \in 0 .. MaxExits
  /\ run \in Runs /\ run.recorded <= Len(run.results)

\* A recon command takes its steps in turn, in the shell's job.
InTurn ==
  /\ reported # Nothing => at = "refresh"
  /\ at \in {"authenticate", "launch"} =>
       runs < MaxRuns /\ run.results = <<>> /\ run.recorded = 0 /\ run.made = FALSE
  /\ at \in {"run", "record"} => run.job = active /\ active # Nothing /\ runs > 0
  /\ at = "run" => run.results = <<>> /\ run.recorded = 0
  /\ at = "record" => run.results # <<>>

\* No result is of a run yet to come.
Numbered ==
  \A id \in Ids : jobs[id] # Nothing =>
    \A i \in DOMAIN jobs[id].results : jobs[id].results[i].n <= runs

\* The last k results are the first k told of run n, and no other is of that
\* run; in a job made for it there is no other.
Ends(results, told, k, n, made) ==
  LET before == Len(results) - k IN
  /\ before \in Nat
  /\ \A i \in DOMAIN results :
       IF i <= before THEN results[i].n # n
       ELSE results[i] = [n |-> n, outcome |-> told[i - before]]
  /\ made => before = 0

\* What closes a run.
Closing(r, state) ==
  IF r.cancelled THEN <<"failed">> ELSE IF state = "failed" THEN <<>> ELSE <<"done">>

Progress ==
  at \in {"run", "record"} =>
    Ends(jobs[run.job].results, run.results, run.recorded, runs, run.made)

Reported ==
  reported # Nothing =>
    /\ reported.run = run
    /\ run.results = <<>> => reported.state = "none"
    /\ run.results # <<>> =>
         LET told == run.results \o Closing(run, CompletionState)
         IN  /\ reported.state = CompletionState
             /\ run.job = active /\ active # Nothing
             /\ Ends(jobs[run.job].results, told, Len(told), runs, run.made)

\* One for a context the shell is in.
One(context) == IF context THEN 1 ELSE 0

\* Each exit of those in a row left one of three contexts.
Unwinding ==
  ~IsRoot =>
    /\ at \in {"authenticate", "launch", "run", "record"} => exits = 0
    /\ at \in {"refresh", "prompt"} =>
         exits + One(auth /\ fresh) + One(active # Nothing) + One(template) <= 3

IInv == Shapes /\ InTurn /\ Numbered /\ Progress /\ Reported /\ Unwinding

-----------------------------------------------------------------------------
(* Records of jobs (core/jobs.py). *)

\* A completion state is one.
LEMMA StateIsState ==
  /\ \A S : DeriveCompletionState(S) \in CompletionStates
  /\ \A r : JobStatus(r) \in CompletionStates
  /\ JobStatus(<<>>) = "initialized"
<1>1. \A S : DeriveCompletionState(S) \in CompletionStates
  BY DEF DeriveCompletionState, CompletionStates
<1>2. {StepStatus(e.outcome) : e \in ToSet(<<>>)} = {}
  BY DEF ToSet
<1> QED BY <1>1, <1>2 DEF JobStatus, DeriveCompletionState

\* A job of some results is a record and tells of them.
LEMMA JobOfIsJob ==
  ASSUME NEW r \in Seq(Entries)
  PROVE  /\ IsJob(JobOf(r)) /\ JobOf(r).results = r /\ JobOf(r) # Nothing
         /\ IsRecord(JobOf(r)) /\ JobOf(r).status = JobStatus(r)
<1>1. \A S : Count(r, S) \in Nat
  <2> TAKE S
  <2> DEFINE places == {i \in DOMAIN r : r[i].outcome \in S}
  <2>1. IsFiniteSet(1 .. Len(r)) /\ places \in SUBSET (1 .. Len(r))
    BY FS_Interval
  <2>2. IsFiniteSet(places)
    BY <2>1, FS_Subset
  <2> QED BY <2>2, FS_CardinalityType DEF Count
<1>2. Len(r) \in Nat /\ JobStatus(r) \in CompletionStates
  BY StateIsState
<1>3. JobOf(r) \in JobsOf(Entries)
  BY <1>1, <1>2 DEF JobOf, JobsOf, Summary
<1>4. JobOf(r).results = r /\ JobOf(r).steps = r /\ JobOf(r).status = JobStatus(r)
  BY DEF JobOf
<1> QED BY <1>2, <1>3, <1>4, NothingIsNoJob DEF IsJob, IsRecord

\* A new job has no results.
LEMMA NewIsJob == IsJob(NewJob) /\ NewJob.results = <<>> /\ NewJob # Nothing
<1>1. <<>> \in Seq(Entries) /\ NewJob = JobOf(<<>>)
  BY StateIsState DEF NewJob, JobOf
<1> QED BY <1>1, JobOfIsJob

\* Adding a result to a job makes the job of one more.
LEMMA LongerIsJob ==
  ASSUME NEW job, IsJob(job), NEW e \in Entries
  PROVE  /\ IsJob(AppendResult(job, e)) /\ AppendResult(job, e) # Nothing
         /\ AppendResult(job, e).results = Append(job.results, e)
<1> DEFINE r == job.results
<1>1. r \in Seq(Entries) /\ job = JobOf(r)
  BY DEF IsJob
<1>2. Append(r, e) \in Seq(Entries)
  BY <1>1
<1> HIDE DEF r
<1>3. AppendResult(JobOf(r), e) = JobOf(Append(r, e))
  BY DEF JobOf, AppendResult
<1> QED BY <1>1, <1>2, <1>3, JobOfIsJob DEF r

\* What Record and Finish add to the job.
LEMMA AddsToJob ==
  ASSUME IInv, at = "record", NEW outcome \in ResultOutcomes, Add(Entry(outcome))
  PROVE  LET e == [n |-> runs, outcome |-> outcome] IN
         /\ e \in Entries /\ run.job = active /\ active \in Ids
         /\ DOMAIN jobs' = Ids
         /\ jobs'[active] # Nothing /\ IsJob(jobs'[active])
         /\ jobs[active].results \in Seq(Entries)
         /\ jobs'[active].results = Append(jobs[active].results, e)
         /\ \A id \in Ids \ {active} : jobs'[id] = jobs[id]
<1> DEFINE e == [n |-> runs, outcome |-> outcome]
<1>1. runs \in 0 .. MaxRuns /\ runs > 0 /\ MaxRuns \in Nat
  BY BoundsAreNumbers DEF IInv, Shapes, InTurn
<1>2. e \in Entries
  BY <1>1 DEF Entries
<1>3. /\ run.job = active /\ active \in Ids /\ jobs[active] # Nothing
      /\ IsJob(jobs[active]) /\ DOMAIN jobs = Ids
  BY DEF IInv, Shapes, InTurn
<1>4. jobs' = [jobs EXCEPT ![active] = AppendResult(@, e)]
  BY <1>3 DEF Add, Entry
<1> HIDE DEF e
<1>5. jobs'[active] = AppendResult(jobs[active], e)
  BY <1>3, <1>4
<1>6. jobs[active].results \in Seq(Entries)
  BY <1>3 DEF IsJob
<1>7. /\ IsJob(jobs'[active]) /\ jobs'[active] # Nothing
      /\ jobs'[active].results = Append(jobs[active].results, e)
  BY <1>2, <1>3, <1>5, LongerIsJob
<1> QED BY <1>2, <1>3, <1>4, <1>6, <1>7 DEF e

-----------------------------------------------------------------------------
(* Each part of the invariant under each step. *)

\* Every step keeps the shapes.
LEMMA ShapesStep ==
  ASSUME IInv, Next
  PROVE  Shapes'
<1> USE DEF IInv, Shapes
<1>1. CASE Refresh \/ Expire
  BY <1>1, RootIsBoolean DEF Refresh, Expire, Elevated
<1>2. CASE Exit
  <2>1. exits' \in 0 .. MaxExits
    BY <1>2 DEF Exit, MaxExits
  <2>2. /\ at' \in {"refresh", "ended"} /\ auth' = FALSE /\ fresh' = FALSE
        /\ template' = template \/ template' = FALSE
        /\ active' = active \/ active' = Nothing
        /\ UNCHANGED <<jobs, runs, run>>
    BY <1>2 DEF Exit, CloseElevated
  <2>3. template' \in BOOLEAN
    BY <2>2, Zenon
  <2> QED BY <2>1, <2>2, <2>3
<1>3. CASE Reset \/ Use \/ Enter
  <2>1. /\ at' = "refresh" /\ exits' = 0 /\ UNCHANGED <<jobs, runs, run>>
        /\ active' = active \/ (active' \in Ids /\ jobs[active'] # Nothing)
    BY <1>3 DEF Command, Reset, Use, Enter
  <2>2. auth' \in BOOLEAN /\ fresh' \in BOOLEAN /\ template' \in BOOLEAN
    BY <1>3 DEF Reset, Use, Enter
  <2> QED BY <2>1, <2>2 DEF MaxExits
<1>4. CASE New
  BY <1>4, NewIsJob DEF Command, New, MaxExits
<1>5. CASE Delete
  BY <1>5 DEF Command, Delete, MaxExits
<1>6. CASE StartRecon
  <2>1. /\ at' \in {"authenticate", "launch"} /\ exits' = 0 /\ UNCHANGED <<active, template, jobs, runs>>
        /\ \E needs \in BOOLEAN : run' = [NoRun EXCEPT !.needs = needs]
    BY <1>6 DEF StartRecon
  <2>2. auth' \in BOOLEAN /\ fresh' \in BOOLEAN
    BY <1>6, RootIsBoolean DEF StartRecon, Elevated
  <2>3. run' \in Runs /\ run'.recorded <= Len(run'.results)
    <3>1. <<>> \in Seq(Results) /\ Len(<<>>) = 0
      OBVIOUS
    <3>2. PICK needs \in BOOLEAN : run' = [NoRun EXCEPT !.needs = needs]
      BY <2>1
    <3>3. run' = [job |-> Nothing, needs |-> needs, made |-> FALSE, results |-> <<>>,
                  recorded |-> 0, cancelled |-> FALSE]
      BY <3>2 DEF NoRun
    <3>4. run'.recorded = 0 /\ run'.results = <<>>
      BY <3>3
    <3> QED BY <3>1, <3>3, <3>4 DEF Runs
  <2> QED BY <2>1, <2>2, <2>3 DEF MaxExits
<1>7. CASE Authenticate \/ Kill
  BY <1>7 DEF Authenticate, Kill
<1>8. CASE Launch
  <2>1. at' = "run" /\ runs' = runs + 1 /\ UNCHANGED <<auth, fresh, template, exits>>
    BY <1>8 DEF Launch
  <2>2. runs' \in 0 .. MaxRuns
    <3>1. at = "launch"
      BY <1>8 DEF Launch
    <3>2. runs < MaxRuns
      BY <3>1 DEF InTurn
    <3> QED BY <2>1, <3>2, BoundsAreNumbers
  <2>3. \E id \in Ids : \/ run' = [run EXCEPT !.job = id]
                        \/ run' = [run EXCEPT !.job = id, !.made = TRUE]
    BY <1>8 DEF Launch
  <2>4. run' \in Runs /\ run'.recorded <= Len(run'.results)
    <3>1. run' \in Runs
      BY <2>3 DEF Runs
    <3>2. run'.recorded = run.recorded /\ run'.results = run.results
      BY <2>3 DEF Runs
    <3> QED BY <3>1, <3>2
  <2>5. \/ active # Nothing /\ UNCHANGED <<active, jobs>>
        \/ \E id \in Ids : jobs' = [jobs EXCEPT ![id] = NewJob] /\ active' = id
    BY <1>8 DEF Launch
  <2>6. DOMAIN jobs' = Ids /\ \A id \in Ids : jobs'[id] = jobs[id] \/ jobs'[id] = NewJob
    BY <2>5
  <2>7. active' \in Ids /\ jobs'[active'] # Nothing
    BY <2>5, NewIsJob
  <2> QED BY <2>1, <2>2, <2>4, <2>6, <2>7, NewIsJob
<1>9. CASE Run
  <2> PICK n \in 0 .. MaxResults : \E cancelled \in BOOLEAN : \E r \in [1 .. n -> Results] :
             run' = [run EXCEPT !.results = r, !.cancelled = cancelled]
    BY <1>9 DEF Run
  <2>1. PICK cancelled \in BOOLEAN, results \in [1 .. n -> Results] :
          run' = [run EXCEPT !.results = results, !.cancelled = cancelled]
    OBVIOUS
  <2>2. at' \in {"refresh", "record"} /\ UNCHANGED <<auth, fresh, active, template, jobs, runs, exits>>
    BY <1>9 DEF Run
  <2>3. results \in Seq(Results) /\ Len(results) = n /\ n \in Nat
    BY BoundsAreNumbers
  <2>4. run.recorded = 0
    BY <1>9 DEF Run, InTurn
  <2>5. run' \in Runs /\ run'.recorded <= Len(run'.results)
    <3>1. run' \in Runs
      BY <2>1, <2>3 DEF Runs
    <3>2. run'.recorded = run.recorded /\ run'.results = results
      BY <2>1 DEF Runs
    <3> QED BY <2>3, <2>4, <3>1, <3>2
  <2> QED BY <2>2, <2>5
<1>10. CASE Record
  <2> DEFINE outcome == run.results[run.recorded + 1]
  <2>1. run.results \in Seq(Results) /\ run.recorded \in Nat /\ run.recorded < Len(run.results)
    BY <1>10 DEF Record, Runs
  <2>2. outcome \in ResultOutcomes
    BY <2>1, KnownOutcomes
  <2>3. at = "record" /\ Add(Entry(outcome))
    BY <1>10 DEF Record
  <2> HIDE DEF outcome
  <2>4. /\ DOMAIN jobs' = Ids /\ active \in Ids /\ jobs'[active] # Nothing /\ IsJob(jobs'[active])
        /\ \A id \in Ids \ {active} : jobs'[id] = jobs[id]
    BY <2>2, <2>3, AddsToJob
  <2>5. /\ run' = [run EXCEPT !.recorded = @ + 1]
        /\ UNCHANGED <<at, auth, fresh, active, template, runs, exits>>
    BY <1>10 DEF Record
  <2>6. run' \in Runs /\ run'.recorded <= Len(run'.results)
    BY <2>1, <2>5 DEF Runs
  <2> QED BY <2>4, <2>5, <2>6
<1>11. CASE Finish
  <2>1. at' = "refresh" /\ at = "record" /\ UNCHANGED <<auth, fresh, active, template, runs, run, exits>>
    BY <1>11 DEF Finish
  <2>2. CASE UNCHANGED jobs
    BY <2>1, <2>2
  <2>3. CASE \E outcome \in {"failed", "done"} : Add(Entry(outcome))
    <3>1. /\ DOMAIN jobs' = Ids /\ active \in Ids /\ jobs'[active] # Nothing /\ IsJob(jobs'[active])
          /\ \A id \in Ids \ {active} : jobs'[id] = jobs[id]
      BY <2>1, <2>3, AddsToJob DEF ResultOutcomes
    <3> QED BY <2>1, <3>1
  <2> QED BY <1>11, <2>2, <2>3 DEF Finish
<1> QED
  BY <1>1, <1>2, <1>3, <1>4, <1>5, <1>6, <1>7, <1>8, <1>9, <1>10, <1>11 DEF Next

\* Every step of a recon command is taken in turn.
LEMMA InTurnStep ==
  ASSUME IInv, Next
  PROVE  InTurn'
<1> USE DEF InTurn
<1>1. InTurn /\ run \in Runs /\ runs \in 0 .. MaxRuns /\ (active # Nothing => active \in Ids)
  BY DEF IInv, Shapes
<1>2. CASE Refresh \/ Exit \/ Reset \/ Use \/ New \/ Enter \/ Delete
  <2>1. at \in {"refresh", "prompt"} /\ at' \in {"prompt", "refresh", "ended"}
    BY <1>2 DEF Refresh, Exit, Reset, Use, New, Enter, Delete, Command
  <2>2. reported' = Nothing
    BY <1>1, <1>2 DEF Refresh, Exit, Reset, Use, New, Enter, Delete, Command
  <2> QED BY <2>1, <2>2
<1>3. CASE Expire
  BY <1>1, <1>3 DEF Expire
<1>4. CASE StartRecon
  <2>1. /\ runs < MaxRuns /\ UNCHANGED <<runs, reported>> /\ at = "prompt"
        /\ at' \in {"authenticate", "launch"}
        /\ \E needs \in BOOLEAN : run' = [NoRun EXCEPT !.needs = needs]
    BY <1>4 DEF StartRecon
  <2>2. run'.results = <<>> /\ run'.recorded = 0 /\ run'.made = FALSE
    BY <2>1 DEF NoRun
  <2> QED BY <1>1, <2>1, <2>2
<1>5. CASE Authenticate \/ Kill
  <2>1. /\ UNCHANGED <<runs, run, reported, active>> /\ at # "refresh"
        /\ at' \in {"refresh", "killed"} \/ (at' = "launch" /\ at = "authenticate")
    BY <1>5 DEF Authenticate, Kill
  <2> QED BY <1>1, <2>1
<1>6. CASE Launch
  <2>1. at = "launch" /\ at' = "run" /\ runs' = runs + 1 /\ UNCHANGED reported
    BY <1>6 DEF Launch
  <2>2. /\ active' # Nothing
        /\ run' = [run EXCEPT !.job = active'] \/ run' = [run EXCEPT !.job = active', !.made = TRUE]
    BY <1>6, NothingIsNoJob DEF Launch
  <2>3. run'.job = active' /\ run'.results = run.results /\ run'.recorded = run.recorded
    BY <1>1, <2>2 DEF Runs
  <2> QED BY <1>1, <2>1, <2>2, <2>3
<1>7. CASE Run
  <2> PICK n \in 0 .. MaxResults : \E cancelled \in BOOLEAN : \E r \in [1 .. n -> Results] :
             /\ run' = [run EXCEPT !.results = r, !.cancelled = cancelled]
             /\ reported' = IF n = 0 THEN [state |-> "none", run |-> run'] ELSE Nothing
             /\ at' = IF n = 0 THEN "refresh" ELSE "record"
    BY <1>7 DEF Run
  <2>1. PICK cancelled \in BOOLEAN, results \in [1 .. n -> Results] :
          run' = [run EXCEPT !.results = results, !.cancelled = cancelled]
    OBVIOUS
  <2>2. at = "run" /\ UNCHANGED <<active, runs>>
    BY <1>7 DEF Run
  <2>3. run'.job = run.job /\ run'.results = results
    BY <1>1, <2>1 DEF Runs
  <2>4. n # 0 => results # <<>>
    BY BoundsAreNumbers
  <2> QED BY <1>1, <2>2, <2>3, <2>4
<1>8. CASE Record
  <2>1. /\ at = "record" /\ UNCHANGED <<at, active, runs, reported>>
        /\ run' = [run EXCEPT !.recorded = @ + 1]
    BY <1>8 DEF Record
  <2>2. run'.job = run.job /\ run'.results = run.results
    BY <1>1, <2>1 DEF Runs
  <2> QED BY <1>1, <2>1, <2>2
<1>9. CASE Finish
  BY <1>9 DEF Finish
<1> QED BY <1>2, <1>3, <1>4, <1>5, <1>6, <1>7, <1>8, <1>9 DEF Next

\* What is added has the number of its run.
LEMMA AddNumbered ==
  ASSUME IInv, at = "record", NEW outcome \in ResultOutcomes, Add(Entry(outcome)), runs' = runs
  PROVE  Numbered'
<1> DEFINE e == [n |-> runs, outcome |-> outcome]
           old == jobs[active].results
<1>1. /\ e \in Entries /\ active \in Ids /\ old \in Seq(Entries)
      /\ jobs'[active].results = Append(old, e)
      /\ \A id \in Ids \ {active} : jobs'[id] = jobs[id]
  BY AddsToJob
<1>2. runs \in Nat /\ Numbered /\ jobs[active] # Nothing
  BY BoundsAreNumbers DEF IInv, Shapes, InTurn
<1>3. \A i \in DOMAIN old : old[i].n <= runs
  BY <1>1, <1>2 DEF Numbered
<1>4. e.n = runs
  OBVIOUS
<1> HIDE DEF e, old
<1>5. \A i \in DOMAIN Append(old, e) : (i \in DOMAIN old /\ Append(old, e)[i] = old[i])
                                      \/ Append(old, e)[i] = e
  BY <1>1
<1>6. \A i \in DOMAIN Append(old, e) : Append(old, e)[i].n <= runs
  BY <1>2, <1>3, <1>4, <1>5
<1>7. ASSUME NEW id \in Ids, jobs'[id] # Nothing
      PROVE  \A i \in DOMAIN jobs'[id].results : jobs'[id].results[i].n <= runs'
  <2>1. CASE id = active
    BY <1>1, <1>6, <2>1
  <2>2. CASE id # active
    BY <1>1, <1>2, <1>7, <2>2 DEF Numbered
  <2> QED BY <2>1, <2>2
<1> QED BY <1>7 DEF Numbered

\* No step records a result of a run yet to come.
LEMMA NumberedStep ==
  ASSUME IInv, Next
  PROVE  Numbered'
<1>1. /\ Numbered /\ DOMAIN jobs = Ids /\ runs \in Nat
      /\ \A id \in Ids : jobs[id] # Nothing => jobs[id].results \in Seq(Entries)
  BY BoundsAreNumbers DEF IInv, Shapes, IsJob
<1>2. \A i \in DOMAIN NewJob.results : NewJob.results[i].n <= runs'
  BY NewIsJob
<1>3. \A id \in Ids : jobs[id] # Nothing =>
        \A i \in DOMAIN jobs[id].results :
          jobs[id].results[i].n <= runs /\ jobs[id].results[i].n \in Nat
  <2> TAKE id \in Ids
  <2> HAVE jobs[id] # Nothing
  <2> TAKE i \in DOMAIN jobs[id].results
  <2>1. jobs[id].results[i] \in Entries
    BY <1>1
  <2>2. jobs[id].results[i].n \in 1 .. MaxRuns
    BY <2>1 DEF Entries
  <2> QED BY <1>1, <2>2, BoundsAreNumbers DEF Numbered
<1>4. CASE \/ Refresh \/ Expire \/ Exit \/ Reset \/ Use \/ Enter
           \/ StartRecon \/ Authenticate \/ Run \/ Kill
  <2>1. UNCHANGED <<jobs, runs>>
    BY <1>4 DEF Refresh, Expire, Exit, Reset, Use, Enter, Command, StartRecon, Authenticate,
                Run, Kill
  <2> QED BY <1>1, <2>1 DEF Numbered
<1>5. CASE New \/ Delete
  <2>1. UNCHANGED runs /\ \A id \in Ids : jobs'[id] \in {jobs[id], Nothing, NewJob}
    BY <1>1, <1>5 DEF New, Delete, Command
  <2> QED BY <1>2, <1>3, <2>1 DEF Numbered
<1>6. CASE Launch
  <2>1. runs' = runs + 1 /\ \A id \in Ids : jobs'[id] \in {jobs[id], NewJob}
    BY <1>1, <1>6 DEF Launch
  <2>2. \A m \in Nat : m <= runs => m <= runs'
    BY <1>1, <2>1
  <2> QED BY <1>2, <1>3, <2>1, <2>2 DEF Numbered
<1>7. CASE Record
  <2> DEFINE outcome == run.results[run.recorded + 1]
  <2>1. run.results \in Seq(Results) /\ run.recorded \in Nat /\ run.recorded < Len(run.results)
    BY <1>7 DEF Record, IInv, Shapes, Runs
  <2>2. outcome \in ResultOutcomes
    BY <2>1, KnownOutcomes
  <2> HIDE DEF outcome
  <2> QED BY <1>7, <2>2, AddNumbered DEF Record, outcome
<1>8. CASE Finish
  <2>1. CASE UNCHANGED jobs
    BY <1>1, <1>8, <2>1 DEF Finish, Numbered
  <2>2. CASE \E outcome \in {"failed", "done"} : Add(Entry(outcome))
    BY <1>8, <2>2, AddNumbered DEF Finish, ResultOutcomes
  <2> QED BY <1>8, <2>1, <2>2 DEF Finish
<1> QED BY <1>4, <1>5, <1>6, <1>7, <1>8 DEF Next

\* One more result of a run, added to what ends with its first results.
LEMMA EndsGrow ==
  ASSUME NEW results \in Seq(Entries), NEW told, NEW more, NEW k \in Nat, NEW n, NEW made,
         Ends(results, told, k, n, made), \A i \in 1 .. k : more[i] = told[i],
         NEW e \in Entries, e = [n |-> n, outcome |-> more[k + 1]]
  PROVE  Ends(Append(results, e), more, k + 1, n, made)
<1> DEFINE before == Len(results) - k
           longer == Append(results, e)
<1>1. /\ before \in Nat /\ (made => before = 0)
      /\ \A i \in DOMAIN results :
           IF i <= before THEN results[i].n # n
           ELSE results[i] = [n |-> n, outcome |-> told[i - before]]
  BY DEF Ends
<1>2. /\ Len(results) \in Nat /\ DOMAIN results = 1 .. Len(results)
      /\ Len(longer) = Len(results) + 1 /\ DOMAIN longer = 1 .. Len(results) + 1
      /\ longer[Len(results) + 1] = e /\ \A i \in 1 .. Len(results) : longer[i] = results[i]
  OBVIOUS
<1> HIDE DEF longer
<1>3. Len(longer) - (k + 1) = before
  BY <1>2
<1>5. before = Len(results) - k
  OBVIOUS
<1> HIDE DEF before
<1>6. ASSUME NEW l \in Nat, NEW b \in Nat, b = l - k, NEW i \in Nat
      PROVE  /\ i <= l /\ ~ (i <= b) => i - b \in 1 .. k
             /\ i = l + 1 => ~ (i <= b) /\ i - b = k + 1
  BY <1>6
<1>4. ASSUME NEW i \in DOMAIN longer
      PROVE  IF i <= before THEN longer[i].n # n
             ELSE longer[i] = [n |-> n, outcome |-> more[i - before]]
  <2>1. CASE i \in 1 .. Len(results)
    <3>1. i \in DOMAIN results /\ longer[i] = results[i]
      BY <1>2, <2>1
    <3>2. ~ (i <= before) => i - before \in 1 .. k
      <4>1. i \in Nat /\ i <= Len(results)
        BY <1>2, <2>1
      <4>2. before \in Nat
        BY <1>1
      <4>3. Len(results) \in Nat
        BY <1>2
      <4> QED BY <1>5, <1>6, <4>1, <4>2, <4>3
    <3> QED BY <1>1, <3>1, <3>2
  <2>2. CASE i = Len(results) + 1
    <3>1. ~ (i <= before) /\ i - before = k + 1
      <4>1. i \in Nat
        BY <1>2, <2>2
      <4>2. before \in Nat
        BY <1>1
      <4>3. Len(results) \in Nat
        BY <1>2
      <4> QED BY <1>5, <1>6, <2>2, <4>1, <4>2, <4>3
    <3> QED BY <1>2, <2>2, <3>1
  <2> QED BY <1>2, <2>1, <2>2
<1> QED BY <1>1, <1>3, <1>4 DEF Ends, longer

\* What is recorded of a run follows what was there before it.
LEMMA ProgressStep ==
  ASSUME IInv, Next
  PROVE  Progress'
<1>1. /\ Progress /\ run \in Runs /\ runs \in Nat /\ DOMAIN jobs = Ids
      /\ (active # Nothing => active \in Ids /\ jobs[active] # Nothing)
      /\ \A id \in Ids : jobs[id] # Nothing => jobs[id].results \in Seq(Entries)
  BY BoundsAreNumbers DEF IInv, Shapes, IsJob
<1>2. CASE \/ Refresh \/ Exit \/ Reset \/ Use \/ New \/ Enter \/ Delete
           \/ StartRecon \/ Authenticate \/ Finish \/ Kill
  <2>1. at' \notin {"run", "record"}
    BY <1>2 DEF Refresh, Exit, Reset, Use, New, Enter, Delete, Command, StartRecon, Authenticate,
                Finish, Kill
  <2> QED BY <2>1 DEF Progress
<1>3. CASE Expire
  BY <1>1, <1>3 DEF Expire, Progress
<1>4. CASE Launch
  <2>1. run.results = <<>> /\ run.recorded = 0 /\ run.made = FALSE /\ runs' = runs + 1
    BY <1>4 DEF Launch, IInv, InTurn
  <2>2. ASSUME NEW results \in Seq(Entries), NEW told, NEW made,
               \A i \in DOMAIN results : results[i].n <= runs,
               made => results = <<>>
        PROVE  Ends(results, told, 0, runs', made)
    <3>1. Len(results) \in Nat /\ Len(results) - 0 = Len(results) /\ (made => Len(results) = 0)
      BY <2>2
    <3>2. \A i \in DOMAIN results : i <= Len(results) /\ results[i] \in Entries
      OBVIOUS
    <3>3. \A e \in Entries : e.n \in Nat
      BY BoundsAreNumbers DEF Entries
    <3>4. \A i \in DOMAIN results : results[i].n # runs'
      BY <1>1, <2>1, <2>2, <3>2, <3>3
    <3> QED BY <3>1, <3>2, <3>4 DEF Ends
  <2>3. CASE active # Nothing /\ run' = [run EXCEPT !.job = active] /\ UNCHANGED jobs
    <3>1. run'.job = active /\ run'.results = run.results /\ run'.recorded = 0 /\ run'.made = FALSE
      BY <1>1, <2>1, <2>3 DEF Runs
    <3>2. \A i \in DOMAIN jobs[active].results : jobs[active].results[i].n <= runs
      BY <1>1, <2>3 DEF IInv, Numbered
    <3>3. jobs[active].results \in Seq(Entries)
      BY <1>1, <2>3
    <3> QED BY <2>2, <2>3, <3>1, <3>2, <3>3 DEF Progress
  <2>4. CASE \E id \in Ids : /\ jobs' = [jobs EXCEPT ![id] = NewJob]
                             /\ run' = [run EXCEPT !.job = id, !.made = TRUE]
    <3>1. PICK id \in Ids : /\ jobs' = [jobs EXCEPT ![id] = NewJob]
                           /\ run' = [run EXCEPT !.job = id, !.made = TRUE]
      BY <2>4
    <3>2. run'.job = id /\ run'.results = run.results /\ run'.recorded = 0
      BY <1>1, <2>1, <3>1 DEF Runs
    <3>3. jobs'[run'.job].results = <<>> /\ <<>> \in Seq(Entries)
      BY <1>1, <3>1, <3>2, NewIsJob
    <3>4. \A i \in DOMAIN <<>> : FALSE
      OBVIOUS
    <3>5. Ends(<<>>, run'.results, 0, runs', run'.made)
      <4> DEFINE r == <<>>
      <4>1. r \in Seq(Entries) /\ r = <<>> /\ \A i \in DOMAIN r : r[i].n <= runs
        BY <3>4
      <4> HIDE DEF r
      <4>2. Ends(r, run'.results, 0, runs', run'.made)
        BY <2>2, <4>1
      <4> QED BY <4>1, <4>2
    <3> QED BY <3>2, <3>3, <3>5 DEF Progress
  <2> QED BY <1>4, <2>3, <2>4 DEF Launch
<1>5. CASE Run
  <2>1. PICK cancelled, results : run' = [run EXCEPT !.results = results, !.cancelled = cancelled]
    BY <1>5 DEF Run
  <2>2. /\ at = "run" /\ UNCHANGED <<jobs, runs>> /\ run.recorded = 0
        /\ run.job \in Ids /\ jobs[run.job] # Nothing
    BY <1>1, <1>5 DEF Run, IInv, InTurn
  <2>3. run'.job = run.job /\ run'.recorded = 0 /\ run'.made = run.made
    BY <1>1, <2>1, <2>2 DEF Runs
  <2>4. Ends(jobs[run.job].results, run.results, 0, runs, run.made)
    BY <1>1, <2>2 DEF Progress
  <2>5. ASSUME NEW told PROVE Ends(jobs[run.job].results, told, 0, runs, run.made)
    <3>1. jobs[run.job].results \in Seq(Entries)
      BY <1>1, <2>2
    <3>2. \A i \in DOMAIN jobs[run.job].results : i <= Len(jobs[run.job].results) - 0
      BY <3>1
    <3> QED BY <2>4, <3>2 DEF Ends
  <2> QED BY <2>2, <2>3, <2>5 DEF Progress
<1>6. CASE Record
  <2> DEFINE outcome == run.results[run.recorded + 1]
  <2>1. /\ run.results \in Seq(Results) /\ run.recorded \in Nat /\ run.recorded < Len(run.results)
        /\ at = "record" /\ Add(Entry(outcome)) /\ UNCHANGED runs
        /\ run' = [run EXCEPT !.recorded = @ + 1]
    BY <1>1, <1>6 DEF Record, Runs
  <2>2. outcome \in ResultOutcomes
    BY <2>1, KnownOutcomes
  <2>3. /\ run'.job = run.job /\ run'.recorded = run.recorded + 1 /\ run'.made = run.made
        /\ run'.results = run.results
    BY <1>1, <2>1 DEF Runs
  <2> DEFINE e == [n |-> runs, outcome |-> outcome]
  <2>4. /\ e \in Entries /\ run.job = active /\ jobs[active].results \in Seq(Entries)
        /\ jobs'[active].results = Append(jobs[active].results, e)
    <3> HIDE DEF outcome
    <3> QED BY <2>1, <2>2, AddsToJob
  <2>5. Ends(jobs[active].results, run.results, run.recorded, runs, run.made)
    BY <1>1, <2>1, <2>4 DEF Progress
  <2>6. Ends(jobs'[active].results, run.results, run.recorded + 1, runs, run.made)
    BY <2>1, <2>4, <2>5, EndsGrow
  <2> QED BY <2>1, <2>3, <2>4, <2>6 DEF Progress
<1> QED BY <1>2, <1>3, <1>4, <1>5, <1>6 DEF Next

\* What is reported is what was recorded.
LEMMA ReportedStep ==
  ASSUME IInv, Next
  PROVE  Reported'
<1>1. /\ Reported /\ run \in Runs /\ (reported # Nothing => at = "refresh")
      /\ (at = "record" => run.results # <<>>)
  BY DEF IInv, Shapes, InTurn
<1>2. CASE Refresh
  BY <1>2 DEF Refresh, Reported
<1>3. CASE Expire
  BY <1>1, <1>3 DEF Expire, Reported, CompletionState
<1>4. CASE \/ Exit \/ Reset \/ Use \/ New \/ Enter \/ Delete
           \/ StartRecon \/ Authenticate \/ Launch \/ Record \/ Kill
  <2>1. at # "refresh" /\ UNCHANGED reported
    BY <1>4 DEF Exit, Reset, Use, New, Enter, Delete, Command, StartRecon, Authenticate,
                Launch, Record, Kill
  <2> QED BY <1>1, <2>1 DEF Reported
<1>5. CASE Run
  <2>1. PICK n \in 0 .. MaxResults : \E r \in [1 .. n -> Results] : \E cancelled :
             /\ run' = [run EXCEPT !.results = r, !.cancelled = cancelled]
             /\ reported' = IF n = 0 THEN [state |-> "none", run |-> run'] ELSE Nothing
    BY <1>5 DEF Run
  <2>2. CASE n # 0
    BY <2>1, <2>2 DEF Reported
  <2>3. CASE n = 0
    <3>1. \A r \in [1 .. 0 -> Results] : r = <<>>
      OBVIOUS
    <3>2. run'.results = <<>>
      BY <1>1, <2>1, <2>3, <3>1 DEF Runs
    <3>3. reported'.state = "none" /\ reported'.run = run'
      BY <2>1, <2>3
    <3> QED BY <3>2, <3>3 DEF Reported
  <2> QED BY <2>2, <2>3
<1>6. CASE Finish
  <2> DEFINE told == run.results \o Closing(run, CompletionState)
             state == CompletionState
             k == Len(run.results)
  <2>1. /\ at = "record" /\ run.recorded = k /\ UNCHANGED <<runs, run, active>>
        /\ reported' = [state |-> state, run |-> run] /\ run.results # <<>>
        /\ run.job = active /\ active # Nothing
    BY <1>1, <1>6 DEF Finish, IInv, InTurn
  <2>2. CompletionState' = CompletionState
    BY <2>1 DEF CompletionState
  <2>3. /\ run.results \in Seq(Results) /\ k \in Nat
        /\ Ends(jobs[run.job].results, run.results, k, runs, run.made)
    BY <1>1, <2>1 DEF Runs, IInv, Progress
  <2>4. run.cancelled => state = "partial"
    BY DEF CompletionState
  <2> HIDE DEF state
  <2>5. CASE ~run.cancelled /\ state = "failed" /\ UNCHANGED jobs
    <3>1. told = run.results
      BY <2>3, <2>5 DEF Closing, state
    <3> QED BY <2>1, <2>2, <2>3, <2>5, <3>1 DEF Reported, state
  <2>6. ASSUME NEW c \in {"failed", "done"}, Closing(run, state) = <<c>>, Add(Entry(c))
        PROVE  Ends(jobs'[run.job].results, told, Len(told), runs, run.made)
    <3> DEFINE e == [n |-> runs, outcome |-> c]
    <3>1. /\ e \in Entries /\ jobs[active].results \in Seq(Entries)
          /\ jobs'[active].results = Append(jobs[active].results, e)
      BY <2>1, <2>6, AddsToJob DEF ResultOutcomes
    <3>2. /\ Len(told) = k + 1 /\ told[k + 1] = c
          /\ \A i \in 1 .. k : told[i] = run.results[i]
      <4>1. told = run.results \o <<c>>
        BY <2>6 DEF state
      <4> QED BY <2>3, <4>1
    <3> HIDE DEF told, k
    <3>3. Ends(Append(jobs[active].results, e), told, k + 1, runs, run.made)
      BY <2>1, <2>3, <3>1, <3>2, EndsGrow
    <3> QED BY <2>1, <3>1, <3>2, <3>3
  <2>7. CASE ~ (~run.cancelled /\ state = "failed")
    <3>1. \E c \in {"failed", "done"} : Closing(run, state) = <<c>> /\ Add(Entry(c))
      BY <1>6, <2>4, <2>7 DEF Finish, Closing, state
    <3>2. Ends(jobs'[run.job].results, told, Len(told), runs, run.made)
      BY <2>6, <3>1
    <3> QED BY <2>1, <2>2, <3>2 DEF Reported, state, Closing
  <2> QED BY <1>6, <2>5, <2>7 DEF Finish, state
<1> QED BY <1>2, <1>3, <1>4, <1>5, <1>6 DEF Next
\* Every exit leaves a context, and no other step of the shell adds to the sum.
LEMMA UnwindingStep ==
  ASSUME IInv, Next
  PROVE  Unwinding'
<1> DEFINE e == One(auth /\ fresh)
           a == One(active # Nothing)
           t == One(template)
<1> SUFFICES ASSUME ~ IsRoot
             PROVE  /\ at' \in {"authenticate", "launch", "run", "record"} => exits' = 0
                    /\ at' \in {"refresh", "prompt"} =>
                         exits' + e' + a' + t' <= 3
  BY DEF Unwinding
<1>1. /\ at \in {"authenticate", "launch", "run", "record"} => exits = 0
      /\ at \in {"refresh", "prompt"} => exits + e + a + t <= 3
      /\ exits \in Nat
  BY DEF IInv, Unwinding, Shapes
<1>2. e \in {0, 1} /\ a \in {0, 1} /\ t \in {0, 1} /\ e' \in {0, 1} /\ a' \in {0, 1} /\ t' \in {0, 1}
  BY DEF One
<1>sum. ASSUME NEW x \in Nat, NEW y \in {0, 1}, NEW z \in {0, 1}, NEW w \in {0, 1}
      PROVE  /\ x = 0 => x + y + z + w <= 3
             /\ \A x0 \in Nat, y0, z0, w0 \in {0, 1} :
                  /\ x0 + y0 + z0 + w0 <= 3 /\ x <= x0 + 1
                  /\ y + z + w + 1 <= y0 + z0 + w0
                  => x + y + z + w <= 3
  <2>1. /\ y \in Nat /\ z \in Nat /\ w \in Nat /\ y <= 1 /\ z <= 1 /\ w <= 1
    OBVIOUS
  <2>2. \A y0 \in {0, 1} : y0 \in Nat
    OBVIOUS
  <2> QED BY <2>1, <2>2
<1>3. CASE Refresh
  <2>1. at = "refresh" /\ at' = "prompt" /\ exits' = exits /\ a' = a /\ t' = t
    BY <1>3 DEF Refresh
  <2>2. (auth /\ fresh)' <=> (auth /\ fresh)
    BY <1>3, Zenon DEF Refresh, Elevated
  <2>3. e' = e
    BY <2>2 DEF One
  <2> HIDE DEF e, a, t
  <2> QED BY <1>1, <1>2, <2>1, <2>3
<1>4. CASE Expire
  <2>1. UNCHANGED <<at, exits, active, template>> /\ ~ fresh'
    BY <1>4 DEF Expire
  <2>2. e' = 0 /\ a' = a /\ t' = t
    BY <2>1 DEF One
  <2> HIDE DEF e, a, t
  <2> QED BY <1>1, <1>2, <2>1, <2>2
<1>5. CASE Exit
  <2>1. at = "prompt" /\ exits + e + a + t <= 3 /\ at' \in {"refresh", "ended"}
    BY <1>1, <1>5 DEF Exit
  <2>2. exits' <= exits + 1 /\ exits' \in Nat
    BY <1>1, <1>5 DEF Exit
  <2>3. CASE Elevated
    <3>1. e = 1
      BY <2>3 DEF Elevated, One
    <3>2. auth' = FALSE /\ UNCHANGED <<active, template>>
      BY <1>5, <2>3 DEF Exit, CloseElevated
    <3>3. e' = 0 /\ a' = a /\ t' = t
      BY <3>2 DEF One
    <3>4. e' + a' + t' + 1 <= e + a + t
      BY <1>2, <3>1, <3>3
    <3> HIDE DEF e, a, t
    <3> QED BY <1>1, <1>2, <1>sum, <2>1, <2>2, <3>4
  <2>4. CASE ~ Elevated /\ active # Nothing
    <3>1. a = 1
      BY <2>4 DEF One
    <3>2. auth' = FALSE /\ active' = Nothing /\ UNCHANGED template
      BY <1>5, <2>4 DEF Exit
    <3>3. e' = 0 /\ a' = 0 /\ t' = t
      BY <3>2 DEF One
    <3>4. e' + a' + t' + 1 <= e + a + t
      BY <1>2, <3>1, <3>3
    <3> HIDE DEF e, a, t
    <3> QED BY <1>1, <1>2, <1>sum, <2>1, <2>2, <3>4
  <2>5. CASE ~ Elevated /\ active = Nothing /\ template
    <3>1. t = 1
      BY <2>5 DEF One
    <3>2. auth' = FALSE /\ active' = Nothing /\ template' = FALSE
      BY <1>5, <2>5 DEF Exit
    <3>3. e' = 0 /\ a' = 0 /\ t' = 0
      BY <3>2 DEF One
    <3>4. e' + a' + t' + 1 <= e + a + t
      BY <1>2, <3>1, <3>3
    <3> HIDE DEF e, a, t
    <3> QED BY <1>1, <1>2, <1>sum, <2>1, <2>2, <3>4
  <2>6. CASE ~ Elevated /\ active = Nothing /\ ~ template
    BY <1>5, <2>6 DEF Exit
  <2> QED BY <2>3, <2>4, <2>5, <2>6
<1>6. CASE Reset \/ Use \/ New \/ Enter \/ Delete
  <2>1. at' = "refresh" /\ exits' = 0
    BY <1>6 DEF Reset, Use, New, Enter, Delete, Command
  <2> HIDE DEF e, a, t
  <2> QED BY <1>2, <1>sum, <2>1
<1>7. CASE StartRecon
  BY <1>7 DEF StartRecon
<1>8. CASE Authenticate \/ Launch \/ Run \/ Record \/ Finish \/ Kill
  <2>1. at \in {"authenticate", "launch", "run", "record"} /\ exits' = exits
    BY <1>8 DEF Authenticate, Launch, Run, Record, Finish, Kill
  <2> HIDE DEF e, a, t
  <2> QED BY <1>1, <1>2, <1>sum, <2>1
<1> QED BY <1>3, <1>4, <1>5, <1>6, <1>7, <1>8 DEF Next

-----------------------------------------------------------------------------
\* The invariant holds of a new shell.
LEMMA InitIInv == Init => IInv
<1> SUFFICES ASSUME Init PROVE IInv
  OBVIOUS
<1> USE DEF Init
<1>1. run \in Runs /\ run.recorded <= Len(run.results)
  <2>1. <<>> \in Seq(Results) /\ Len(<<>>) = 0
    OBVIOUS
  <2> QED BY <2>1 DEF NoRun, Runs
<1>2. Shapes
  <2>1. runs \in 0 .. MaxRuns /\ exits \in 0 .. MaxExits
    BY BoundsAreNumbers DEF MaxExits
  <2>2. DOMAIN jobs = Ids /\ \A id \in Ids : jobs[id] = Nothing
    OBVIOUS
  <2> QED BY <1>1, <2>1, <2>2 DEF Shapes
<1>3. InTurn /\ Numbered /\ Progress /\ Reported
  BY DEF InTurn, Numbered, Progress, Reported
<1>4. Unwinding
  <2>1. One(auth /\ fresh) = 0 /\ One(active # Nothing) = 0 /\ One(template) = 0
    BY DEF One
  <2> QED BY <2>1 DEF Unwinding
<1> QED BY <1>2, <1>3, <1>4 DEF IInv

\* Every step, and none, keeps it.
LEMMA NextIInv == IInv /\ [Next]_vars => IInv'
<1> SUFFICES ASSUME IInv, [Next]_vars PROVE IInv'
  OBVIOUS
<1>1. CASE Next
  BY <1>1, ShapesStep, InTurnStep, NumberedStep, ProgressStep, ReportedStep, UnwindingStep DEF IInv
<1>2. CASE UNCHANGED vars
  <2> USE <1>2 DEF vars, IInv
  <2>1. Shapes' /\ InTurn'
    BY DEF Shapes, InTurn
  <2>2. Numbered' /\ Progress'
    BY DEF Numbered, Progress
  <2>3. Reported'
    BY DEF Reported, CompletionState
  <2>4. Unwinding'
    BY DEF Unwinding
  <2> QED BY <2>1, <2>2, <2>3, <2>4
<1> QED BY <1>1, <1>2

LEMMA Invariance == Spec => []IInv
BY InitIInv, NextIInv, PTL DEF Spec

-----------------------------------------------------------------------------
(* The theorems. *)

(* A shell leaves its contexts whatever it was in: unless root runs it, the
   fourth exit in a row ends it (core_shell.py:101). *)
THEOREM ExitsLeadOut == ~ IsRoot => (Spec => []ExitsUnwind)
<1> SUFFICES ASSUME ~ IsRoot PROVE Spec => []ExitsUnwind
  OBVIOUS
<1>1. IInv => ExitsUnwind
  <2> SUFFICES ASSUME IInv, at = "prompt" PROVE exits < MaxExits
    BY DEF ExitsUnwind
  <2> DEFINE e == One(auth /\ fresh)
             a == One(active # Nothing)
             t == One(template)
  <2>1. exits + e + a + t <= 3 /\ exits \in Nat
    BY DEF IInv, Unwinding, Shapes
  <2>2. e \in {0, 1} /\ a \in {0, 1} /\ t \in {0, 1}
    BY DEF One
  <2> HIDE DEF e, a, t
  <2> QED BY <2>1, <2>2 DEF MaxExits
<1> QED BY <1>1, Invariance, PTL

(* The shell's variables, its jobs and what it reports have the types of the
   program's (core_shell.py, jobs.py). *)
THEOREM TypeCorrect == Spec => []TypeOK
<1>1. IInv => TypeOK
  <2> SUFFICES ASSUME IInv PROVE TypeOK
    OBVIOUS
  <2>1. \A id \in Ids : jobs[id] # Nothing => IsRecord(jobs[id])
    BY JobOfIsJob DEF IInv, Shapes, IsJob
  <2>2. IsRun(run)
    BY DEF IInv, Shapes, Runs, IsRun
  <2>3. reported # Nothing => reported.state \in CompletionStates \union {"none"} /\ IsRun(reported.run)
    <3>1. CompletionState \in CompletionStates
      BY StateIsState DEF CompletionState, CompletionStates
    <3> QED BY <2>2, <3>1 DEF IInv, Reported
  <2> QED BY <2>1, <2>2, <2>3 DEF IInv, Shapes, TypeOK
<1> QED BY <1>1, Invariance, PTL

(* A run that was reported ends the active job, whole, in order and closed,
   and no result before it is of that run (recon_cmd.py:90-128). *)
THEOREM RunsRecorded == Spec => []RunIsRecorded
<1>1. IInv => RunIsRecorded
  <2> SUFFICES ASSUME IInv, reported # Nothing, reported.run.results # <<>>
               PROVE  LET told   == reported.run.results \o Closing(reported.run, reported.state)
                          before == Len(Job.results) - Len(told)
                      IN  /\ reported.run.job = active
                          /\ before \in Nat
                          /\ \A i \in DOMAIN Job.results :
                               IF i <= before THEN Job.results[i].n # runs
                               ELSE Job.results[i] = [n |-> runs, outcome |-> told[i - before]]
    BY Zenon DEF RunIsRecorded, Closing
  <2> DEFINE told == run.results \o Closing(run, CompletionState)
  <2>1. /\ reported.run = run /\ reported.state = CompletionState /\ run.job = active
        /\ Ends(jobs[run.job].results, told, Len(told), runs, run.made)
    BY DEF IInv, Reported
  <2>2. Job = jobs[run.job]
    BY <2>1 DEF Job
  <2>3. told = reported.run.results \o Closing(reported.run, reported.state)
    BY <2>1
  <2> HIDE DEF told
  <2> QED BY <2>1, <2>2, <2>3 DEF Ends
<1> QED BY <1>1, Invariance, PTL

\* A failed step shows in the status of its job.
LEMMA FailureShows ==
  ASSUME NEW r \in Seq(Entries), NEW i \in DOMAIN r, r[i].outcome = "failed"
  PROVE  JobStatus(r) \in {"partial", "failed"}
<1> DEFINE S == {StepStatus(e.outcome) : e \in ToSet(r)}
<1>1. r[i] \in ToSet(r) /\ StepStatus(r[i].outcome) = "failed"
  BY DEF ToSet, StepStatus
<1>2. "failed" \in S
  BY <1>1
<1> HIDE DEF S
<1>3. DeriveCompletionState(S) \in {"partial", "failed"}
  BY <1>2 DEF DeriveCompletionState
<1> QED BY <1>3 DEF JobStatus, S

\* One more step that is done changes no status but failed and initialized.
LEMMA DoneChangesNothing ==
  ASSUME NEW S, S \subseteq {"failed", "completed_with_warnings", "completed"}, S # {},
         DeriveCompletionState(S) # "failed"
  PROVE  DeriveCompletionState(S \union {"completed"}) = DeriveCompletionState(S)
<1> DEFINE T == S \union {"completed"}
           W == {"completed", "completed_with_warnings", "partial"}
<1>1. T # {} /\ "completed" \in T /\ "partial" \notin S /\ "partial" \notin T
  OBVIOUS
<1>2. CASE S = {"completed"}
  <2>1. T = S
    BY <1>2
  <2> QED BY <2>1
<1>3. CASE S # {"completed"} /\ "failed" \in S
  <2>1. S \intersect W # {}
    BY <1>3 DEF DeriveCompletionState
  <2>2. DeriveCompletionState(S) = "partial"
    BY <1>3, <2>1 DEF DeriveCompletionState
  <2>3. T # {"completed"} /\ "failed" \in T /\ T \intersect W # {}
    BY <1>3
  <2>4. DeriveCompletionState(T) = "partial"
    BY <1>1, <2>3 DEF DeriveCompletionState
  <2> QED BY <2>2, <2>4
<1>4. CASE S # {"completed"} /\ "failed" \notin S
  <2>1. "completed_with_warnings" \in S
    BY <1>4
  <2>2. /\ T # {"completed"} /\ "failed" \notin T /\ "completed_with_warnings" \in T
        /\ S \intersect {"failed", "partial"} = {} /\ T \intersect {"failed", "partial"} = {}
    BY <1>1, <1>4, <2>1
  <2>3. DeriveCompletionState(S) = "completed_with_warnings"
    BY <1>1, <1>4, <2>1, <2>2 DEF DeriveCompletionState
  <2>4. DeriveCompletionState(T) = "completed_with_warnings"
    BY <1>1, <2>2 DEF DeriveCompletionState
  <2> QED BY <2>3, <2>4
<1> QED BY <1>2, <1>3, <1>4

(* What the user was told is what the job says: of a run that made its job
   the state reported is that of the job, and a cancelled run never looks
   complete (recon_cmd.py:111-129, jobs.py:243). *)
THEOREM ReportsTrue == Spec => []ReportMatchesJob
<1>1. IInv => ReportMatchesJob
  <2> SUFFICES ASSUME IInv, reported # Nothing, reported.run.results # <<>>
               PROVE  /\ reported.run.cancelled => Job.status \in {"partial", "failed"}
                      /\ ~ reported.run.cancelled /\ reported.run.made => Job.status = reported.state
    BY DEF ReportMatchesJob
  <2> DEFINE told == run.results \o Closing(run, CompletionState)
             r == jobs[run.job].results
  <2>1. /\ reported.run = run /\ reported.state = CompletionState /\ run.job = active
        /\ active \in Ids /\ jobs[active] # Nothing
        /\ Ends(r, told, Len(told), runs, run.made)
    BY DEF IInv, Shapes, Reported
  <2>2. Job = jobs[run.job] /\ r \in Seq(Entries) /\ Job.status = JobStatus(r)
    BY <2>1, JobOfIsJob DEF Job, IInv, Shapes, IsJob
  <2>3. run.results \in Seq(Results) /\ run.results # <<>>
    BY <2>1 DEF IInv, Shapes, Runs
  <2>4. run.cancelled => Job.status \in {"partial", "failed"}
    <3> SUFFICES ASSUME run.cancelled PROVE Job.status \in {"partial", "failed"}
      OBVIOUS
    <3>1. told = run.results \o <<"failed">>
      BY DEF Closing
    <3>2. Len(told) \in Nat \ {0} /\ told[Len(told)] = "failed"
      BY <2>3, <3>1
    <3> HIDE DEF told, r
    <3>3. /\ Len(r) - Len(told) \in Nat
          /\ \A i \in DOMAIN r :
               ~ (i <= Len(r) - Len(told)) =>
                 r[i] = [n |-> runs, outcome |-> told[i - (Len(r) - Len(told))]]
      BY <2>1 DEF Ends
    <3>4. Len(r) \in DOMAIN r /\ ~ (Len(r) <= Len(r) - Len(told))
          /\ Len(r) - (Len(r) - Len(told)) = Len(told)
      BY <2>2, <3>2, <3>3
    <3>5. r[Len(r)] = [n |-> runs, outcome |-> "failed"]
      BY <3>2, <3>3, <3>4
    <3> QED BY <2>2, <3>4, <3>5, FailureShows
  <2>5. ~ run.cancelled /\ run.made => Job.status = CompletionState
    <3> SUFFICES ASSUME ~ run.cancelled, run.made PROVE JobStatus(r) = CompletionState
      BY <2>2
    <3> DEFINE S == {StepStatus(outcome) : outcome \in ToSet(run.results)}
               T == {StepStatus(outcome) : outcome \in ToSet(told)}
    <3>1. CompletionState = DeriveCompletionState(S)
      BY DEF CompletionState
    <3>2. told = IF CompletionState = "failed" THEN run.results ELSE Append(run.results, "done")
      <4>1. /\ run.results \o <<>> = run.results
            /\ run.results \o <<"done">> = Append(run.results, "done")
        BY <2>3
      <4>2. Closing(run, CompletionState) = IF CompletionState = "failed" THEN <<>> ELSE <<"done">>
        BY DEF Closing
      <4> QED BY <4>1, <4>2
    <3>3. S # {} /\ S \subseteq {"failed", "completed_with_warnings", "completed"}
      <4>1. run.results[1] \in ToSet(run.results)
        BY <2>3 DEF ToSet
      <4> QED BY <4>1 DEF StepStatus
    <3>4. T = IF CompletionState = "failed" THEN S ELSE S \union {"completed"}
      <4>1. ToSet(Append(run.results, "done")) = ToSet(run.results) \union {"done"}
        <5> DEFINE q == run.results
        <5>1. /\ DOMAIN Append(q, "done") = DOMAIN q \union {Len(q) + 1}
              /\ Append(q, "done")[Len(q) + 1] = "done"
              /\ \A i \in DOMAIN q : Append(q, "done")[i] = q[i]
          BY <2>3
        <5> DEFINE l == Append(q, "done")
                   m == Len(q) + 1
        <5> HIDE DEF q, l, m
        <5>2. DOMAIN l = DOMAIN q \union {m} /\ l[m] = "done" /\ \A i \in DOMAIN q : l[i] = q[i]
          BY <5>1 DEF l, m
        <5>3. ASSUME NEW x PROVE x \in ToSet(l) <=> x \in ToSet(q) \union {"done"}
          <6>1. x \in ToSet(l) <=> \E i \in DOMAIN l : x = l[i]
            BY DEF ToSet
          <6>2. x \in ToSet(q) <=> \E i \in DOMAIN q : x = q[i]
            BY DEF ToSet
          <6> QED BY <5>2, <6>1, <6>2
        <5>4. ToSet(l) = ToSet(q) \union {"done"}
          BY <5>3
        <5> QED BY <5>4 DEF l, q
      <4>2. StepStatus("done") = "completed"
        BY DEF StepStatus
      <4> QED BY <3>2, <4>1, <4>2
    <3>5. DeriveCompletionState(T) = CompletionState
      <4> HIDE DEF S, T
      <4> QED BY <3>1, <3>3, <3>4, DoneChangesNothing
    <3>6. {StepStatus(e.outcome) : e \in ToSet(r)} = T
      <4>1. told \in Seq(ResultOutcomes)
        <5>1. run.results \in Seq(ResultOutcomes) /\ "done" \in ResultOutcomes
          <6>1. "done" \in ResultOutcomes
            BY DEF ResultOutcomes
          <6> QED BY <2>3, <6>1, KnownOutcomes
        <5>2. Append(run.results, "done") \in Seq(ResultOutcomes)
          BY <5>1
        <5> HIDE DEF told
        <5> QED BY <3>2, <5>1, <5>2
      <4> HIDE DEF told, r
      <4>2. Len(r) \in Nat /\ Len(told) \in Nat /\ Len(r) - Len(told) = 0
        BY <2>1, <2>2, <4>1 DEF Ends
      <4>3. Len(r) = Len(told) /\ DOMAIN r = DOMAIN told /\ DOMAIN told = 1 .. Len(told)
        BY <2>2, <4>1, <4>2
      <4>4. \A i \in DOMAIN r : r[i].outcome = told[i]
        <5> TAKE i \in DOMAIN r
        <5>1. ~ (i <= Len(r) - Len(told)) /\ i - (Len(r) - Len(told)) = i
          BY <4>2, <4>3
        <5>2. r[i] = [n |-> runs, outcome |-> told[i - (Len(r) - Len(told))]]
          BY <2>1, <5>1 DEF Ends
        <5> QED BY <5>1, <5>2
      <4> QED BY <4>3, <4>4 DEF ToSet
    <3> QED BY <3>5, <3>6 DEF JobStatus
  <2> QED BY <2>1, <2>4, <2>5
<1> QED BY <1>1, Invariance, PTL
=============================================================================
