------------------------------ MODULE Session ------------------------------
(***************************************************************************)
(* One interactive shell and the recon runs started in it: its contexts    *)
(* (an elevated session, a job, a template), how they are entered and left *)
(* (cli/core_shell.py, cli/auth.py, cli/dispatcher.py), and how a run is   *)
(* recorded in the active job and reported (commands/recon/recon_cmd.py).  *)
(*                                                                         *)
(* A command is typed at the prompt and runs to its end; only a recon run  *)
(* is taken apart.  The entry n of a result is the number of its run.  How *)
(* jobs get to disk, other shells and crashes there are the matter of      *)
(* JobStore, what a template is that of the registry.                      *)
(***************************************************************************)
EXTENDS JobRecord

CONSTANTS
  IsRoot,       \* the shell is run by root
  Ids,
  Nothing,      \* no job, no report
  Results,      \* outcomes of steps
  MaxResults,   \* bound: results of a run
  MaxRuns       \* bound: recon runs

ASSUME BoundsAreNumbers == MaxResults \in Nat \ {0} /\ MaxRuns \in Nat
ASSUME KnownOutcomes == Results \subseteq ResultOutcomes
ASSUME RootIsBoolean == IsRoot \in BOOLEAN

Entries == [n : 1 .. MaxRuns, outcome : ResultOutcomes]

ASSUME NothingIsNoJob == Nothing \notin Ids /\ Nothing \notin JobsOf(Entries)

VARIABLES
  at,         \* where run_shell is
  auth,       \* state.sudo_authenticated
  fresh,      \* the clock has not reached state.sudo_expires_at
  active,     \* state.active_job
  template,   \* state.active_template is set
  jobs,       \* the records in the repository, or Nothing
  runs,       \* number of recon runs so far
  run,        \* the recon command in progress
  reported,   \* history: what the command that just ended reported, or Nothing
  exits       \* history: exit commands, or Ctrl-D, in a row

vars == <<at, auth, fresh, active, template, jobs, runs, run, reported, exits>>

NoRun == [job |-> Nothing, needs |-> FALSE, made |-> FALSE, results |-> <<>>,
          recorded |-> 0, cancelled |-> FALSE]

\* The number of exits in a row that leaves every context and the shell.
MaxExits == 4

Init ==
  /\ at = "refresh"
  /\ auth = FALSE /\ fresh = FALSE
  /\ active = Nothing /\ template = FALSE
  /\ jobs = [id \in Ids |-> Nothing]
  /\ runs = 0 /\ run = NoRun
  /\ reported = Nothing
  /\ exits = 0

\* refresh_sudo_state: root is elevated always, others until it expires.
Elevated == IsRoot \/ (auth /\ fresh)

\* The loop of run_shell, up to the prompt.
Refresh ==
  /\ at = "refresh"
  /\ auth' = Elevated
  /\ fresh' = Elevated
  /\ reported' = Nothing
  /\ at' = "prompt"
  /\ UNCHANGED <<active, template, jobs, runs, run, exits>>

Expire ==
  /\ fresh /\ ~IsRoot
  /\ fresh' = FALSE
  /\ UNCHANGED <<at, auth, active, template, jobs, runs, run, reported, exits>>

-----------------------------------------------------------------------------
\* Mutant: the elevated session is closed, but not for this shell.
CloseElevated_SudoOnly == UNCHANGED <<auth, fresh>>

\* close_elevated_session, of a session that is elevated.
CloseElevated == auth' = FALSE /\ fresh' = FALSE

\* exit or Ctrl-D: unwind_current_context leaves one context, the innermost.
Exit ==
  /\ at = "prompt"
  /\ exits' = IF exits < MaxExits THEN exits + 1 ELSE exits
  /\ \/ /\ Elevated
        /\ CloseElevated
        /\ at' = "refresh"
        /\ UNCHANGED <<active, template>>
     \/ /\ ~Elevated
        /\ auth' = FALSE /\ fresh' = FALSE
        /\ active' = Nothing
        /\ template' = IF active = Nothing THEN FALSE ELSE template
        /\ at' = IF active = Nothing /\ ~template THEN "ended" ELSE "refresh"
  /\ UNCHANGED <<jobs, runs, run, reported>>

\* What a command that ends at once leaves alone.
Command ==
  /\ at = "prompt" /\ at' = "refresh"
  /\ exits' = 0
  /\ UNCHANGED <<runs, run, reported>>

\* reset; the active job stays.
Reset ==
  /\ Command
  /\ auth' = FALSE /\ fresh' = FALSE /\ template' = FALSE
  /\ UNCHANGED <<active, jobs>>

Use ==
  /\ Command
  /\ template' = TRUE
  /\ UNCHANGED <<auth, fresh, active, jobs>>

New ==
  /\ Command
  /\ \E id \in Ids :
       /\ jobs[id] = Nothing
       /\ jobs' = [jobs EXCEPT ![id] = NewJob]
       /\ active' = id
  /\ UNCHANGED <<auth, fresh, template>>

Enter ==
  /\ Command
  /\ \E id \in Ids : jobs[id] # Nothing /\ active' = id
  /\ UNCHANGED <<auth, fresh, template, jobs>>

Delete ==
  /\ Command
  /\ \E S \in SUBSET {id \in Ids : jobs[id] # Nothing} \ {{}} :
       /\ jobs' = [id \in Ids |-> IF id \in S THEN Nothing ELSE jobs[id]]
       /\ active' = IF active \in S THEN Nothing ELSE active
  /\ UNCHANGED <<auth, fresh, template>>

-----------------------------------------------------------------------------
\* recon[...], valid: a plan that needs elevation is not run without it.  The
\* second guard is a bound: there may be as many jobs as Ids.
StartRecon ==
  /\ at = "prompt" /\ runs < MaxRuns
  /\ active # Nothing \/ \E id \in Ids : jobs[id] = Nothing
  /\ exits' = 0
  /\ \E needs \in BOOLEAN :
       /\ run' = [NoRun EXCEPT !.needs = needs]
       /\ IF needs THEN auth' = Elevated /\ fresh' = Elevated ELSE UNCHANGED <<auth, fresh>>
       /\ at' = IF needs /\ ~Elevated THEN "authenticate" ELSE "launch"
  /\ UNCHANGED <<active, template, jobs, runs, reported>>

\* ensure_elevated_session asks until the password is right or the user, or
\* sudo, has enough.
Authenticate ==
  /\ at = "authenticate"
  /\ \/ /\ auth' = TRUE /\ fresh' = TRUE
        /\ at' = "launch"
     \/ /\ at' = "refresh"
        /\ UNCHANGED <<auth, fresh>>
  /\ UNCHANGED <<active, template, jobs, runs, run, reported, exits>>

\* _dispatch_recon: outside a job the shell makes one and enters it.
Launch ==
  /\ at = "launch"
  /\ runs' = runs + 1
  /\ \/ /\ active # Nothing
        /\ run' = [run EXCEPT !.job = active]
        /\ UNCHANGED <<active, jobs>>
     \/ /\ active = Nothing
        /\ \E id \in Ids :
             /\ jobs[id] = Nothing
             /\ jobs' = [jobs EXCEPT ![id] = NewJob]
             /\ active' = id
             /\ run' = [run EXCEPT !.job = id, !.made = TRUE]
  /\ at' = "run"
  /\ UNCHANGED <<auth, fresh, template, reported, exits>>

\* run_expression returns.  If it has no result, because it was cancelled or
\* no step is enabled, handle_recon says so, and does no more.
Run ==
  /\ at = "run"
  /\ \E n \in 0 .. MaxResults, cancelled \in BOOLEAN :
       /\ \E results \in [1 .. n -> Results] :
            run' = [run EXCEPT !.results = results, !.cancelled = cancelled]
       /\ reported' = IF n = 0 THEN [state |-> "none", run |-> run'] ELSE Nothing
       /\ at' = IF n = 0 THEN "refresh" ELSE "record"
  /\ UNCHANGED <<auth, fresh, active, template, jobs, runs, exits>>

Entry(outcome) == [n |-> runs, outcome |-> outcome]

\* append_job_result, whose answer nobody reads.
Add(entry) ==
  jobs' = [jobs EXCEPT ![run.job] = IF @ = Nothing THEN @ ELSE AppendResult(@, entry)]

\* Mutant: a step that did nothing is not worth recording.
Record_NotSkipped ==
  /\ at = "record" /\ run.recorded < Len(run.results)
  /\ IF run.results[run.recorded + 1] = "skipped" THEN UNCHANGED jobs
     ELSE Add(Entry(run.results[run.recorded + 1]))
  /\ run' = [run EXCEPT !.recorded = @ + 1]
  /\ UNCHANGED <<at, auth, fresh, active, template, runs, reported, exits>>

\* record_job_result, one result after the other.
Record ==
  /\ at = "record" /\ run.recorded < Len(run.results)
  /\ Add(Entry(run.results[run.recorded + 1]))
  /\ run' = [run EXCEPT !.recorded = @ + 1]
  /\ UNCHANGED <<at, auth, fresh, active, template, runs, reported, exits>>

\* The state handle_recon reports.
CompletionState ==
  IF run.cancelled THEN "partial"
  ELSE DeriveCompletionState({StepStatus(outcome) : outcome \in ToSet(run.results)})

\* Mutant: the evidence graph is recorded even if every step failed.
Finish_Evidence ==
  /\ at = "record" /\ run.recorded = Len(run.results)
  /\ Add(Entry(IF run.cancelled THEN "failed" ELSE "done"))
  /\ reported' = [state |-> CompletionState, run |-> run]
  /\ at' = "refresh"
  /\ UNCHANGED <<auth, fresh, active, template, runs, run, exits>>

\* A cancellation is recorded as a failed step, the evidence graph of a run
\* that is neither cancelled nor failed as one that is done.
Finish ==
  /\ at = "record" /\ run.recorded = Len(run.results)
  /\ IF ~run.cancelled /\ CompletionState = "failed" THEN UNCHANGED jobs
     ELSE Add(Entry(IF run.cancelled THEN "failed" ELSE "done"))
  /\ reported' = [state |-> CompletionState, run |-> run]
  /\ at' = "refresh"
  /\ UNCHANGED <<auth, fresh, active, template, runs, run, exits>>

\* Ctrl-C, or an error, while a command runs: only the prompt catches it.
Kill ==
  /\ at \in {"authenticate", "launch", "run", "record"}
  /\ at' = "killed"
  /\ UNCHANGED <<auth, fresh, active, template, jobs, runs, run, reported, exits>>

Next ==
  \/ Refresh \/ Expire \/ Exit
  \/ Reset \/ Use \/ New \/ Enter \/ Delete
  \/ StartRecon \/ Authenticate \/ Launch \/ Run \/ Record \/ Finish
  \/ Kill

Spec == Init /\ [][Next]_vars

-----------------------------------------------------------------------------
IsRecord(job) ==
  /\ job.steps \in Seq(Entries) /\ job.results \in Seq(Entries)
  /\ job.status \in CompletionStates

IsRun(r) ==
  /\ r.job \in Ids \union {Nothing} /\ r.needs \in BOOLEAN /\ r.made \in BOOLEAN
  /\ r.results \in Seq(Results) /\ r.recorded \in 0 .. Len(r.results) /\ r.cancelled \in BOOLEAN

TypeOK ==
  /\ at \in {"refresh", "prompt", "authenticate", "launch", "run", "record", "ended", "killed"}
  /\ auth \in BOOLEAN /\ fresh \in BOOLEAN /\ template \in BOOLEAN
  /\ active \in Ids \union {Nothing}
  /\ \A id \in Ids : jobs[id] # Nothing => IsRecord(jobs[id])
  /\ runs \in 0 .. MaxRuns /\ IsRun(run)
  /\ reported # Nothing => reported.state \in CompletionStates \union {"none"} /\ IsRun(reported.run)
  /\ exits \in 0 .. MaxExits

\* The record of the job that a finished run was recorded in.
Job == jobs[reported.run.job]

(* What the user was told is what the job says: the state reported of a run
   that made its job is the state derived, by other code and from other
   data, for the job; a cancelled run never looks complete afterwards
   (recon_cmd.py:111-129, jobs.py:243). *)
ReportMatchesJob ==
  reported # Nothing /\ reported.run.results # <<>> =>
    IF reported.run.cancelled THEN Job.status \in {"partial", "failed"}
    ELSE reported.run.made => Job.status = reported.state

(* A run that was reported ends the active job: all its results in their
   order, closed by its evidence or its cancellation, and none of it before,
   whatever contexts were left, entered or deleted (recon_cmd.py:90-128). *)
RunIsRecorded ==
  reported # Nothing /\ reported.run.results # <<>> =>
    LET closing == IF reported.run.cancelled THEN <<"failed">>
                   ELSE IF reported.state = "failed" THEN <<>> ELSE <<"done">>
        told    == reported.run.results \o closing
        before  == Len(Job.results) - Len(told)
    IN  /\ reported.run.job = active
        /\ before \in Nat
        /\ \A i \in DOMAIN Job.results :
             IF i <= before THEN Job.results[i].n # runs
             ELSE Job.results[i] = [n |-> runs, outcome |-> told[i - before]]

(* exit leads out: whatever contexts a shell has been in and whenever its
   elevation expires, the fourth exit in a row ends it (core_shell.py:101). *)
ExitsUnwind == at = "prompt" => exits < MaxExits

=============================================================================
