------------------------------ MODULE JobStore ------------------------------
(***************************************************************************)
(* The JSON job repository (storage/job_store.py) and the shells that      *)
(* create, fill and delete jobs in it (cli/commands/system/jobs_cmd.py).   *)
(*                                                                         *)
(* Each shell is a process: its RLock is its own, so that what keeps       *)
(* shells apart is only what the file system does in one step.  A job is   *)
(* written to a temporary file that then replaces the job's file; a shell  *)
(* may be killed, or leave by an exception, between any two steps.         *)
(* Temporary files are not modelled: nothing reads them.                   *)
(***************************************************************************)
EXTENDS JobRecord

CONSTANTS
  Shells,
  Ids,
  NoJob,
  Shared,       \* a job that several shells have written, in JobLog
  Results,      \* outcomes of results recorded
  OldFiles,     \* what a file from an older version may hold
  MaxEntries,   \* bound: entries ever recorded
  MaxCreated,   \* bound: jobs ever created
  MaxCrashes    \* bound: crashes

ASSUME BoundsAreNumbers == {MaxEntries, MaxCreated, MaxCrashes} \subseteq Nat

\* n is MaxEntries for what an older version recorded.
Entries == [n : 0 .. MaxEntries, outcome : ResultOutcomes]

\* What an older version left may lack steps and summary; its status is none
\* that counts any more, or says of the results what it would say now.
IsOldFile(file) ==
  /\ file.results \in Seq([n : {MaxEntries}, outcome : ResultOutcomes])
  /\ file.steps \in {<<>>, file.results}
  /\ file.summary \in {NoSummary, Summary(file.results)}
  /\ file.status \in CompletionStates \ {"initialized"} => file.status = JobStatus(file.results)

ASSUME ResultsAreOutcomes == Results \subseteq ResultOutcomes

ASSUME OldFilesAreOld == \A file \in OldFiles : IsOldFile(file)

ASSUME NoJobIsNothing ==
  /\ NoJob \notin Ids /\ NoJob \notin OldFiles /\ NoJob \notin JobsOf(Entries)
  /\ NoJob # Shared /\ NoJob \notin Seq(Entries) /\ Shared \notin Seq(Entries)

VARIABLES
  files,     \* NoJob, or the record in the job's file
  at,        \* what a shell is doing
  active,    \* its state.active_job, or NoJob
  draft,     \* the record it is saving, and under which id
  doomed,    \* ids it has yet to delete
  gone,      \* ids it has deleted in this command
  recorded,  \* number of entries so far
  created,   \* number of jobs so far
  crashes,   \* number of crashes so far
  acked,     \* history: entries of a job whose append_result returned True
  users      \* history: shells that wrote or deleted the job's file

vars == <<files, at, active, draft, doomed, gone, recorded, created, crashes,
          acked, users>>

NoDraft == [id |-> NoJob, job |-> NewJob]

Init ==
  /\ files \in [Ids -> {NoJob} \union OldFiles]
  /\ at = [sh \in Shells |-> "idle"]
  /\ active = [sh \in Shells |-> NoJob]
  /\ draft = [sh \in Shells |-> NoDraft]
  /\ doomed = [sh \in Shells |-> {}]
  /\ gone = [sh \in Shells |-> {}]
  /\ recorded = 0 /\ created = 0 /\ crashes = 0
  /\ acked = [id \in Ids |-> IF files[id] = NoJob THEN <<>> ELSE files[id].results]
  /\ users = [id \in Ids |-> {}]

Load(id) == IF files[id] = NoJob THEN NoJob ELSE JobFromDict(files[id])

\* Mutant: new_id does not look whether the id is taken.
New_AnyId(sh) ==
  /\ at[sh] = "idle" /\ created < MaxCreated
  /\ \E id \in Ids : draft' = [draft EXCEPT ![sh] = [id |-> id, job |-> NewJob]]
  /\ created' = created + 1
  /\ at' = [at EXCEPT ![sh] = "creating"]
  /\ UNCHANGED <<files, active, doomed, gone, recorded, crashes, acked, users>>

\* handle_new: new_id picks an id whose file does not exist.
New(sh) ==
  /\ at[sh] = "idle" /\ created < MaxCreated
  /\ \E id \in Ids :
       /\ files[id] = NoJob
       /\ draft' = [draft EXCEPT ![sh] = [id |-> id, job |-> NewJob]]
  /\ created' = created + 1
  /\ at' = [at EXCEPT ![sh] = "creating"]
  /\ UNCHANGED <<files, active, doomed, gone, recorded, crashes, acked, users>>

\* handle_enter.
Enter(sh) ==
  /\ at[sh] = "idle"
  /\ \E id \in Ids : Load(id) # NoJob /\ active' = [active EXCEPT ![sh] = id]
  /\ UNCHANGED <<files, at, draft, doomed, gone, recorded, created, crashes,
                 acked, users>>

\* handle_leave_job.
Leave(sh) ==
  /\ at[sh] = "idle" /\ active[sh] # NoJob
  /\ active' = [active EXCEPT ![sh] = NoJob]
  /\ UNCHANGED <<files, at, draft, doomed, gone, recorded, created, crashes,
                 acked, users>>

\* append_result for a result of the active job: the job is loaded and the
\* result added to what was loaded, or the result is dropped.
BeginAppend(sh) ==
  /\ at[sh] = "idle" /\ active[sh] # NoJob /\ recorded < MaxEntries
  /\ recorded' = recorded + 1
  /\ \E outcome \in Results :
       LET entry == [n |-> recorded, outcome |-> outcome]
           job   == Load(active[sh])
       IN  \/ /\ job = NoJob
              /\ UNCHANGED <<draft, at>>
           \/ /\ job # NoJob
              /\ draft' = [draft EXCEPT ![sh] =
                             [id |-> active[sh], job |-> AppendResult(job, entry)]]
              /\ at' = [at EXCEPT ![sh] = "appending"]
  /\ UNCHANGED <<files, active, doomed, gone, created, crashes, acked, users>>

\* Mutant: the job's file is written in place, and is no JSON meanwhile.
WriteTemporary_InPlace(sh) ==
  /\ at[sh] \in {"creating", "appending"}
  /\ files' = [files EXCEPT ![draft[sh].id] = NoJob]
  /\ at' = [at EXCEPT ![sh] = IF at[sh] = "creating" THEN "created" ELSE "appended"]
  /\ UNCHANGED <<active, draft, doomed, gone, recorded, created, crashes,
                 acked, users>>

\* save: the temporary file is complete and on disk.
WriteTemporary(sh) ==
  /\ at[sh] \in {"creating", "appending"}
  /\ at' = [at EXCEPT ![sh] = IF at[sh] = "creating" THEN "created" ELSE "appended"]
  /\ UNCHANGED <<files, active, draft, doomed, gone, recorded, created, crashes,
                 acked, users>>

\* save: os.replace.
Replace(sh) ==
  LET id == draft[sh].id
  IN  /\ at[sh] \in {"created", "appended"}
      /\ files' = [files EXCEPT ![id] = draft[sh].job]
      /\ users' = [users EXCEPT ![id] = @ \union {sh}]
      /\ at' = [at EXCEPT ![sh] = "saved"]
      /\ UNCHANGED <<active, draft, doomed, gone, recorded, created, crashes, acked>>

\* The command goes on: a new job is entered, an appended result counts.
Return(sh) ==
  LET id == draft[sh].id
      results == draft[sh].job.results
  IN  /\ at[sh] = "saved"
      /\ active' = [active EXCEPT ![sh] = id]
      /\ acked' = [acked EXCEPT ![id] =
                     IF results = <<>> THEN <<>> ELSE Append(@, results[Len(results)])]
      /\ draft' = [draft EXCEPT ![sh] = NoDraft]
      /\ at' = [at EXCEPT ![sh] = "idle"]
      /\ UNCHANGED <<files, doomed, gone, recorded, created, crashes, users>>

\* handle_delete_job: the ids named, or with * those of all jobs there are.
BeginDelete(sh) ==
  /\ at[sh] = "idle"
  /\ \E S \in SUBSET Ids \ {{}} :
       /\ S \in {{id} : id \in Ids} \/ S = {id \in Ids : Load(id) # NoJob}
       /\ doomed' = [doomed EXCEPT ![sh] = S]
  /\ at' = [at EXCEPT ![sh] = "deleting"]
  /\ UNCHANGED <<files, active, draft, gone, recorded, created, crashes, acked, users>>

\* delete: one unlink, whether it finds the file or not.
Unlink(sh) ==
  /\ at[sh] = "deleting"
  /\ \E id \in doomed[sh] :
       /\ doomed' = [doomed EXCEPT ![sh] = @ \ {id}]
       /\ gone' = [gone EXCEPT ![sh] = IF files[id] = NoJob THEN @ ELSE @ \union {id}]
       /\ files' = [files EXCEPT ![id] = NoJob]
       /\ acked' = [acked EXCEPT ![id] = <<>>]
       /\ users' = [users EXCEPT ![id] = @ \union {sh}]
  /\ UNCHANGED <<at, active, draft, recorded, created, crashes>>

\* Mutant: the shell stays in a job it deleted.
EndDelete_Stay(sh) ==
  /\ at[sh] = "deleting" /\ doomed[sh] = {}
  /\ at' = [at EXCEPT ![sh] = "idle"]
  /\ UNCHANGED <<files, active, draft, doomed, gone, recorded, created, crashes,
                 acked, users>>

\* The shell leaves its job if that is among the deleted ones.
EndDelete(sh) ==
  /\ at[sh] = "deleting" /\ doomed[sh] = {}
  /\ active' = [active EXCEPT ![sh] = IF @ \in gone[sh] THEN NoJob ELSE @]
  /\ gone' = [gone EXCEPT ![sh] = {}]
  /\ at' = [at EXCEPT ![sh] = "idle"]
  /\ UNCHANGED <<files, draft, doomed, recorded, created, crashes, acked, users>>

\* The shell is killed, or an OSError or Ctrl-C ends it (only the prompt
\* handles them); started again, it knows nothing of before.
Crash(sh) ==
  /\ at[sh] # "idle" /\ crashes < MaxCrashes
  /\ crashes' = crashes + 1
  /\ at' = [at EXCEPT ![sh] = "idle"]
  /\ active' = [active EXCEPT ![sh] = NoJob]
  /\ draft' = [draft EXCEPT ![sh] = NoDraft]
  /\ doomed' = [doomed EXCEPT ![sh] = {}]
  /\ gone' = [gone EXCEPT ![sh] = {}]
  /\ UNCHANGED <<files, recorded, created, acked, users>>

Next ==
  \E sh \in Shells :
    \/ New(sh) \/ Enter(sh) \/ Leave(sh)
    \/ BeginAppend(sh) \/ WriteTemporary(sh) \/ Replace(sh) \/ Return(sh)
    \/ BeginDelete(sh) \/ Unlink(sh) \/ EndDelete(sh)
    \/ Crash(sh)

Spec == Init /\ [][Next]_vars

-----------------------------------------------------------------------------
IsRecord(file) ==
  /\ file.steps \in Seq(Entries) /\ file.results \in Seq(Entries)
  /\ file \in OldFiles \/ file.status \in CompletionStates

TypeOK ==
  /\ \A id \in Ids : files[id] # NoJob => IsRecord(files[id])
  /\ at \in [Shells -> {"idle", "creating", "created", "appending", "appended", "saved", "deleting"}]
  /\ active \in [Shells -> Ids \union {NoJob}]
  /\ \A sh \in Shells : draft[sh].id \in Ids \union {NoJob} /\ IsRecord(draft[sh].job)
  /\ doomed \in [Shells -> SUBSET Ids] /\ gone \in [Shells -> SUBSET Ids]
  /\ recorded \in 0 .. MaxEntries /\ created \in 0 .. MaxCreated /\ crashes \in 0 .. MaxCrashes
  /\ acked \in [Ids -> Seq(Entries)]
  /\ users \in [Ids -> SUBSET Shells]

\* The completion states as recon-design.md means them.
StatusIsRight(job) ==
  LET outcomes == {e.outcome : e \in ToSet(job.results)}
  IN  /\ job.status = "initialized" <=> outcomes = {}
      /\ job.status = "failed"      <=> outcomes = {"failed"}
      /\ job.status = "partial"     <=> "failed" \in outcomes /\ outcomes # {"failed"}
      /\ job.status = "completed_with_warnings" <=>
           "failed" \notin outcomes /\ "warning" \in outcomes

(* Whatever shells do to a job, and whichever version wrote it first, as it
   is loaded its steps, its status and its summary tell of all its results
   and of nothing else (append_result, job_from_dict). *)
JobsAddUp ==
  \A id \in Ids : LET job == Load(id) IN
    job # NoJob =>
      /\ job.steps = job.results
      /\ StatusIsRight(job)
      /\ job.summary.step_count = Len(job.results)
      /\ job.summary.step_count =
           job.summary.completed_steps + job.summary.negative_steps + job.summary.skipped_steps
             + job.summary.warning_steps + job.summary.failed_steps

\* The elements of s that are in kept are those of kept, in the same order.
IsPartOf(kept, s) ==
  LET places  == {k \in DOMAIN s : s[k] \in ToSet(kept)}
      Rank(k) == Cardinality({j \in places : j <= k})
  IN  /\ Cardinality(places) = Len(kept)
      /\ \A k \in places : kept[Rank(k)] = s[k]

(* As long as one shell only works on a job, no crash at any point of a save
   loses a result that append_result acknowledged, or the order of results;
   one that was never acknowledged may be there (save, os.replace). *)
AcknowledgedResultsStay ==
  \A id \in Ids : Cardinality(users[id]) <= 1 =>
    IF files[id] = NoJob THEN acked[id] = <<>>
    ELSE IsPartOf(acked[id], files[id].results)

(* A shell between commands is in a job that exists, unless another shell
   deleted it: otherwise append_result would drop every result, and nobody
   looks at the False it returns (recon_cmd.py:115). *)
ActiveJobIsThere ==
  \A sh \in Shells :
    LET id == active[sh] IN
    at[sh] = "idle" /\ id # NoJob /\ files[id] = NoJob => \E other \in users[id] : other # sh

-----------------------------------------------------------------------------
(* The repository implements JobLog: reading, temporary files, upgrades and
   crashes cannot be seen in it, nor what other shells do to other jobs
   (JsonJobRepository). *)
Log == INSTANCE JobLog WITH
  NoLog <- NoJob,
  log   <- [id \in Ids |->
              IF Cardinality(users[id]) > 1 THEN Shared
              ELSE IF files[id] = NoJob THEN NoJob ELSE files[id].results]

ImplementsJobLog == Log!Spec
=============================================================================
