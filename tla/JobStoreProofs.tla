--------------------------- MODULE JobStoreProofs ---------------------------
(***************************************************************************)
(* Theorems about the job repository, for any number of shells, jobs,      *)
(* results and crashes.                                                    *)
(***************************************************************************)
EXTENDS JobStore, FiniteSetTheorems, TLAPS

-----------------------------------------------------------------------------
(* What is aggregated over results (core/jobs.py). *)

\* How many results have one of some outcomes is a number.
LEMMA CountIsNumber ==
  ASSUME NEW r \in Seq(Entries), NEW S
  PROVE  Count(r, S) \in Nat
<1> DEFINE places == {i \in DOMAIN r : r[i].outcome \in S}
<1>1. IsFiniteSet(1 .. Len(r)) /\ places \in SUBSET (1 .. Len(r))
  BY FS_Interval
<1>2. IsFiniteSet(places)
  BY <1>1, FS_Subset
<1> QED BY <1>2, FS_CardinalityType DEF Count

\* Every entry of a sequence of results has an outcome.
LEMMA EntriesHaveOutcomes ==
  ASSUME NEW r \in Seq(Entries)
  PROVE  /\ \A i \in 1 .. Len(r) : r[i].outcome \in ResultOutcomes
         /\ \A e \in ToSet(r) : e.outcome \in ResultOutcomes
<1>1. \A i \in 1 .. Len(r) : r[i] \in Entries
  OBVIOUS
<1>2. \A e \in Entries : e.outcome \in ResultOutcomes
  BY DEF Entries
<1> QED BY <1>1, <1>2 DEF ToSet

\* The last of them is one.
LEMMA LastIsEntry ==
  ASSUME NEW r \in Seq(Entries), r # <<>>
  PROVE  r[Len(r)] \in Entries
OBVIOUS

\* It is in their set.
LEMMA LastIsThere ==
  ASSUME NEW r \in Seq(Entries), r # <<>>
  PROVE  r[Len(r)] \in ToSet(r)
<1>1. Len(r) \in DOMAIN r
  OBVIOUS
<1> QED BY <1>1 DEF ToSet

\* What is not in their set is none of them.
LEMMA NotInSet ==
  ASSUME NEW r \in Seq(Entries), NEW e, e \notin ToSet(r)
  PROVE  \A i \in 1 .. Len(r) : r[i] # e
<1>1. DOMAIN r = 1 .. Len(r)
  OBVIOUS
<1> QED BY <1>1 DEF ToSet

\* The five outcomes partition the results.
LEMMA CountsAddUp ==
  ASSUME NEW r \in Seq(Entries)
  PROVE  Len(r) = Count(r, {"done"}) + Count(r, {"negative"}) + Count(r, {"skipped"})
                    + Count(r, {"warning"}) + Count(r, {"failed"})
<1> DEFINE Of(o) == {i \in DOMAIN r : r[i].outcome \in {o}}
           A == Of("done") \union Of("negative")
           B == A \union Of("skipped")
           C == B \union Of("warning")
           D == C \union Of("failed")
<1>1. IsFiniteSet(1 .. Len(r)) /\ Cardinality(1 .. Len(r)) = Len(r)
  <2>1. Len(r) \in Nat
    OBVIOUS
  <2>2. 1 \in Int /\ Len(r) \in Int /\ (IF 1 > Len(r) THEN 0 ELSE Len(r) - 1 + 1) = Len(r)
    BY <2>1
  <2> HIDE DEF Of
  <2> QED BY <2>2, FS_Interval
<1>2. \A o \in ResultOutcomes : IsFiniteSet(Of(o))
  <2> TAKE o \in ResultOutcomes
  <2>1. Of(o) \in SUBSET (1 .. Len(r))
    OBVIOUS
  <2> QED BY <1>1, <2>1, FS_Subset
<1>3. \A o \in ResultOutcomes : Cardinality(Of(o)) = Count(r, {o}) /\ Count(r, {o}) \in Nat
  BY CountIsNumber DEF Count
<1>4. D = 1 .. Len(r)
  <2>1. \A i \in 1 .. Len(r) : r[i].outcome \in ResultOutcomes
    BY EntriesHaveOutcomes
  <2>2. \A i \in 1 .. Len(r) : i \in D
    BY <2>1 DEF ResultOutcomes
  <2> QED BY <2>2
<1>5. /\ Of("done") \intersect Of("negative") = {} /\ A \intersect Of("skipped") = {}
      /\ B \intersect Of("warning") = {} /\ C \intersect Of("failed") = {}
  OBVIOUS
<1>6. "done" \in ResultOutcomes /\ "negative" \in ResultOutcomes /\ "skipped" \in ResultOutcomes
        /\ "warning" \in ResultOutcomes /\ "failed" \in ResultOutcomes
  BY DEF ResultOutcomes
<1>7. \A S, T : IsFiniteSet(S) /\ IsFiniteSet(T) /\ S \intersect T = {} =>
        IsFiniteSet(S \union T) /\ Cardinality(S \union T) = Cardinality(S) + Cardinality(T)
  <2> SUFFICES ASSUME NEW S, NEW T, IsFiniteSet(S), IsFiniteSet(T), S \intersect T = {}
               PROVE  /\ IsFiniteSet(S \union T)
                      /\ Cardinality(S \union T) = Cardinality(S) + Cardinality(T)
    OBVIOUS
  <2>1. Cardinality(S) \in Nat /\ Cardinality(T) \in Nat /\ Cardinality({}) = 0
    BY FS_CardinalityType, FS_EmptySet
  <2>2. Cardinality(S \intersect T) = 0
    BY <2>1, Zenon
  <2>3. /\ IsFiniteSet(S \union T)
        /\ Cardinality(S \union T) =
             Cardinality(S) + Cardinality(T) - Cardinality(S \intersect T)
    BY FS_Union
  <2> QED BY <2>1, <2>2, <2>3
<1> HIDE DEF Of
<1>8. IsFiniteSet(A) /\ Cardinality(A) = Cardinality(Of("done")) + Cardinality(Of("negative"))
  BY <1>2, <1>5, <1>6, <1>7
<1>9. IsFiniteSet(B) /\ Cardinality(B) = Cardinality(A) + Cardinality(Of("skipped"))
  BY <1>2, <1>5, <1>6, <1>7, <1>8
<1>10. IsFiniteSet(C) /\ Cardinality(C) = Cardinality(B) + Cardinality(Of("warning"))
  BY <1>2, <1>5, <1>6, <1>7, <1>9
<1>11. Cardinality(D) = Cardinality(C) + Cardinality(Of("failed"))
  BY <1>2, <1>5, <1>6, <1>7, <1>10
<1> QED BY <1>1, <1>3, <1>4, <1>6, <1>8, <1>9, <1>10, <1>11

\* The status of a job is a completion state, and that of no results "initialized".
LEMMA StatusIsState ==
  ASSUME NEW r
  PROVE  /\ JobStatus(r) \in CompletionStates
         /\ JobStatus(<<>>) = "initialized"
<1>1. {StepStatus(e.outcome) : e \in ToSet(<<>>)} = {}
  BY DEF ToSet
<1> QED BY <1>1 DEF JobStatus, DeriveCompletionState, CompletionStates

\* A job of some results has the types of a job.
LEMMA JobOfType ==
  ASSUME NEW r \in Seq(Entries)
  PROVE  JobOf(r) \in JobsOf(Entries) /\ JobOf(r) # NoJob
<1>1. \A S : Count(r, S) \in Nat
  BY CountIsNumber
<1>2. Len(r) \in Nat /\ JobStatus(r) \in CompletionStates
  BY StatusIsState
<1>3. JobOf(r) \in JobsOf(Entries)
  BY <1>1, <1>2 DEF JobOf, JobsOf, Summary
<1> QED BY <1>3, NoJobIsNothing

\* The status tells which outcomes there are.
LEMMA StatusTellsOutcomes ==
  ASSUME NEW r \in Seq(Entries)
  PROVE  StatusIsRight(JobOf(r))
<1> DEFINE O == {e.outcome : e \in ToSet(r)}
           S == {StepStatus(e.outcome) : e \in ToSet(r)}
<1>1. O \subseteq ResultOutcomes
  BY EntriesHaveOutcomes
<1>2. /\ S = {StepStatus(o) : o \in O}
      /\ JobStatus(r) = DeriveCompletionState(S)
      /\ JobOf(r).status = JobStatus(r) /\ JobOf(r).results = r
  BY DEF JobStatus, JobOf
<1> HIDE DEF O, S
<1>3. /\ "failed" \in S <=> "failed" \in O
      /\ "completed_with_warnings" \in S <=> "warning" \in O
      /\ "completed" \in S <=> O \intersect {"done", "negative", "skipped"} # {}
      /\ S \subseteq {"failed", "completed_with_warnings", "completed"}
      /\ S = {} <=> O = {}
  BY <1>1, <1>2 DEF StepStatus, ResultOutcomes
<1> DEFINE state == DeriveCompletionState(S)
<1>4. /\ state = "initialized" <=> O = {}
      /\ state = "failed" <=> O = {"failed"}
      /\ state = "partial" <=> "failed" \in O /\ O # {"failed"}
      /\ state = "completed_with_warnings" <=> "failed" \notin O /\ "warning" \in O
  BY <1>1, <1>3 DEF DeriveCompletionState, ResultOutcomes
<1> QED BY <1>2, <1>4 DEF StatusIsRight, O

\* Nothing a job of some results says of them is wrong.
LEMMA JobOfAddsUp ==
  ASSUME NEW r \in Seq(Entries), NEW job, job = JobOf(r)
  PROVE  /\ job.steps = job.results
         /\ StatusIsRight(job)
         /\ job.summary.step_count = Len(job.results)
         /\ job.summary.step_count =
              job.summary.completed_steps + job.summary.negative_steps + job.summary.skipped_steps
                + job.summary.warning_steps + job.summary.failed_steps
<1>1. StatusIsRight(job)
  BY StatusTellsOutcomes
<1>2. job.steps = r /\ job.results = r /\ job.summary = Summary(r)
  BY DEF JobOf
<1> QED BY <1>1, <1>2, CountsAddUp DEF Summary

\* A new job is one of no results, and one more result makes the job of one more.
LEMMA JobOfGrows ==
  ASSUME NEW r \in Seq(Entries), NEW e \in Entries
  PROVE  /\ NewJob = JobOf(<<>>)
         /\ AppendResult(JobOf(r), e) = JobOf(Append(r, e))
BY StatusIsState DEF NewJob, JobOf, AppendResult

\* A job of some results is loaded as it is.
LEMMA LoadsAsItIs ==
  ASSUME NEW r \in Seq(Entries)
  PROVE  JobFromDict(JobOf(r)) = JobOf(r)
<1>1. /\ JobOf(r).steps = r /\ JobOf(r).results = r
      /\ JobOf(r).status = JobStatus(r) /\ JobOf(r).summary = Summary(r)
  BY DEF JobOf
<1> QED BY <1>1, StatusIsState DEF JobFromDict, JobOf

\* A file of an older version is loaded as the job of its results.
LEMMA OldLoadsAsNew ==
  ASSUME NEW file, IsOldFile(file)
  PROVE  JobFromDict(file) = JobOf(file.results)
<1> DEFINE r == file.results
<1>1. (IF file.steps = <<>> THEN r ELSE file.steps) = r
  BY DEF IsOldFile
<1>2. (IF file.summary = NoSummary THEN Summary(r) ELSE file.summary) = Summary(r)
  BY DEF IsOldFile
<1> DEFINE status == IF file.status \in CompletionStates THEN file.status ELSE "initialized"
<1>3. (IF status = "initialized" /\ r # <<>> THEN JobStatus(r) ELSE status) = JobStatus(r)
  BY StatusIsState DEF IsOldFile
<1> QED BY <1>1, <1>2, <1>3 DEF JobFromDict, JobOf

-----------------------------------------------------------------------------
(* Results kept in order. *)

\* All of a sequence is part of it, in order.
LEMMA PartOfItself ==
  ASSUME NEW S, NEW s \in Seq(S)
  PROVE  IsPartOf(s, s)
<1> DEFINE places == {k \in DOMAIN s : s[k] \in ToSet(s)}
           Rank(k) == Cardinality({j \in places : j <= k})
<1>1. Len(s) \in Nat /\ DOMAIN s = 1 .. Len(s) /\ places = 1 .. Len(s)
  BY DEF ToSet
<1>2. \A k \in Nat : Cardinality(1 .. k) = k
  <2> TAKE k \in Nat
  <2>1. 1 \in Int /\ k \in Int /\ (IF 1 > k THEN 0 ELSE k - 1 + 1) = k
    OBVIOUS
  <2> HIDE DEF places
  <2> QED BY <2>1, FS_Interval
<1>3. ASSUME NEW k \in places PROVE Rank(k) = k
  <2>1. k \in Nat /\ {j \in places : j <= k} = 1 .. k
    BY <1>1
  <2> QED BY <1>2, <2>1, Zenon
<1>4. Cardinality(places) = Len(s)
  BY <1>1, <1>2, Zenon
<1> QED BY <1>3, <1>4 DEF IsPartOf

\* It stays so when something is added that is not of the part.
LEMMA PartOfLonger ==
  ASSUME NEW S, NEW kept \in Seq(S), NEW s \in Seq(S), NEW e \in S,
         e \notin ToSet(kept), IsPartOf(kept, s)
  PROVE  IsPartOf(kept, Append(s, e))
<1> DEFINE t == Append(s, e)
           places == {k \in DOMAIN s : s[k] \in ToSet(kept)}
           later  == {k \in DOMAIN t : t[k] \in ToSet(kept)}
<1>1. DOMAIN s = 1 .. Len(s) /\ Len(s) \in Nat /\ DOMAIN t = 1 .. Len(s) + 1
  OBVIOUS
<1>2. t[Len(s) + 1] = e /\ \A k \in DOMAIN s : t[k] = s[k]
  OBVIOUS
<1> HIDE DEF t
<1>3. later = places
  BY <1>1, <1>2
<1>4. Cardinality(places) = Len(kept)
  BY DEF IsPartOf
<1>5. \A k \in places : kept[Cardinality({j \in places : j <= k})] = s[k] /\ t[k] = s[k]
  BY <1>2 DEF IsPartOf
<1> HIDE DEF places, later
<1>6. /\ Cardinality(later) = Len(kept)
      /\ \A k \in later : kept[Cardinality({j \in later : j <= k})] = t[k]
  BY <1>3, <1>4, <1>5, Zenon
<1> QED BY <1>6 DEF IsPartOf, later, t

\* It stays so when the last of the sequence joins the part, if it was neither
\* in the part nor elsewhere in the sequence.
LEMMA PartOfBoth ==
  ASSUME NEW S, NEW kept \in Seq(S), NEW s \in Seq(S), s # <<>>,
         s[Len(s)] \notin ToSet(kept),
         \A i \in 1 .. Len(s) - 1 : s[i] # s[Len(s)],
         IsPartOf(kept, s)
  PROVE  IsPartOf(Append(kept, s[Len(s)]), s)
<1> DEFINE n == Len(s)
           more == Append(kept, s[n])
           places == {k \in DOMAIN s : s[k] \in ToSet(kept)}
           later  == {k \in DOMAIN s : s[k] \in ToSet(more)}
           Rank(k) == Cardinality({j \in places : j <= k})
           Later(k) == Cardinality({j \in later : j <= k})
<1>1. /\ n \in Nat /\ 1 <= n /\ DOMAIN s = 1 .. n /\ Len(kept) \in Nat /\ s[n] \in S
      /\ s[n] \notin ToSet(kept) /\ \A i \in 1 .. n - 1 : s[i] # s[n]
  OBVIOUS
<1>2. /\ Len(more) = Len(kept) + 1 /\ more[Len(kept) + 1] = s[n]
      /\ \A i \in 1 .. Len(kept) : more[i] = kept[i]
      /\ DOMAIN kept = 1 .. Len(kept) /\ DOMAIN more = 1 .. Len(kept) + 1
  BY <1>1
<1> HIDE DEF more, n
<1>3. ToSet(more) = ToSet(kept) \union {s[n]}
  <2>1. \A i \in 1 .. Len(kept) : i \in 1 .. Len(kept) + 1
    BY <1>1
  <2>2. Len(kept) + 1 \in 1 .. Len(kept) + 1
    BY <1>1
  <2>3. \A i \in 1 .. Len(kept) + 1 : i \in 1 .. Len(kept) \/ i = Len(kept) + 1
    BY <1>1
  <2> QED BY <1>2, <2>1, <2>2, <2>3 DEF ToSet
<1>4. n \notin places /\ n \in 1 .. n /\ \A j \in places : j \in 1 .. n - 1
  BY <1>1
<1>5. later = places \union {n}
  <2>1. \A j \in 1 .. n : j \in 1 .. n - 1 \/ j = n
    BY <1>1
  <2>2. \A j \in 1 .. n : s[j] \in ToSet(more) <=> j \in places \union {n}
    BY <1>1, <1>3, <2>1
  <2>3. \A j : j \in places => j \in 1 .. n
    BY <1>1
  <2>4. \A j : j \in later <=> j \in 1 .. n /\ s[j] \in ToSet(more)
    BY <1>1
  <2> HIDE DEF later, places
  <2> QED BY <1>4, <2>2, <2>3, <2>4
<1>6. Cardinality(places) = Len(kept) /\ \A k \in places : kept[Rank(k)] = s[k]
  BY DEF IsPartOf
<1>7. IsFiniteSet(places)
  <2>1. IsFiniteSet(1 .. n) /\ places \in SUBSET (1 .. n)
    BY <1>1, FS_Interval
  <2> QED BY <2>1, FS_Subset
<1>8. ASSUME NEW k \in places PROVE Rank(k) \in 1 .. Len(kept) /\ Later(k) = Rank(k)
  <2> DEFINE before == {j \in places : j <= k}
  <2>1. k \in Nat /\ k <= n - 1
    BY <1>1, <1>4
  <2>2. before \in SUBSET places /\ k \in before
    BY <2>1
  <2>3. IsFiniteSet(before) /\ Cardinality(before) <= Len(kept) /\ Cardinality(before) \in Nat
    BY <1>6, <1>7, <2>2, FS_Subset, FS_CardinalityType
  <2>4. Cardinality(before) # 0
    BY <2>2, <2>3, FS_EmptySet
  <2>5. {j \in later : j <= k} = before
    <3>1. ~ (n <= k)
      BY <1>1, <2>1
    <3> HIDE DEF places, later
    <3> QED BY <1>5, <3>1
  <2>6. Later(k) = Cardinality(before) /\ Rank(k) = Cardinality(before)
    BY <2>5, Zenon
  <2> HIDE DEF before, Later, Rank
  <2> QED BY <1>1, <2>3, <2>4, <2>6
<1>9. Cardinality(later) = Len(kept) + 1
  BY <1>4, <1>5, <1>6, <1>7, FS_AddElement
<1>10. Later(n) = Len(kept) + 1
  <2>1. {j \in later : j <= n} = later
    BY <1>1, <1>4, <1>5
  <2> QED BY <1>9, <2>1, Zenon
<1>11. ASSUME NEW k \in later PROVE more[Later(k)] = s[k]
  <2>1. CASE k \in places
    BY <1>2, <1>6, <1>8, <2>1
  <2>2. CASE k = n
    BY <1>2, <1>10, <2>2
  <2> QED BY <1>5, <2>1, <2>2
<1>12. Cardinality(later) = Len(more)
  BY <1>2, <1>9
<1> HIDE DEF Later
<1> QED BY <1>11, <1>12 DEF IsPartOf, later, Later, more, n

-----------------------------------------------------------------------------
(* The inductive invariant. *)

IsJob(job) == job.results \in Seq(Entries) /\ job = JobOf(job.results)

\* Every file is that of an older version or tells of its results, and so does
\* what a shell is about to write; what it has written bears its name.
Shapes ==
  /\ DOMAIN files = Ids /\ DOMAIN draft = Shells
  /\ \A id \in Ids : files[id] \in OldFiles \union {NoJob} \/ IsJob(files[id])
  /\ \A id \in Ids : IsFiniteSet(users[id])
  /\ \A sh \in Shells :
       /\ IsJob(draft[sh].job)
       /\ at[sh] \in {"creating", "created", "appending", "appended", "saved"} =>
            draft[sh].id \in Ids
       /\ at[sh] \in {"creating", "created"} => draft[sh].job = NewJob
       /\ at[sh] \in {"appending", "appended"} => draft[sh].id = active[sh]
       /\ at[sh] = "saved" => sh \in users[draft[sh].id]

\* No result that is there has the number of one yet to come.
IsPast(job, n) == \A e \in ToSet(job.results) : e.n < n \/ e.n = MaxEntries

Numbered ==
  /\ \A id \in Ids : files[id] # NoJob => IsPast(files[id], recorded)
  /\ \A sh \in Shells : IsPast(draft[sh].job, recorded)

\* The job of a shell is there, another shell took it, or this one just did.
Entered ==
  \A sh \in Shells : LET id == active[sh] IN
    id # NoJob /\ files[id] = NoJob =>
      \/ \E other \in users[id] : other # sh
      \/ at[sh] = "deleting" /\ id \in gone[sh]

\* What a shell saves is still made from what is in the file, unless another
\* shell has been there.
Alone(sh) == users[draft[sh].id] \subseteq {sh}

Basis(sh) ==
  LET id == draft[sh].id
      results == draft[sh].job.results
  IN  /\ at[sh] \in {"creating", "created"} /\ Alone(sh) => files[id] = NoJob
      /\ at[sh] \in {"appending", "appended"} /\ Alone(sh) =>
           /\ files[id] # NoJob
           /\ \E e \in Entries : /\ e \notin ToSet(files[id].results)
                                /\ results = Append(files[id].results, e)
      /\ at[sh] = "saved" => files[id] # NoJob \/ \E other \in users[id] : other # sh
      /\ at[sh] = "saved" /\ Alone(sh) =>
           /\ files[id] = draft[sh].job
           /\ \A i \in 1 .. Len(results) - 1 : results[i] # results[Len(results)]
           /\ results # <<>> => results[Len(results)] \notin ToSet(acked[id])

\* Acknowledged results are there, in their order.
Kept ==
  \A id \in Ids : Cardinality(users[id]) <= 1 =>
    IF files[id] = NoJob THEN acked[id] = <<>>
    ELSE /\ IsPartOf(acked[id], files[id].results)
         /\ ToSet(acked[id]) \subseteq ToSet(files[id].results)

IInv == TypeOK /\ Shapes /\ Numbered /\ Entered /\ (\A sh \in Shells : Basis(sh)) /\ Kept

Step(sh) ==
  \/ New(sh) \/ Enter(sh) \/ Leave(sh)
  \/ BeginAppend(sh) \/ WriteTemporary(sh) \/ Replace(sh) \/ Return(sh)
  \/ BeginDelete(sh) \/ Unlink(sh) \/ EndDelete(sh)
  \/ Crash(sh)

\* A file has the types of a record and is loaded as the job of its results.
LEMMA FilesLoad ==
  ASSUME NEW file, file \in OldFiles \/ IsJob(file)
  PROVE  /\ IsRecord(file)
         /\ file.results \in Seq(Entries)
         /\ JobFromDict(file) = JobOf(file.results)
         /\ JobOf(file.results) # NoJob
<1>1. CASE file \in OldFiles
  <2>1. IsOldFile(file)
    BY <1>1, OldFilesAreOld
  <2>2. [n : {MaxEntries}, outcome : ResultOutcomes] \subseteq Entries
    <3>1. MaxEntries \in 0 .. MaxEntries
      BY BoundsAreNumbers
    <3> QED BY <3>1 DEF Entries
  <2>3. file.results \in Seq(Entries)
    <3>1. file.results \in Seq([n : {MaxEntries}, outcome : ResultOutcomes])
      BY <2>1 DEF IsOldFile
    <3>2. \A S, T : S \subseteq T => Seq(S) \subseteq Seq(T)
      <4> SUFFICES ASSUME NEW S, NEW T, S \subseteq T, NEW s \in Seq(S) PROVE s \in Seq(T)
        OBVIOUS
      <4>1. Len(s) \in Nat /\ s = [i \in 1 .. Len(s) |-> s[i]] /\ \A i \in 1 .. Len(s) : s[i] \in T
        OBVIOUS
      <4> QED BY <4>1
    <3> QED BY <2>2, <3>1, <3>2
  <2>4. file.steps \in Seq(Entries)
    <3>1. file.steps = <<>> \/ file.steps = file.results
      BY <2>1 DEF IsOldFile
    <3>2. <<>> \in Seq(Entries)
      OBVIOUS
    <3> QED BY <2>3, <3>1, <3>2
  <2> QED BY <1>1, <2>1, <2>3, <2>4, OldLoadsAsNew, JobOfType DEF IsRecord
<1>2. CASE IsJob(file)
  <2>1. file.results \in Seq(Entries) /\ file = JobOf(file.results)
    BY <1>2 DEF IsJob
  <2>2. JobFromDict(file) = JobOf(file.results)
    BY <2>1, LoadsAsItIs
  <2>3. file.steps = file.results /\ file.status = JobStatus(file.results)
    BY <2>1 DEF JobOf
  <2> QED BY <2>1, <2>2, <2>3, JobOfType, StatusIsState DEF IsRecord
<1> QED BY <1>1, <1>2

\* A job of some results is one.
LEMMA JobOfIsJob ==
  ASSUME NEW r \in Seq(Entries)
  PROVE  IsJob(JobOf(r)) /\ JobOf(r).results = r
BY DEF IsJob, JobOf

\* A new job is a job without results.
LEMMA NewIsJob == IsJob(NewJob) /\ NewJob.results = <<>> /\ NewJob # NoJob
<1>1. <<>> \in Seq(Entries) /\ NewJob = JobOf(<<>>)
  BY StatusIsState DEF NewJob, JobOf
<1> QED BY <1>1, JobOfIsJob, JobOfType

\* So is one with a result added to what was in a file.
LEMMA LongerIsJob ==
  ASSUME NEW file, file \in OldFiles \/ IsJob(file), NEW e \in Entries
  PROVE  /\ IsJob(AppendResult(JobFromDict(file), e))
         /\ AppendResult(JobFromDict(file), e).results = Append(file.results, e)
<1>1. file.results \in Seq(Entries) /\ JobFromDict(file) = JobOf(file.results)
  BY FilesLoad
<1>2. Append(file.results, e) \in Seq(Entries)
  BY <1>1
<1>3. AppendResult(JobFromDict(file), e) = JobOf(Append(file.results, e))
  BY <1>1, JobOfGrows
<1> QED BY <1>2, <1>3, JobOfIsJob

\* What BeginAppend has, when it goes on.
LEMMA AppendDraft ==
  ASSUME IInv, NEW sh \in Shells, BeginAppend(sh), at'[sh] # "idle"
  PROVE  LET id == active[sh] IN
         /\ id \in Ids /\ files[id] # NoJob
         /\ at' = [at EXCEPT ![sh] = "appending"]
         /\ \E e \in Entries : \E job :
              /\ e.n = recorded /\ recorded < MaxEntries /\ IsJob(job)
              /\ draft' = [draft EXCEPT ![sh] = [id |-> id, job |-> job]]
              /\ job.results = Append(files[id].results, e)
<1> DEFINE id == active[sh]
<1>1. PICK outcome \in Results :
        \/ Load(id) = NoJob /\ UNCHANGED <<draft, at>>
        \/ /\ Load(id) # NoJob
           /\ draft' = [draft EXCEPT ![sh] = [id |-> id, job |->
                           AppendResult(Load(id), [n |-> recorded, outcome |-> outcome])]]
           /\ at' = [at EXCEPT ![sh] = "appending"]
  BY DEF BeginAppend
<1> DEFINE e == [n |-> recorded, outcome |-> outcome]
<1>2. Load(id) # NoJob
  BY <1>1 DEF BeginAppend
<1>3. id \in Ids /\ files[id] # NoJob /\ Load(id) = JobFromDict(files[id])
  <2>1. id \in Ids
    BY DEF IInv, TypeOK, BeginAppend
  <2> QED BY <1>2, <2>1 DEF Load
<1>4. files[id] \in OldFiles \/ IsJob(files[id])
  BY <1>3 DEF IInv, Shapes
<1>5. e \in Entries /\ e.n = recorded /\ recorded < MaxEntries
  <2>1. recorded \in 0 .. MaxEntries /\ recorded < MaxEntries
    BY DEF IInv, TypeOK, BeginAppend
  <2> QED BY <2>1, ResultsAreOutcomes DEF Entries
<1> HIDE DEF e
<1>6. IsJob(AppendResult(Load(id), e))
        /\ AppendResult(Load(id), e).results = Append(files[id].results, e)
  BY <1>3, <1>4, <1>5, LongerIsJob
<1>7. draft' = [draft EXCEPT ![sh] = [id |-> id, job |-> AppendResult(Load(id), e)]]
        /\ at' = [at EXCEPT ![sh] = "appending"]
  BY <1>1, <1>2 DEF e
<1> QED BY <1>3, <1>5, <1>6, <1>7

\* Every step keeps the shapes.
LEMMA ShapesStep ==
  ASSUME IInv, NEW sh \in Shells, Step(sh)
  PROVE  Shapes'
<1> USE DEF IInv, Shapes
<1> DEFINE Busy == {"creating", "created", "appending", "appended", "saved"}
<1>1. DOMAIN at = Shells /\ DOMAIN active = Shells /\ DOMAIN users = Ids /\ doomed[sh] \subseteq Ids
  BY DEF TypeOK
<1>2. CASE New(sh)
  <2>1. PICK id \in Ids : draft' = [draft EXCEPT ![sh] = [id |-> id, job |-> NewJob]]
    BY <1>2 DEF New
  <2> QED BY <1>1, <1>2, <2>1, NewIsJob DEF New
<1>3. CASE Enter(sh)
  <2>1. PICK id \in Ids : active' = [active EXCEPT ![sh] = id]
    BY <1>3 DEF Enter
  <2> QED BY <1>1, <1>3, <2>1 DEF Enter
<1>4. CASE Leave(sh)
  BY <1>1, <1>4 DEF Leave
<1>5. CASE BeginAppend(sh) /\ at'[sh] = "idle"
  <2>1. UNCHANGED <<files, active, users>> /\ at[sh] = "idle"
    BY <1>5 DEF BeginAppend
  <2>2. UNCHANGED <<draft, at>>
    BY <1>1, <1>5 DEF BeginAppend
  <2> QED BY <2>1, <2>2
<1>6. CASE BeginAppend(sh) /\ at'[sh] # "idle"
  <2>1. PICK job : /\ IsJob(job) /\ active[sh] \in Ids
                   /\ draft' = [draft EXCEPT ![sh] = [id |-> active[sh], job |-> job]]
                   /\ at' = [at EXCEPT ![sh] = "appending"]
    BY <1>6, AppendDraft
  <2>2. UNCHANGED <<files, active, users>>
    BY <1>6 DEF BeginAppend
  <2> QED BY <1>1, <2>1, <2>2
<1>7. CASE WriteTemporary(sh)
  BY <1>1, <1>7 DEF WriteTemporary
<1>8. CASE Replace(sh)
  <2> DEFINE id == draft[sh].id
  <2>1. /\ id \in Ids /\ IsJob(draft[sh].job) /\ UNCHANGED <<active, draft>>
        /\ files' = [files EXCEPT ![id] = draft[sh].job]
        /\ users' = [users EXCEPT ![id] = @ \union {sh}]
        /\ at' = [at EXCEPT ![sh] = "saved"]
    BY <1>8 DEF Replace
  <2>2. \A i \in Ids : files'[i] = files[i] \/ IsJob(files'[i])
    BY <2>1
  <2>3. \A i \in Ids : users[i] \subseteq users'[i] /\ IsFiniteSet(users'[i])
    BY <1>1, <2>1, FS_AddElement
  <2>4. sh \in users'[id]
    BY <1>1, <2>1
  <2> QED BY <1>1, <2>1, <2>2, <2>3, <2>4
<1>9. CASE Return(sh)
  BY <1>1, <1>9, NewIsJob DEF Return, NoDraft
<1>10. CASE BeginDelete(sh)
  BY <1>1, <1>10 DEF BeginDelete
<1>11. CASE Unlink(sh)
  <2>1. PICK id \in Ids : /\ files' = [files EXCEPT ![id] = NoJob]
                         /\ users' = [users EXCEPT ![id] = @ \union {sh}]
    BY <1>1, <1>11 DEF Unlink
  <2>2. \A i \in Ids : files'[i] = files[i] \/ files'[i] = NoJob
    BY <2>1
  <2>3. \A i \in Ids : users[i] \subseteq users'[i] /\ IsFiniteSet(users'[i])
    BY <1>1, <2>1, FS_AddElement
  <2> QED BY <1>1, <1>11, <2>1, <2>2, <2>3 DEF Unlink
<1>12. CASE EndDelete(sh)
  BY <1>1, <1>12 DEF EndDelete
<1>13. CASE Crash(sh)
  BY <1>1, <1>13, NewIsJob DEF Crash, NoDraft
<1> QED
  BY <1>2, <1>3, <1>4, <1>5, <1>6, <1>7, <1>8, <1>9, <1>10, <1>11, <1>12, <1>13 DEF Step

\* Every step keeps the types.
LEMMA TypeStep ==
  ASSUME IInv, NEW sh \in Shells, Step(sh)
  PROVE  TypeOK'
<1>1. /\ \A id \in Ids : files'[id] # NoJob => IsRecord(files'[id])
      /\ \A s \in Shells : IsRecord(draft'[s].job)
  BY ShapesStep, FilesLoad DEF Shapes
<1>2. /\ at' \in [Shells -> {"idle", "creating", "created", "appending", "appended",
                            "saved", "deleting"}]
      /\ active' \in [Shells -> Ids \union {NoJob}]
      /\ doomed' \in [Shells -> SUBSET Ids] /\ gone' \in [Shells -> SUBSET Ids]
      /\ recorded' \in 0 .. MaxEntries /\ created' \in 0 .. MaxCreated
      /\ crashes' \in 0 .. MaxCrashes
      /\ \A s \in Shells : draft'[s].id \in Ids \union {NoJob}
      /\ acked' \in [Ids -> Seq(Entries)]
      /\ users' \in [Ids -> SUBSET Shells]
  <2> USE DEF TypeOK, IInv
  <2>1. CASE New(sh)
    <3>1. \E id \in Ids : draft' = [draft EXCEPT ![sh] = [id |-> id, job |-> NewJob]]
      BY <2>1 DEF New
    <3>2. \A s \in Shells : draft'[s].id \in Ids \union {NoJob}
      BY <3>1 DEF Shapes
    <3>3. created' \in 0 .. MaxCreated
      BY <2>1, BoundsAreNumbers DEF New
    <3> QED BY <2>1, <3>2, <3>3 DEF New
  <2>2. CASE Enter(sh)
    BY <2>2 DEF Enter
  <2>3. CASE Leave(sh)
    BY <2>3 DEF Leave
  <2>4. CASE BeginAppend(sh)
    <3>1. recorded' \in 0 .. MaxEntries
      BY <2>4, BoundsAreNumbers DEF BeginAppend
    <3>2. UNCHANGED <<active, doomed, gone, created, crashes, acked, users>> /\ at[sh] = "idle"
      BY <2>4 DEF BeginAppend
    <3>3. CASE at'[sh] = "idle"
      <4>1. UNCHANGED <<draft, at>>
        BY <2>4, <3>3 DEF BeginAppend
      <4> QED BY <3>1, <3>2, <4>1
    <3>4. CASE at'[sh] # "idle"
      <4>1. /\ \E job : draft' = [draft EXCEPT ![sh] = [id |-> active[sh], job |-> job]]
            /\ at' = [at EXCEPT ![sh] = "appending"]
        BY <2>4, <3>4, AppendDraft
      <4>2. \A s \in Shells : draft'[s].id \in Ids \union {NoJob}
        <5>1. active[sh] \in Ids \union {NoJob} /\ DOMAIN draft = Shells
          BY DEF Shapes
        <5>2. \A s \in Shells : draft[s].id \in Ids \union {NoJob}
          OBVIOUS
        <5> QED BY <4>1, <5>1, <5>2
      <4> QED BY <3>1, <3>2, <4>1, <4>2
    <3> QED BY <3>3, <3>4
  <2>5. CASE WriteTemporary(sh)
    BY <2>5 DEF WriteTemporary
  <2>6. CASE Replace(sh)
    BY <2>6 DEF Replace
  <2>7. CASE Return(sh)
    <3> DEFINE results == draft[sh].job.results
    <3>1. results \in Seq(Entries)
      BY DEF Shapes, IsJob
    <3>2. results # <<>> => results[Len(results)] \in Entries
      BY <3>1, LastIsEntry
    <3>3. acked' \in [Ids -> Seq(Entries)]
      <4> HIDE DEF results
      <4>1. acked' = [acked EXCEPT ![draft[sh].id] =
                        IF results = <<>> THEN <<>> ELSE Append(@, results[Len(results)])]
        BY <2>7 DEF Return, results
      <4>2. ASSUME NEW id \in Ids
            PROVE  (IF results = <<>> THEN <<>> ELSE Append(acked[id], results[Len(results)]))
                     \in Seq(Entries)
        BY <3>2
      <4> QED BY <4>1, <4>2
    <3>4. draft[sh].id \in Ids
      BY <2>7 DEF Return, Shapes
    <3> QED BY <2>7, <3>3, <3>4 DEF Return, NoDraft, Shapes
  <2>8. CASE BeginDelete(sh)
    BY <2>8 DEF BeginDelete
  <2>9. CASE Unlink(sh)
    BY <2>9 DEF Unlink
  <2>10. CASE EndDelete(sh)
    BY <2>10 DEF EndDelete
  <2>11. CASE Crash(sh)
    BY <2>11, BoundsAreNumbers DEF Crash, NoDraft
  <2> QED BY <2>1, <2>2, <2>3, <2>4, <2>5, <2>6, <2>7, <2>8, <2>9, <2>10, <2>11 DEF Step
<1> QED BY <1>1, <1>2 DEF TypeOK

\* What is past stays past.
LEMMA PastGrows ==
  ASSUME NEW job, job.results \in Seq(Entries), NEW m \in Nat, NEW n \in Nat, m <= n,
         IsPast(job, m)
  PROVE  IsPast(job, n)
<1>1. \A e \in ToSet(job.results) : e \in Entries
  BY DEF ToSet
<1>2. \A e \in Entries : e.n \in Nat
  BY BoundsAreNumbers DEF Entries
<1> QED BY <1>1, <1>2 DEF IsPast

\* One more element is in the set of a longer sequence.
LEMMA LongerSet ==
  ASSUME NEW S, NEW s \in Seq(S), NEW e \in S
  PROVE  /\ ToSet(Append(s, e)) = ToSet(s) \union {e}
         /\ Append(s, e) # <<>> /\ Len(Append(s, e)) = Len(s) + 1
         /\ Append(s, e)[Len(s) + 1] = e
         /\ \A i \in 1 .. Len(s) : Append(s, e)[i] = s[i]
<1> DEFINE t == Append(s, e)
<1>1. /\ Len(s) \in Nat /\ DOMAIN s = 1 .. Len(s) /\ DOMAIN t = 1 .. Len(s) + 1
      /\ t # <<>> /\ Len(t) = Len(s) + 1
  OBVIOUS
<1>2. t[Len(s) + 1] = e /\ \A i \in 1 .. Len(s) : t[i] = s[i]
  OBVIOUS
<1> HIDE DEF t
<1>3. /\ \A i \in 1 .. Len(s) : i \in 1 .. Len(s) + 1
      /\ Len(s) + 1 \in 1 .. Len(s) + 1
      /\ \A i \in 1 .. Len(s) + 1 : i \in 1 .. Len(s) \/ i = Len(s) + 1
  BY <1>1
<1>4. ToSet(t) = ToSet(s) \union {e}
  BY <1>1, <1>2, <1>3 DEF ToSet
<1> QED BY <1>1, <1>2, <1>4 DEF t

\* No step records a result under a number that is used.
LEMMA NumberedStep ==
  ASSUME IInv, NEW sh \in Shells, Step(sh)
  PROVE  Numbered'
<1>1. /\ DOMAIN files = Ids /\ DOMAIN draft = Shells
      /\ \A id \in Ids : files[id] # NoJob =>
           files[id].results \in Seq(Entries) /\ IsPast(files[id], recorded)
      /\ \A s \in Shells :
           draft[s].job.results \in Seq(Entries) /\ IsPast(draft[s].job, recorded)
  BY FilesLoad DEF IInv, Shapes, Numbered
<1>2. \A n : IsPast(NewJob, n)
  BY NewIsJob DEF IsPast, ToSet
<1>3. recorded \in Nat
  BY DEF IInv, TypeOK
<1>4. CASE BeginAppend(sh)
  <2>1. recorded' = recorded + 1 /\ UNCHANGED files
    BY <1>4 DEF BeginAppend
  <2>2. recorded' \in Nat /\ recorded < recorded'
    BY <1>3, <2>1
  <2>3. /\ \A id \in Ids : files[id] # NoJob => IsPast(files[id], recorded')
        /\ \A s \in Shells : IsPast(draft[s].job, recorded')
    BY <1>1, <1>3, <2>2, PastGrows
  <2>4. CASE at'[sh] = "idle"
    <3>1. UNCHANGED draft
      BY <1>4, <2>4 DEF BeginAppend, IInv, TypeOK
    <3> QED BY <2>1, <2>3, <3>1 DEF Numbered
  <2>5. CASE at'[sh] # "idle"
    <3> DEFINE id == active[sh]
    <3>1. /\ id \in Ids /\ files[id] # NoJob
          /\ \E e \in Entries : \E job :
               /\ e.n = recorded /\ recorded < MaxEntries /\ IsJob(job)
               /\ draft' = [draft EXCEPT ![sh] = [id |-> id, job |-> job]]
               /\ job.results = Append(files[id].results, e)
      BY <1>4, <2>5, AppendDraft
    <3>2. PICK e \in Entries, job \in {draft'[sh].job} :
             /\ e.n = recorded
             /\ draft' = [draft EXCEPT ![sh] = [id |-> id, job |-> job]]
             /\ job.results = Append(files[id].results, e)
      BY <1>1, <3>1
    <3>3. ToSet(job.results) = ToSet(files[id].results) \union {e}
      BY <1>1, <3>1, <3>2, LongerSet
    <3>4. IsPast(job, recorded')
      BY <2>2, <2>3, <3>1, <3>2, <3>3 DEF IsPast
    <3>5. \A s \in Shells : draft'[s].job = draft[s].job \/ draft'[s].job = job
      BY <1>1, <3>2
    <3> QED BY <2>1, <2>3, <3>4, <3>5 DEF Numbered
  <2> QED BY <2>4, <2>5
<1>5. CASE Replace(sh)
  <2>1. \A id \in Ids : files'[id] = files[id] \/ files'[id] = draft[sh].job
    BY <1>1, <1>5 DEF Replace
  <2> QED BY <1>1, <1>5, <2>1 DEF Numbered, Replace
<1>6. CASE Unlink(sh)
  <2>1. \A id \in Ids : files'[id] = files[id] \/ files'[id] = NoJob
    BY <1>1, <1>6 DEF Unlink
  <2> QED BY <1>1, <1>6, <2>1 DEF Numbered, Unlink
<1>7. CASE New(sh) \/ Return(sh) \/ Crash(sh)
  <2>1. \A s \in Shells : draft'[s].job = draft[s].job \/ draft'[s].job = NewJob
    BY <1>1, <1>7 DEF New, Return, Crash, NoDraft
  <2>2. UNCHANGED <<files, recorded>>
    BY <1>7 DEF New, Return, Crash
  <2> QED BY <1>1, <1>2, <2>1, <2>2 DEF Numbered
<1>8. CASE \/ Enter(sh) \/ Leave(sh) \/ WriteTemporary(sh) \/ BeginDelete(sh) \/ EndDelete(sh)
  <2>1. UNCHANGED <<files, draft, recorded>>
    BY <1>8 DEF Enter, Leave, WriteTemporary, BeginDelete, EndDelete
  <2> QED BY <2>1 DEF Numbered, IInv
<1> QED BY <1>4, <1>5, <1>6, <1>7, <1>8 DEF Step

\* No step takes a shell's job away from it without another shell's doing.
LEMMA EnteredStep ==
  ASSUME IInv, NEW sh \in Shells, Step(sh)
  PROVE  Entered'
<1>1. /\ DOMAIN files = Ids /\ DOMAIN at = Shells /\ DOMAIN active = Shells
      /\ DOMAIN users = Ids /\ DOMAIN gone = Shells /\ doomed[sh] \subseteq Ids
      /\ active \in [Shells -> Ids \union {NoJob}]
  BY DEF IInv, Shapes, TypeOK
<1>2. Entered
  BY DEF IInv
<1>3. CASE \/ New(sh) \/ BeginAppend(sh) \/ WriteTemporary(sh) \/ BeginDelete(sh)
  <2>1. /\ UNCHANGED <<files, active, users, gone>>
        /\ at[sh] # "deleting" /\ \A s \in Shells \ {sh} : at'[s] = at[s]
    BY <1>1, <1>3 DEF New, BeginAppend, WriteTemporary, BeginDelete
  <2> QED BY <1>2, <2>1 DEF Entered
<1>4. CASE Enter(sh)
  <2>1. \E id \in Ids : files[id] # NoJob /\ active' = [active EXCEPT ![sh] = id]
    BY <1>4 DEF Enter, Load
  <2>2. UNCHANGED <<files, at, users, gone>>
    BY <1>4 DEF Enter
  <2> QED BY <1>1, <1>2, <2>1, <2>2 DEF Entered
<1>5. CASE Leave(sh)
  BY <1>1, <1>2, <1>5 DEF Entered, Leave
<1>6. CASE Replace(sh)
  <2>1. /\ \A id \in Ids : files'[id] = NoJob => files[id] = NoJob
        /\ \A id \in Ids : users[id] \subseteq users'[id]
        /\ UNCHANGED <<active, gone>>
    <3>1. draft[sh].job # NoJob
      BY JobOfType DEF IInv, Shapes, IsJob
    <3> QED BY <1>1, <1>6, <3>1 DEF Replace
  <2>2. at[sh] # "deleting" /\ \A s \in Shells \ {sh} : at'[s] = at[s]
    BY <1>1, <1>6 DEF Replace
  <2> QED BY <1>1, <1>2, <2>1, <2>2 DEF Entered
<1>7. CASE Return(sh)
  <2>1. /\ active' = [active EXCEPT ![sh] = draft[sh].id]
        /\ at[sh] = "saved" /\ UNCHANGED <<files, users, gone>>
        /\ at' = [at EXCEPT ![sh] = "idle"]
    BY <1>7 DEF Return
  <2>2. Basis(sh)
    BY DEF IInv
  <2>3. files[draft[sh].id] # NoJob \/ \E other \in users[draft[sh].id] : other # sh
    BY <2>1, <2>2 DEF Basis
  <2> QED BY <1>1, <1>2, <2>1, <2>3 DEF Entered
<1>8. CASE Unlink(sh)
  <2>1. PICK id \in Ids :
          /\ gone' = [gone EXCEPT ![sh] = IF files[id] = NoJob THEN @ ELSE @ \union {id}]
          /\ files' = [files EXCEPT ![id] = NoJob]
          /\ users' = [users EXCEPT ![id] = @ \union {sh}]
    BY <1>1, <1>8 DEF Unlink
  <2>2. at[sh] = "deleting" /\ UNCHANGED <<at, active>>
    BY <1>8 DEF Unlink
  <2>3. ASSUME NEW s \in Shells, active[s] # NoJob, files'[active[s]] = NoJob
        PROVE  \/ \E other \in users'[active[s]] : other # s
               \/ at[s] = "deleting" /\ active[s] \in gone'[s]
    <3>1. active[s] \in Ids
      BY <1>1, <2>3
    <3>2. CASE active[s] = id /\ s # sh
      BY <1>1, <2>1, <3>2
    <3>3. CASE active[s] = id /\ s = sh /\ files[id] # NoJob
      BY <1>1, <2>1, <2>2, <3>3
    <3>4. CASE files[active[s]] = NoJob
      <4>1. \/ \E other \in users[active[s]] : other # s
            \/ at[s] = "deleting" /\ active[s] \in gone[s]
        BY <1>2, <2>3, <3>4 DEF Entered
      <4> QED BY <1>1, <2>1, <3>1, <4>1
    <3> QED BY <1>1, <2>1, <2>3, <3>1, <3>2, <3>3, <3>4
  <2> QED BY <2>2, <2>3 DEF Entered
<1>9. CASE EndDelete(sh)
  <2>1. /\ UNCHANGED <<files, users>>
        /\ active' = [active EXCEPT ![sh] = IF @ \in gone[sh] THEN NoJob ELSE @]
        /\ at' = [at EXCEPT ![sh] = "idle"] /\ gone' = [gone EXCEPT ![sh] = {}]
    BY <1>9 DEF EndDelete
  <2>2. \A s \in Shells \ {sh} : active'[s] = active[s] /\ at'[s] = at[s] /\ gone'[s] = gone[s]
    BY <1>1, <2>1
  <2>3. active'[sh] = NoJob \/ (active'[sh] = active[sh] /\ active[sh] \notin gone[sh])
    BY <1>1, <2>1
  <2> QED BY <1>2, <2>1, <2>2, <2>3 DEF Entered
<1>10. CASE Crash(sh)
  <2>1. /\ UNCHANGED <<files, users>>
        /\ active'[sh] = NoJob
        /\ \A s \in Shells \ {sh} : active'[s] = active[s] /\ at'[s] = at[s] /\ gone'[s] = gone[s]
    BY <1>1, <1>10 DEF Crash
  <2> QED BY <1>2, <2>1 DEF Entered
<1> QED BY <1>3, <1>4, <1>5, <1>6, <1>7, <1>8, <1>9, <1>10 DEF Step

-----------------------------------------------------------------------------
(* A job that one shell only works on. *)

\* One user at most is none or one, and who joins it was alone.
LEMMA AloneIsOne ==
  ASSUME NEW U, IsFiniteSet(U), NEW s
  PROVE  /\ U \subseteq {s} => Cardinality(U) <= 1
         /\ Cardinality(U \union {s}) <= 1 => U \subseteq {s}
         /\ Cardinality(U \union {s}) <= 1 => Cardinality(U) <= 1
         /\ Cardinality(U) <= 1 <=> ~ (Cardinality(U) > 1)
<1>1. /\ IsFiniteSet({s}) /\ Cardinality({s}) = 1 /\ Cardinality(U) \in Nat
      /\ IsFiniteSet(U \union {s}) /\ Cardinality(U \union {s}) \in Nat
  BY FS_Singleton, FS_CardinalityType, FS_AddElement
<1>2. U \subseteq {s} => Cardinality(U) <= 1
  BY <1>1, FS_Subset
<1>3. ASSUME Cardinality(U \union {s}) <= 1 PROVE U \subseteq {s}
  <2>1. {s} \in SUBSET (U \union {s})
    OBVIOUS
  <2>2. Cardinality({s}) <= Cardinality(U \union {s})
    BY <1>1, <2>1, FS_Subset
  <2>3. Cardinality(U \union {s}) = Cardinality({s})
    BY <1>1, <1>3, <2>2
  <2>4. U \union {s} = {s}
    BY <1>1, <2>1, <2>3, FS_Subset
  <2> QED BY <2>4
<1> QED BY <1>1, <1>2, <1>3

\* Not more than one is at most one.
LEMMA NotMoreThanOne ==
  ASSUME NEW U, IsFiniteSet(U), NEW s, NEW V, V = U \union {s}, ~ (Cardinality(V) > 1)
  PROVE  Cardinality(V) <= 1
<1>1. Cardinality(V) \in Nat
  <2>1. IsFiniteSet(V)
    BY FS_AddElement
  <2> QED BY <2>1, FS_CardinalityType
<1> QED BY <1>1

\* What other shells do to another job, or with a trace, disturbs no basis.
LEMMA BasisStays ==
  ASSUME IInv, NEW s \in Shells, Basis(s), at'[s] = at[s], draft'[s] = draft[s],
         LET id == draft[s].id IN
           \/ files'[id] = files[id] /\ users'[id] = users[id] /\ acked'[id] = acked[id]
           \/ \E other \in users'[id] : other # s
  PROVE  Basis(s)'
<1> DEFINE id == draft[s].id
<1>1. CASE files'[id] = files[id] /\ users'[id] = users[id] /\ acked'[id] = acked[id]
  BY <1>1 DEF Basis, Alone
<1>2. CASE \E other \in users'[id] : other # s
  BY <1>2 DEF Basis, Alone
<1> QED BY <1>1, <1>2

\* What a step of one shell leaves of another's.
LEMMA OthersBasis ==
  ASSUME IInv, NEW sh \in Shells, Step(sh), NEW s \in Shells \ {sh}
  PROVE  Basis(s)'
<1> DEFINE id == draft[s].id
           Busy == {"creating", "created", "appending", "appended", "saved"}
<1>1. /\ DOMAIN files = Ids /\ DOMAIN at = Shells /\ DOMAIN draft = Shells
      /\ DOMAIN users = Ids /\ DOMAIN acked = Ids /\ doomed[sh] \subseteq Ids
  BY DEF IInv, Shapes, TypeOK
<1>2. at'[s] = at[s] /\ draft'[s] = draft[s]
  <2>1. CASE BeginAppend(sh)
    BY <1>1, <2>1 DEF BeginAppend
  <2>2. CASE ~ BeginAppend(sh)
    BY <1>1, <2>2 DEF Step, New, Enter, Leave, WriteTemporary, Replace, Return, BeginDelete,
                      Unlink, EndDelete, Crash
  <2> QED BY <2>1, <2>2
<1>3. CASE at[s] \notin Busy
  BY <1>2, <1>3 DEF Basis
<1>4. CASE at[s] \in Busy
  <2>1. id \in Ids /\ Basis(s)
    BY <1>4 DEF IInv, Shapes
  <2>2. CASE Replace(sh)
    BY <1>1, <1>2, <2>1, <2>2, BasisStays DEF Replace
  <2>3. CASE Unlink(sh)
    <3>1. PICK i \in Ids :
            /\ files' = [files EXCEPT ![i] = NoJob] /\ acked' = [acked EXCEPT ![i] = <<>>]
            /\ users' = [users EXCEPT ![i] = @ \union {sh}]
      BY <1>1, <2>3 DEF Unlink
    <3> QED BY <1>1, <1>2, <2>1, <3>1, BasisStays
  <2>4. CASE Return(sh)
    <3>1. sh \in users[draft[sh].id] /\ UNCHANGED <<files, users>>
      BY <2>4 DEF Return, IInv, Shapes
    <3>2. draft[sh].id = id \/ acked'[id] = acked[id]
      BY <1>1, <2>1, <2>4 DEF Return
    <3> QED BY <1>2, <2>1, <3>1, <3>2, BasisStays
  <2>5. CASE ~ (Replace(sh) \/ Unlink(sh) \/ Return(sh))
    <3>1. UNCHANGED <<files, users, acked>>
      BY <2>5 DEF Step, New, Enter, Leave, BeginAppend, WriteTemporary, BeginDelete, EndDelete,
                  Crash
    <3> QED BY <1>2, <2>1, <3>1, BasisStays
  <2> QED BY <2>2, <2>3, <2>4, <2>5
<1> QED BY <1>3, <1>4

\* A shell alone in its job replaces the file by what it made from it.
LEMMA ReplaceAlone ==
  ASSUME IInv, NEW sh \in Shells, Replace(sh), Alone(sh)
  PROVE  LET id == draft[sh].id
             results == draft[sh].job.results
         IN  /\ id \in Ids
             /\ \/ files[id] = NoJob /\ draft[sh].job = NewJob /\ results = <<>> /\ acked[id] = <<>>
                \/ /\ files[id] # NoJob /\ files[id].results \in Seq(Entries)
                   /\ IsPartOf(acked[id], files[id].results)
                   /\ ToSet(acked[id]) \subseteq ToSet(files[id].results)
                   /\ \E e \in Entries : /\ e \notin ToSet(files[id].results)
                                        /\ results = Append(files[id].results, e)
<1> DEFINE id == draft[sh].id
<1>1. at[sh] \in {"created", "appended"} /\ id \in Ids /\ Basis(sh)
  BY DEF Replace, IInv, Shapes
<1>2. Cardinality(users[id]) <= 1
  BY <1>1, AloneIsOne DEF Alone, IInv, Shapes
<1>3. CASE at[sh] = "created"
  <2>1. files[id] = NoJob /\ draft[sh].job = NewJob
    BY <1>1, <1>3 DEF Basis, IInv, Shapes
  <2>2. acked[id] = <<>>
    BY <1>1, <1>2, <2>1 DEF IInv, Kept
  <2> QED BY <1>1, <2>1, <2>2, NewIsJob
<1>4. CASE at[sh] = "appended"
  <2>1. /\ files[id] # NoJob
        /\ \E e \in Entries : /\ e \notin ToSet(files[id].results)
                             /\ draft[sh].job.results = Append(files[id].results, e)
    BY <1>1, <1>4 DEF Basis
  <2>2. IsPartOf(acked[id], files[id].results) /\ ToSet(acked[id]) \subseteq ToSet(files[id].results)
    BY <1>1, <1>2, <2>1 DEF IInv, Kept
  <2>3. files[id].results \in Seq(Entries)
    BY <1>1, <2>1, FilesLoad DEF IInv, Shapes
  <2> QED BY <1>1, <2>1, <2>2, <2>3
<1> QED BY <1>1, <1>3, <1>4

\* What a shell saves is made from what is in the file.
LEMMA OwnBasis ==
  ASSUME IInv, NEW sh \in Shells, Step(sh)
  PROVE  Basis(sh)'
<1> DEFINE id == draft[sh].id
<1>1. /\ DOMAIN files = Ids /\ DOMAIN at = Shells /\ DOMAIN draft = Shells
      /\ DOMAIN users = Ids /\ DOMAIN acked = Ids
  BY DEF IInv, Shapes, TypeOK
<1>2. CASE New(sh)
  BY <1>1, <1>2 DEF New, Basis
<1>3. CASE BeginAppend(sh)
  <2>1. CASE at'[sh] = "idle"
    BY <2>1 DEF Basis
  <2>2. CASE at'[sh] # "idle"
    <3>1. /\ active[sh] \in Ids /\ files[active[sh]] # NoJob /\ at'[sh] = "appending"
          /\ \E e \in Entries : \E job :
               /\ e.n = recorded /\ recorded < MaxEntries
               /\ draft' = [draft EXCEPT ![sh] = [id |-> active[sh], job |-> job]]
               /\ job.results = Append(files[active[sh]].results, e)
      BY <1>1, <1>3, <2>2, AppendDraft
    <3>2. PICK e \in Entries :
            /\ e.n = recorded /\ recorded < MaxEntries
            /\ draft'[sh].id = active[sh]
            /\ draft'[sh].job.results = Append(files[active[sh]].results, e)
      BY <1>1, <3>1
    <3>3. e \notin ToSet(files[active[sh]].results)
      <4>1. IsPast(files[active[sh]], recorded) /\ recorded \in Nat
        BY <3>1 DEF IInv, Numbered, TypeOK
      <4> QED BY <3>2, <4>1, BoundsAreNumbers DEF IsPast
    <3>4. UNCHANGED <<files, users, acked>>
      BY <1>3 DEF BeginAppend
    <3> QED BY <3>1, <3>2, <3>3, <3>4 DEF Basis
  <2> QED BY <2>1, <2>2
<1>4. CASE WriteTemporary(sh)
  <2>1. /\ UNCHANGED <<files, users, acked, draft>> /\ Basis(sh)
        /\ \/ at[sh] = "creating" /\ at'[sh] = "created"
           \/ at[sh] = "appending" /\ at'[sh] = "appended"
    BY <1>1, <1>4 DEF WriteTemporary, IInv
  <2> QED BY <2>1 DEF Basis, Alone
<1>5. CASE Replace(sh)
  <2>1. id \in Ids /\ draft[sh].job # NoJob /\ UNCHANGED <<draft, acked>>
    BY <1>5, JobOfType DEF Replace, IInv, Shapes, IsJob
  <2>2. files'[id] = draft[sh].job /\ users'[id] = users[id] \union {sh} /\ at'[sh] = "saved"
    BY <1>1, <1>5, <2>1 DEF Replace
  <2>3. CASE ~ Alone(sh)
    BY <2>1, <2>2, <2>3 DEF Basis, Alone
  <2>4. CASE Alone(sh)
    <3> DEFINE results == draft[sh].job.results
    <3>1. \/ results = <<>>
          \/ /\ files[id].results \in Seq(Entries)
             /\ ToSet(acked[id]) \subseteq ToSet(files[id].results)
             /\ \E e \in Entries : /\ e \notin ToSet(files[id].results)
                                  /\ results = Append(files[id].results, e)
      BY <1>5, <2>4, ReplaceAlone
    <3>2. /\ \A i \in 1 .. Len(results) - 1 : results[i] # results[Len(results)]
          /\ results # <<>> => results[Len(results)] \notin ToSet(acked[id])
      <4>1. CASE results = <<>>
        BY <4>1
      <4>2. CASE results # <<>>
        <5> DEFINE old == files[id].results
        <5>1. PICK e \in Entries : e \notin ToSet(old) /\ results = Append(old, e)
          BY <3>1, <4>2
        <5>2. old \in Seq(Entries) /\ ToSet(acked[id]) \subseteq ToSet(old)
          BY <3>1, <4>2
        <5> HIDE DEF old, results
        <5>3. /\ Len(results) = Len(old) + 1 /\ results[Len(old) + 1] = e
              /\ \A i \in 1 .. Len(old) : results[i] = old[i]
          BY <5>1, <5>2, LongerSet
        <5>4. \A i \in 1 .. Len(old) : old[i] # e
          BY <5>1, <5>2, NotInSet
        <5>5. Len(old) \in Nat
          BY <5>2
        <5>6. Len(results) - 1 = Len(old)
          BY <5>3, <5>5
        <5> QED BY <5>1, <5>2, <5>3, <5>4, <5>6
      <4> QED BY <4>1, <4>2
    <3> HIDE DEF results
    <3> QED BY <2>1, <2>2, <3>2 DEF Basis, results
  <2> QED BY <2>3, <2>4
<1>6. CASE Enter(sh) \/ Leave(sh) \/ Return(sh) \/ BeginDelete(sh) \/ Unlink(sh) \/ EndDelete(sh)
             \/ Crash(sh)
  <2>1. at'[sh] \in {"idle", "deleting"}
    BY <1>1, <1>6 DEF Enter, Leave, Return, BeginDelete, Unlink, EndDelete, Crash
  <2> QED BY <2>1 DEF Basis
<1> QED BY <1>2, <1>3, <1>4, <1>5, <1>6 DEF Step

\* Whoever saves or deletes, acknowledged results of a job of one shell stay.
LEMMA KeptStep ==
  ASSUME IInv, NEW sh \in Shells, Step(sh)
  PROVE  Kept'
<1>1. /\ DOMAIN files = Ids /\ DOMAIN users = Ids /\ DOMAIN acked = Ids /\ doomed[sh] \subseteq Ids
      /\ \A id \in Ids : IsFiniteSet(users[id])
  BY DEF IInv, Shapes, TypeOK
<1>2. Kept
  BY DEF IInv
<1>3. IsPartOf(<<>>, <<>>) /\ ToSet(<<>>) \subseteq ToSet(<<>>)
  <2>1. <<>> \in Seq(Entries)
    OBVIOUS
  <2> QED BY <2>1, PartOfItself
<1>4. CASE Replace(sh)
  <2> DEFINE id == draft[sh].id
             results == draft[sh].job.results
  <2>1. /\ id \in Ids /\ draft[sh].job # NoJob /\ UNCHANGED acked
        /\ files' = [files EXCEPT ![id] = draft[sh].job]
        /\ users' = [users EXCEPT ![id] = @ \union {sh}]
    BY <1>4, JobOfType DEF Replace, IInv, Shapes, IsJob
  <2>2. ASSUME Cardinality(users'[id]) <= 1
        PROVE  IsPartOf(acked[id], results) /\ ToSet(acked[id]) \subseteq ToSet(results)
    <3>1. Alone(sh)
      BY <1>1, <2>1, <2>2, AloneIsOne DEF Alone
    <3>2. \/ results = <<>> /\ acked[id] = <<>>
          \/ /\ files[id].results \in Seq(Entries)
             /\ IsPartOf(acked[id], files[id].results)
             /\ ToSet(acked[id]) \subseteq ToSet(files[id].results)
             /\ \E e \in Entries : /\ e \notin ToSet(files[id].results)
                                  /\ results = Append(files[id].results, e)
      BY <1>4, <3>1, ReplaceAlone
    <3>3. CASE results = <<>> /\ acked[id] = <<>>
      BY <1>3, <3>3
    <3>4. CASE ~ (results = <<>> /\ acked[id] = <<>>)
      <4> DEFINE old == files[id].results
                 kept == acked[id]
      <4>1. PICK e \in Entries : e \notin ToSet(old) /\ results = Append(old, e)
        BY <3>2, <3>4
      <4>2. /\ old \in Seq(Entries) /\ kept \in Seq(Entries)
            /\ IsPartOf(kept, old) /\ ToSet(kept) \subseteq ToSet(old)
        BY <2>1, <3>2, <3>4 DEF IInv, TypeOK
      <4> HIDE DEF old, kept, results
      <4>3. e \notin ToSet(kept) /\ ToSet(results) = ToSet(old) \union {e}
        BY <4>1, <4>2, LongerSet
      <4>4. IsPartOf(kept, results)
        BY <4>1, <4>2, <4>3, PartOfLonger
      <4>5. IsPartOf(kept, results) /\ ToSet(kept) \subseteq ToSet(results)
        BY <4>2, <4>3, <4>4
      <4> QED BY <4>5 DEF kept
    <3> QED BY <3>3, <3>4
  <2>3. \A i \in Ids \ {id} : files'[i] = files[i] /\ users'[i] = users[i]
    BY <1>1, <2>1
  <2>4. files'[id] = draft[sh].job
    BY <1>1, <2>1
  <2> HIDE DEF id
  <2> QED BY <1>2, <2>1, <2>2, <2>3, <2>4 DEF Kept
<1>5. CASE Return(sh)
  <2> DEFINE id == draft[sh].id
             results == draft[sh].job.results
  <2>1. /\ id \in Ids /\ at[sh] = "saved" /\ sh \in users[id] /\ results \in Seq(Entries)
        /\ UNCHANGED <<files, users>> /\ draft[sh].job # NoJob /\ Basis(sh)
        /\ acked' = [acked EXCEPT ![id] =
                       IF results = <<>> THEN <<>> ELSE Append(@, results[Len(results)])]
    BY <1>5, JobOfType DEF Return, IInv, Shapes, IsJob
  <2>2. ASSUME Cardinality(users[id]) <= 1
        PROVE  /\ files[id] # NoJob /\ files[id].results = results
               /\ IsPartOf(acked'[id], results) /\ ToSet(acked'[id]) \subseteq ToSet(results)
    <3>1. Alone(sh)
      <4>1. users[id] \union {sh} = users[id]
        BY <2>1
      <4> QED BY <1>1, <2>1, <2>2, <4>1, AloneIsOne DEF Alone
    <3>2. /\ files[id] = draft[sh].job
          /\ \A i \in 1 .. Len(results) - 1 : results[i] # results[Len(results)]
          /\ results # <<>> => results[Len(results)] \notin ToSet(acked[id])
      BY <2>1, <3>1 DEF Basis
    <3>3. IsPartOf(acked[id], results) /\ ToSet(acked[id]) \subseteq ToSet(results)
      BY <1>2, <2>1, <2>2, <3>2 DEF Kept
    <3>4. acked[id] \in Seq(Entries)
      BY <2>1 DEF IInv, TypeOK
    <3> DEFINE kept == acked[id]
    <3>5. acked'[id] = IF results = <<>> THEN <<>> ELSE Append(kept, results[Len(results)])
      BY <1>1, <2>1
    <3>6. files[id] # NoJob /\ files[id].results = results
      BY <2>1, <3>2
    <3> HIDE DEF kept, results
    <3>7. CASE results = <<>>
      BY <1>3, <3>5, <3>6, <3>7
    <3>8. CASE results # <<>>
      <4>1. results[Len(results)] \in Entries /\ results[Len(results)] \in ToSet(results)
        BY <2>1, <3>8, LastIsEntry, LastIsThere
      <4>2. kept \in Seq(Entries) /\ IsPartOf(kept, results) /\ ToSet(kept) \subseteq ToSet(results)
              /\ results[Len(results)] \notin ToSet(kept)
        BY <3>2, <3>3, <3>4, <3>8 DEF kept
      <4>3. IsPartOf(Append(kept, results[Len(results)]), results)
        BY <2>1, <3>2, <3>8, <4>2, PartOfBoth
      <4>4. ToSet(Append(kept, results[Len(results)])) = ToSet(kept) \union {results[Len(results)]}
        BY <4>1, <4>2, LongerSet
      <4> QED BY <3>5, <3>6, <3>8, <4>1, <4>2, <4>3, <4>4
    <3> QED BY <3>7, <3>8
  <2>3. \A i \in Ids \ {id} : acked'[i] = acked[i]
    BY <1>1, <2>1
  <2> HIDE DEF id, results
  <2> QED BY <1>2, <2>1, <2>2, <2>3 DEF Kept
<1>6. CASE Unlink(sh)
  <2>1. PICK id \in Ids :
          /\ files' = [files EXCEPT ![id] = NoJob] /\ acked' = [acked EXCEPT ![id] = <<>>]
          /\ users' = [users EXCEPT ![id] = @ \union {sh}]
    BY <1>1, <1>6 DEF Unlink
  <2>2. files'[id] = NoJob /\ acked'[id] = <<>>
    BY <1>1, <2>1
  <2>3. \A i \in Ids \ {id} : files'[i] = files[i] /\ acked'[i] = acked[i] /\ users'[i] = users[i]
    BY <1>1, <2>1
  <2> QED BY <1>2, <2>2, <2>3 DEF Kept
<1>7. CASE ~ (Replace(sh) \/ Unlink(sh) \/ Return(sh))
  <2>1. UNCHANGED <<files, users, acked>>
    BY <1>7 DEF Step, New, Enter, Leave, BeginAppend, WriteTemporary, BeginDelete, EndDelete,
                Crash
  <2> QED BY <1>2, <2>1 DEF Kept
<1> QED BY <1>4, <1>5, <1>6, <1>7

-----------------------------------------------------------------------------
(* The invariant. *)

\* It holds at the start.
LEMMA InitIInv == Init => IInv
<1> SUFFICES ASSUME Init PROVE IInv
  OBVIOUS
<1>1. /\ files \in [Ids -> {NoJob} \union OldFiles]
      /\ \A id \in Ids : files[id] # NoJob => files[id] \in OldFiles
      /\ users = [id \in Ids |-> {}] /\ at = [sh \in Shells |-> "idle"]
      /\ active = [sh \in Shells |-> NoJob] /\ draft = [sh \in Shells |-> NoDraft]
      /\ recorded = 0
      /\ acked = [id \in Ids |-> IF files[id] = NoJob THEN <<>> ELSE files[id].results]
  BY DEF Init
<1>2. Shapes
  <2>1. \A id \in Ids : IsFiniteSet(users[id])
    BY <1>1, FS_EmptySet
  <2> QED BY <1>1, <2>1, NewIsJob DEF Shapes, NoDraft
<1>3. \A id \in Ids : files[id] # NoJob => files[id].results \in Seq(Entries) /\ IsRecord(files[id])
  BY <1>1, FilesLoad
<1>4. TypeOK
  <2>1. \A sh \in Shells : draft[sh].id = NoJob /\ IsRecord(draft[sh].job)
    BY <1>1, NewIsJob, FilesLoad DEF NoDraft
  <2>2. acked \in [Ids -> Seq(Entries)]
    <3>1. \A id \in Ids : (IF files[id] = NoJob THEN <<>> ELSE files[id].results) \in Seq(Entries)
      BY <1>3
    <3> QED BY <1>1, <3>1
  <2>3. recorded \in 0 .. MaxEntries /\ created \in 0 .. MaxCreated /\ crashes \in 0 .. MaxCrashes
    BY BoundsAreNumbers DEF Init
  <2>4. /\ doomed \in [Shells -> SUBSET Ids] /\ gone \in [Shells -> SUBSET Ids]
        /\ at \in [Shells -> {"idle", "creating", "created", "appending", "appended",
                             "saved", "deleting"}]
        /\ active \in [Shells -> Ids \union {NoJob}] /\ users \in [Ids -> SUBSET Shells]
    BY <1>1 DEF Init
  <2> QED BY <1>3, <2>1, <2>2, <2>3, <2>4 DEF TypeOK
<1>5. Numbered
  <2>1. ASSUME NEW id \in Ids, files[id] # NoJob PROVE IsPast(files[id], recorded)
    <3>1. files[id].results \in Seq([n : {MaxEntries}, outcome : ResultOutcomes])
      BY <1>1, <2>1, OldFilesAreOld DEF IsOldFile
    <3>2. ASSUME NEW S, NEW s \in Seq(S) PROVE \A i \in DOMAIN s : s[i] \in S
      OBVIOUS
    <3> DEFINE Old == [n : {MaxEntries}, outcome : ResultOutcomes]
    <3>3. \A e \in Old : e.n = MaxEntries
      OBVIOUS
    <3> HIDE DEF Old
    <3>4. \A i \in DOMAIN files[id].results : files[id].results[i].n = MaxEntries
      BY <3>1, <3>2, <3>3 DEF Old
    <3> QED BY <3>4 DEF IsPast, ToSet
  <2>2. \A sh \in Shells : IsPast(draft[sh].job, recorded)
    BY <1>1, NewIsJob DEF NoDraft, IsPast, ToSet
  <2> QED BY <2>1, <2>2 DEF Numbered
<1>6. Entered
  BY <1>1 DEF Entered
<1>7. \A sh \in Shells : Basis(sh)
  BY <1>1 DEF Basis
<1>8. Kept
  <2>1. ASSUME NEW id \in Ids, files[id] # NoJob PROVE IsPartOf(acked[id], files[id].results)
    <3>1. acked[id] = files[id].results /\ files[id].results \in Seq(Entries)
      BY <1>1, <1>3, <2>1
    <3> QED BY <3>1, PartOfItself
  <2>2. \A id \in Ids : IF files[id] = NoJob THEN acked[id] = <<>> ELSE acked[id] = files[id].results
    BY <1>1
  <2> QED BY <2>1, <2>2 DEF Kept
<1> QED BY <1>2, <1>4, <1>5, <1>6, <1>7, <1>8 DEF IInv

\* Every step keeps it.
LEMMA NextIInv == IInv /\ [Next]_vars => IInv'
<1> SUFFICES ASSUME IInv, [Next]_vars PROVE IInv'
  OBVIOUS
<1>1. CASE Next
  <2>1. PICK sh \in Shells : Step(sh)
    BY <1>1 DEF Next, Step
  <2>2. \A s \in Shells : Basis(s)'
    BY <2>1, OwnBasis, OthersBasis
  <2> QED BY <2>1, <2>2, TypeStep, ShapesStep, NumberedStep, EnteredStep, KeptStep DEF IInv
<1>2. CASE UNCHANGED vars
  BY <1>2 DEF vars, IInv, TypeOK, Shapes, Numbered, Entered, Basis, Alone, Kept
<1> QED BY <1>1, <1>2

\* So it always holds.
LEMMA Invariance == Spec => []IInv
BY InitIInv, NextIInv, PTL DEF Spec

(* Files, drafts and histories are always what they are declared to be: a
   job's file is one that some version of the program has written whole
   (JsonJobRepository). *)
THEOREM TypeCorrect == Spec => []TypeOK
<1>1. IInv => TypeOK
  BY DEF IInv
<1> QED BY <1>1, Invariance, PTL

(* Whatever shells do to a job, and whichever version wrote it first, as it is
   loaded its steps, its status and its summary tell of all its results and of
   nothing else (append_result, job_from_dict). *)
THEOREM RecordsAddUp == Spec => []JobsAddUp
<1>1. IInv => JobsAddUp
  <2> SUFFICES ASSUME IInv, NEW id \in Ids, Load(id) # NoJob
               PROVE  LET job == Load(id) IN
                      /\ job.steps = job.results
                      /\ StatusIsRight(job)
                      /\ job.summary.step_count = Len(job.results)
                      /\ job.summary.step_count =
                           job.summary.completed_steps + job.summary.negative_steps
                             + job.summary.skipped_steps + job.summary.warning_steps
                             + job.summary.failed_steps
    BY DEF JobsAddUp
  <2>1. files[id] \in OldFiles \/ IsJob(files[id])
    BY DEF Load, IInv, Shapes
  <2>2. Load(id) = JobOf(files[id].results) /\ files[id].results \in Seq(Entries)
    BY <2>1, FilesLoad DEF Load
  <2> QED BY <2>2, JobOfAddsUp
<1> QED BY <1>1, Invariance, PTL

(* As long as one shell only works on a job, no crash at any point of a save
   loses a result that append_result acknowledged, or the order of results
   (save, os.replace). *)
THEOREM AcknowledgedKept == Spec => []AcknowledgedResultsStay
<1>1. IInv => AcknowledgedResultsStay
  BY DEF IInv, Kept, AcknowledgedResultsStay
<1> QED BY <1>1, Invariance, PTL

(* A shell between commands is in a job that exists, unless another shell
   deleted it (handle_enter, handle_delete_job). *)
THEOREM ActiveJobExists == Spec => []ActiveJobIsThere
<1>1. IInv => ActiveJobIsThere
  BY DEF IInv, Entered, ActiveJobIsThere
<1> QED BY <1>1, Invariance, PTL

-----------------------------------------------------------------------------
(* The refinement. *)

\* What the abstract log holds of a job.
LogOf(id) ==
  IF Cardinality(users[id]) > 1 THEN Shared
  ELSE IF files[id] = NoJob THEN NoJob ELSE files[id].results

\* The results in a file are none of what stands for no job.
LEMMA ResultsAreResults ==
  ASSUME IInv, NEW id \in Ids, files[id] # NoJob
  PROVE  /\ files[id].results \in Seq(Entries)
         /\ files[id].results # NoJob /\ files[id].results # Shared
BY FilesLoad, NoJobIsNothing DEF IInv, Shapes

\* Files to begin with are logs to begin with.
LEMMA InitRefines == Init => Log!Init
<1> SUFFICES ASSUME Init PROVE Log!Init
  OBVIOUS
<1>1. IInv
  BY InitIInv
<1>2. ASSUME NEW id \in Ids PROVE LogOf(id) \in Seq(Entries) \union {NoJob}
  <2>1. users[id] = {}
    BY DEF Init
  <2>2. ~ (Cardinality(users[id]) > 1)
    BY <2>1, FS_EmptySet
  <2> QED BY <1>1, <2>2, ResultsAreResults DEF LogOf
<1> QED BY <1>2 DEF Log!Init, LogOf

\* Where neither file nor users change, the log does not.
LEMMA LogStays ==
  ASSUME NEW id, files'[id] = files[id], users'[id] = users[id]
  PROVE  LogOf(id)' = LogOf(id)
BY Zenon DEF LogOf

\* A file replaced is a job created, a result added, or a job shared.
LEMMA ReplaceRefines ==
  ASSUME IInv, NEW sh \in Shells, Replace(sh)
  PROVE  \E id \in Ids :
           /\ \A i \in Ids \ {id} : LogOf(i)' = LogOf(i)
           /\ \/ LogOf(id) = NoJob /\ LogOf(id)' = <<>>
              \/ /\ LogOf(id) \notin {NoJob, Shared}
                 /\ \E e \in Entries : LogOf(id)' = Append(LogOf(id), e)
              \/ LogOf(id)' = Shared
<1>1. PICK id \in Ids : id = draft[sh].id
  BY DEF Replace, IInv, Shapes
<1>2. /\ DOMAIN files = Ids /\ DOMAIN users = Ids /\ IsFiniteSet(users[id])
      /\ draft[sh].job # NoJob
      /\ files' = [files EXCEPT ![id] = draft[sh].job]
      /\ users' = [users EXCEPT ![id] = @ \union {sh}]
  <2>1. draft[sh].job # NoJob
    BY JobOfType DEF IInv, Shapes, IsJob
  <2> QED BY <1>1, <2>1 DEF Replace, IInv, Shapes, TypeOK
<1>3. \A i \in Ids \ {id} : LogOf(i)' = LogOf(i)
  BY <1>2, LogStays
<1>4. files'[id] = draft[sh].job /\ users'[id] = users[id] \union {sh}
  BY <1>2
<1>5. CASE Cardinality(users'[id]) > 1
  <2>1. LogOf(id)' = Shared
    BY <1>5 DEF LogOf
  <2> QED BY <1>3, <2>1
<1>6. CASE ~ (Cardinality(users'[id]) > 1)
  <2>1. Cardinality(users'[id]) <= 1
    BY <1>2, <1>4, <1>6, NotMoreThanOne
  <2>2. Alone(sh) /\ ~ (Cardinality(users[id]) > 1)
    BY <1>1, <1>2, <1>4, <2>1, AloneIsOne DEF Alone
  <2>3. LogOf(id)' = draft[sh].job.results
    BY <1>2, <1>4, <1>6 DEF LogOf
  <2>4. LogOf(id) = IF files[id] = NoJob THEN NoJob ELSE files[id].results
    BY <2>2 DEF LogOf
  <2>5. \/ files[id] = NoJob /\ draft[sh].job.results = <<>>
        \/ /\ files[id] # NoJob
           /\ \E e \in Entries : draft[sh].job.results = Append(files[id].results, e)
    BY <1>1, <2>2, ReplaceAlone
  <2> QED BY <1>3, <2>3, <2>4, <2>5, ResultsAreResults
<1> QED BY <1>5, <1>6

\* A file deleted is a job deleted or shared, or nothing.
LEMMA UnlinkRefines ==
  ASSUME IInv, NEW sh \in Shells, Unlink(sh)
  PROVE  \E id \in Ids :
           /\ \A i \in Ids \ {id} : LogOf(i)' = LogOf(i)
           /\ \/ LogOf(id) \notin {NoJob, Shared} /\ LogOf(id)' = NoJob
              \/ LogOf(id)' = Shared
              \/ LogOf(id)' = LogOf(id)
<1>1. /\ DOMAIN files = Ids /\ DOMAIN users = Ids /\ doomed[sh] \subseteq Ids
      /\ \A id \in Ids : IsFiniteSet(users[id])
  BY DEF IInv, Shapes, TypeOK
<1>2. PICK id \in Ids : /\ files' = [files EXCEPT ![id] = NoJob]
                       /\ users' = [users EXCEPT ![id] = @ \union {sh}]
  BY <1>1 DEF Unlink
<1>3. \A i \in Ids \ {id} : LogOf(i)' = LogOf(i)
  BY <1>1, <1>2, LogStays
<1>4. files'[id] = NoJob /\ users'[id] = users[id] \union {sh}
  BY <1>1, <1>2
<1>5. CASE Cardinality(users'[id]) > 1
  <2>1. LogOf(id)' = Shared
    BY <1>5 DEF LogOf
  <2> QED BY <1>3, <2>1
<1>6. CASE ~ (Cardinality(users'[id]) > 1)
  <2>1. Cardinality(users'[id]) <= 1
    BY <1>1, <1>4, <1>6, NotMoreThanOne
  <2>2. ~ (Cardinality(users[id]) > 1)
    BY <1>1, <1>4, <2>1, AloneIsOne
  <2>3. LogOf(id)' = NoJob
    BY <1>4, <1>6 DEF LogOf
  <2>4. LogOf(id) = IF files[id] = NoJob THEN NoJob ELSE files[id].results
    BY <2>2 DEF LogOf
  <2> QED BY <1>3, <2>3, <2>4, ResultsAreResults
<1> QED BY <1>5, <1>6

\* Every step of the repository is one of the log, or none.
LEMMA StepRefines ==
  ASSUME IInv, [Next]_vars
  PROVE  [Log!Next]_([id \in Ids |-> LogOf(id)])
<1> DEFINE log == [id \in Ids |-> LogOf(id)]
<1>1. ASSUME NEW id \in Ids, \A i \in Ids \ {id} : LogOf(i)' = LogOf(i)
      PROVE  log' = [log EXCEPT ![id] = LogOf(id)']
  <2> DEFINE new == LogOf(id)'
  <2> HIDE DEF new
  <2>1. [i \in Ids |-> LogOf(i)'] = [i \in Ids |-> IF i = id THEN LogOf(id)' ELSE LogOf(i)]
    BY <1>1
  <2> QED BY <2>1 DEF new
<1>2. ASSUME NEW sh \in Shells, Replace(sh) PROVE Log!Next
  <2>1. PICK id \in Ids :
          /\ \A i \in Ids \ {id} : LogOf(i)' = LogOf(i)
          /\ \/ LogOf(id) = NoJob /\ LogOf(id)' = <<>>
             \/ /\ LogOf(id) \notin {NoJob, Shared}
                /\ \E e \in Entries : LogOf(id)' = Append(LogOf(id), e)
             \/ LogOf(id)' = Shared
    BY <1>2, ReplaceRefines
  <2>2. log' = [log EXCEPT ![id] = LogOf(id)'] /\ log[id] = LogOf(id)
    BY <1>1, <2>1
  <2>3. CASE LogOf(id) = NoJob /\ LogOf(id)' = <<>>
    <3>1. Log!Create(id)
      BY <2>2, <2>3 DEF Log!Create, LogOf
    <3> QED BY <3>1 DEF Log!Next
  <2>4. CASE /\ LogOf(id) \notin {NoJob, Shared}
             /\ \E e \in Entries : LogOf(id)' = Append(LogOf(id), e)
    <3>1. Log!Add(id)
      BY <2>2, <2>4 DEF Log!Add, LogOf
    <3> QED BY <3>1 DEF Log!Next
  <2>5. CASE LogOf(id)' = Shared
    <3>1. Log!Share(id)
      BY <2>2, <2>5 DEF Log!Share, LogOf
    <3> QED BY <3>1 DEF Log!Next
  <2> QED BY <2>1, <2>3, <2>4, <2>5
<1>3. ASSUME NEW sh \in Shells, Unlink(sh) PROVE Log!Next \/ UNCHANGED log
  <2>1. PICK id \in Ids :
          /\ \A i \in Ids \ {id} : LogOf(i)' = LogOf(i)
          /\ \/ LogOf(id) \notin {NoJob, Shared} /\ LogOf(id)' = NoJob
             \/ LogOf(id)' = Shared
             \/ LogOf(id)' = LogOf(id)
    BY <1>3, UnlinkRefines
  <2>2. log' = [log EXCEPT ![id] = LogOf(id)'] /\ log[id] = LogOf(id)
    BY <1>1, <2>1
  <2>3. CASE LogOf(id) \notin {NoJob, Shared} /\ LogOf(id)' = NoJob
    <3>1. Log!Delete(id)
      BY <2>2, <2>3 DEF Log!Delete, LogOf
    <3> QED BY <3>1 DEF Log!Next
  <2>4. CASE LogOf(id)' = Shared
    <3>1. Log!Share(id)
      BY <2>2, <2>4 DEF Log!Share, LogOf
    <3> QED BY <3>1 DEF Log!Next
  <2>5. CASE LogOf(id)' = LogOf(id)
    BY <2>2, <2>5
  <2> QED BY <2>1, <2>3, <2>4, <2>5
<1>4. CASE UNCHANGED <<files, users>>
  <2>1. \A id \in Ids : LogOf(id)' = LogOf(id)
    BY <1>4 DEF LogOf
  <2> QED BY <2>1
<1> QED
  BY <1>2, <1>3, <1>4 DEF Next, vars, New, Enter, Leave, BeginAppend, WriteTemporary, Return,
                          BeginDelete, EndDelete, Crash

(* The repository implements JobLog: as long as one shell only works on a job,
   results are added to its end one at a time and nothing else happens to it,
   whatever crashes and whatever other shells do elsewhere (JsonJobRepository). *)
THEOREM Implements == Spec => ImplementsJobLog
<1>1. Spec => []IInv
  BY Invariance
<1> QED BY <1>1, InitRefines, StepRefines, PTL DEF Spec, ImplementsJobLog, Log!Spec, LogOf
=============================================================================
