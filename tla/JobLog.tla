------------------------------- MODULE JobLog -------------------------------
(***************************************************************************)
(* What a job repository promises to a shell: jobs are there or not there, *)
(* results are added to the end of a job one at a time, and nothing else   *)
(* ever happens to a job, failures included, as long as one shell only has *)
(* written it.  Of a job that a second shell has written or deleted        *)
(* nothing is promised, and that does not change any more.                 *)
(***************************************************************************)
EXTENDS Sequences

CONSTANTS Ids, Entries, NoLog, Shared

VARIABLE log    \* NoLog, the results of the job, or Shared

TypeOK == log \in [Ids -> Seq(Entries) \union {NoLog, Shared}]

Init == log \in [Ids -> Seq(Entries) \union {NoLog}]

Create(id) == log[id] = NoLog /\ log' = [log EXCEPT ![id] = <<>>]

Add(id) ==
  /\ log[id] \notin {NoLog, Shared}
  /\ \E e \in Entries : log' = [log EXCEPT ![id] = Append(@, e)]

Delete(id) == log[id] \notin {NoLog, Shared} /\ log' = [log EXCEPT ![id] = NoLog]

Share(id) == log' = [log EXCEPT ![id] = Shared]

Next == \E id \in Ids : Create(id) \/ Add(id) \/ Delete(id) \/ Share(id)

Spec == Init /\ [][Next]_log
=============================================================================
