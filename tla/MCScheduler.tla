----------------------------- MODULE MCScheduler -----------------------------
(***************************************************************************)
(* Small plans for the scheduler: the shapes that tell waves, required and *)
(* optional dependencies, artifact requirements and retries apart.         *)
(***************************************************************************)
EXTENDS Scheduler

Dep(t, optional, needs) == [on |-> t, optional |-> optional, needs |-> needs]
Needs(t)   == Dep(t, FALSE, {})
After(t)   == Dep(t, TRUE, {})
NeedsEvidence(t) == Dep(t, FALSE, Kinds)

Step(s, deps, max, backoff) ==
  [id |-> s, deps |-> deps, tool |-> "dns", ip |-> FALSE, group |-> 0,
   max |-> max, backoff |-> backoff, retryable |-> {"failed"}]
Legacy(s, tool, ip, group) ==
  [id |-> s, deps |-> {}, tool |-> tool, ip |-> ip, group |-> group,
   max |-> 1, backoff |-> FALSE, retryable |-> {}]

\* 1 and 2 side by side, 3 after both: needs evidence, only waits, needs 2.
Join1 == <<Step(1, {}, 1, FALSE), Step(2, {}, 1, FALSE),
           Step(3, {NeedsEvidence(1), After(2)}, 1, FALSE)>>
\* A listed-last step that the first one depends on.
Backwards == <<Step(1, {Needs(3)}, 1, FALSE), Step(2, {}, 1, FALSE), Step(3, {}, 1, FALSE)>>
\* A chain behind a step that may be retried after a backoff.
Chain == <<Step(1, {}, 2, TRUE), Step(2, {Needs(1)}, 1, FALSE), Step(3, {After(2)}, 1, FALSE)>>
\* Three independent steps, one retried at once: more work than threads.
Wide == <<Step(1, {}, 2, FALSE), Step(2, {}, 1, FALSE), Step(3, {}, 1, FALSE)>>
\* Legacy plan without dependencies: groups inferred from the tools.
Groups == <<Legacy(1, "nmap", TRUE, 0), Legacy(2, "dns", FALSE, 0), Legacy(3, "rdap", FALSE, 0)>>
Ordered == <<Legacy(1, "ipintel", FALSE, 0), Legacy(2, "http", FALSE, 3), Legacy(3, "ipintel", TRUE, 0)>>

MCPlans == {Join1, Backwards, Chain, Wide, Groups, Ordered}
=============================================================================
