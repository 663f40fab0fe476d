---------------------------- MODULE RunRecords ------------------------------
(***************************************************************************)
(* What is kept of recon runs: the events of their steps, in a journal,    *)
(* and the evidence graph, made from the results (handle_recon).           *)
(*                                                                         *)
(* Steps complete in any order, and their events, of each step one here,   *)
(* are written in that order; results are gone through in the order of the *)
(* plan.  A write to the journal may fail, which the emitter hides from    *)
(* the run, and a crash may end the program in the middle of one; the next *)
(* run appends to the same file.                                           *)
(***************************************************************************)
EXTENDS JobRecord, EventJournal, Evidence

CONSTANTS
  Target,
  Runs,       \* what can be run: sequences of steps [tool, outcome, payload]
  MaxRuns,    \* bound: runs
  MaxEvents,  \* bound: events written, if there is more than one run
  MaxFaults   \* bound: writes that fail

\* What the adapters answer: lists of findings, whose fields hold texts.
PayloadOK(p) ==
  /\ p.provider \in STRING /\ p.parser \in STRING
  /\ Len(p.findings) \in Nat /\ DOMAIN p.findings = 1 .. Len(p.findings)
  /\ \A f \in DOMAIN p.findings : \A field \in DOMAIN p.findings[f] :
       p.findings[f][field] \in Seq(STRING)

ASSUME RunsAreSequences ==
  \A r \in Runs : /\ Len(r) \in Nat /\ DOMAIN r = 1 .. Len(r)
                  /\ \A s \in DOMAIN r : PayloadOK(r[s].payload)

ASSUME TargetIsText == Target \in STRING \ {""}

ASSUME BoundsAreNumbers == MaxRuns \in Nat /\ MaxEvents \in Nat /\ MaxFaults \in Nat

VARIABLES
  run,        \* number of this run
  steps,      \* its plan, of which the results are in the same order
  completed,  \* the steps that have completed
  file,       \* the journal
  written,    \* history: the events emitted, and what became of their writes
  at,         \* what handle_recon is doing, and
  index,      \* with which result
  payloads,   \* report_payloads: by tool
  place,      \* how far build_evidence_graph has come in them
  claims      \* the evidence graph

vars == <<run, steps, completed, file, written, at, index, payloads, place, claims>>

NoPayloads == [t \in {} |-> {}]

Start == <<0, 0, 0, 0>>

Init ==
  /\ run = 1 /\ steps \in Runs /\ completed = {}
  /\ file = NoFile /\ written = <<>>
  /\ at = "running" /\ index = 1
  /\ payloads = NoPayloads /\ place = Start /\ claims = <<>>

Faults == Cardinality({i \in DOMAIN written : written[i].write # "whole"})

\* EventEmitter.emit, and JsonlEventJournal.append under its lock.
Emit(s, write) ==
  /\ write # "whole" => Faults < MaxFaults
  /\ file' = AppendEvent(file, <<run, s>>, write)
  /\ written' = Append(written, [event |-> <<run, s>>, write |-> write])

\* A step completes: whatever its event comes to, the run goes on.
CompleteStep ==
  /\ at = "running"
  /\ \E s \in DOMAIN steps \ completed, write \in Writes :
       /\ Emit(s, write)
       /\ completed' = completed \union {s}
  /\ UNCHANGED <<run, steps, at, index, payloads, place, claims>>

Restart ==
  /\ run < MaxRuns
  /\ run' = run + 1 /\ completed' = {}
  /\ steps' \in {r \in Runs : Len(written') + Len(r) <= MaxEvents}
  /\ at' = "running" /\ index' = 1
  /\ payloads' = NoPayloads /\ place' = Start /\ claims' = <<>>

\* The program ends, perhaps in a write; it is started again.
Crash ==
  /\ at = "running"
  /\ \/ UNCHANGED <<file, written>>
     \/ \E s \in DOMAIN steps \ completed, write \in Writes : Emit(s, write)
  /\ Restart

\* The run was cancelled: the results there are make no graph.
Cancel ==
  /\ at = "running"
  /\ at' = "ended"
  /\ UNCHANGED <<run, steps, completed, file, written, index, payloads, place, claims>>

Collected ==
  /\ at = "running" /\ completed = DOMAIN steps
  /\ at' = "collecting"
  /\ UNCHANGED <<run, steps, completed, file, written, index, payloads, place, claims>>

\* The loop over the results: one of a tool that had one, whatever its outcome,
\* takes its place.
CollectResult ==
  /\ at = "collecting" /\ index <= Len(steps)
  /\ LET tool == steps[index].tool
     IN  payloads' = [t \in DOMAIN payloads \union {tool} |->
                        IF t = tool THEN steps[index].payload ELSE payloads[t]]
  /\ index' = index + 1
  /\ UNCHANGED <<run, steps, completed, file, written, at, place, claims>>

\* A run of which every step failed has no graph.
EndCollect ==
  /\ at = "collecting" /\ index > Len(steps)
  /\ at' = IF JobStatus(steps) = "failed" THEN "ended" ELSE "correlating"
  /\ UNCHANGED <<run, steps, completed, file, written, index, payloads, place, claims>>

\* What build_evidence_graph has not come to yet.
Ahead == {p \in Places(payloads) : Before(place, p)}

\* The next value that says something becomes a claim, or a source of one.
AddNextClaim ==
  /\ at = "correlating"
  /\ \E p \in Ahead :
       /\ \A q \in Ahead \ {p} : Before(p, q)
       /\ claims' = AddClaim(claims, ClaimAt(Target, payloads, p))
       /\ place' = p
  /\ UNCHANGED <<run, steps, completed, file, written, at, index, payloads>>

EndCorrelate ==
  /\ at = "correlating" /\ Ahead = {}
  /\ at' = "correlated"
  /\ UNCHANGED <<run, steps, completed, file, written, index, payloads, place, claims>>

NextRun ==
  /\ at \in {"ended", "correlated"}
  /\ UNCHANGED <<file, written>>
  /\ Restart

Next ==
  \/ CompleteStep \/ Crash \/ Cancel
  \/ Collected \/ CollectResult \/ EndCollect \/ AddNextClaim \/ EndCorrelate
  \/ NextRun

Spec == Init /\ [][Next]_vars

-----------------------------------------------------------------------------
TypeOK ==
  /\ run \in Nat \ {0} /\ steps \in Runs /\ completed \subseteq DOMAIN steps
  /\ file \in Seq(Seq([of : Nat \X Nat, torn : BOOLEAN]))
  /\ written \in Seq([event : Nat \X Nat, write : Writes])
  /\ at \in {"running", "collecting", "correlating", "correlated", "ended"}
  /\ index \in Nat \ {0} /\ place \in Nat \X Nat \X Nat \X Nat
  /\ DOMAIN payloads \subseteq {steps[s].tool : s \in DOMAIN steps}
  /\ claims \in Seq(Claims)

(* Replayed are events that were emitted, in that order, each once, and all
   of them but those whose own write failed and those written into the line
   that a failed write left unfinished: a failure never costs more than the
   event after it (JsonlEventJournal). *)
ReplayLosesLittle ==
  LET replayed == Load(file)
      At(event) == CHOOSE i \in DOMAIN written : written[i].event = event
      some(i)  == {j \in 1 .. i - 1 : written[j].write # "nothing"}
      Safe(i)  == /\ written[i].write = "whole"
                  /\ some(i) # {} => written[CHOOSE j \in some(i) : \A k \in some(i) : k <= j].write = "whole"
      emitted  == {written[i].event : i \in DOMAIN written}
  IN  /\ ToSet(replayed) \subseteq emitted
      /\ \A i, j \in DOMAIN replayed : i < j => At(replayed[i]) < At(replayed[j])
      /\ \A i \in DOMAIN written : Safe(i) => written[i].event \in ToSet(replayed)

(* The graph of a run has each fact once, and of it
   - all that the last step of a tool says, as this has no successor to hide it;
   - no source that no finding of some step names for this very fact;
   - no source twice, unless there is a finding that says it like this;
   - the sources in the order of the tools, if none of these ran twice;
   whatever the order in which steps completed.  Of a step that another of its
   tool follows nothing is said: the code may forget it (handle_recon,
   build_evidence_graph). *)
ClaimsCarryTheirSources ==
  at = "correlated" =>
    LET heard == {s \in DOMAIN steps : steps[s].tool \in ToSet(Order)}
        last == {s \in heard : \A t \in heard : steps[t].tool = steps[s].tool => t <= s}
        stated(s) == Statements(Target, steps[s].tool, steps[s].payload)
        supports(s, c) == {d \in stated(s) : SameFact(c, d)}
        names(s, c) == UNION {ToSet(d.sources) : d \in supports(s, c)}
        rank(s) == CHOOSE i \in DOMAIN Order : Order[i] = steps[s].tool
        from(x, c) == {rank(s) : s \in {t \in heard : x \in names(t, c)}}
        first(x, c) == Min(from(x, c))
    IN  /\ \A i, j \in DOMAIN claims : SameFact(claims[i], claims[j]) => i = j
        /\ \A s \in last : \A d \in stated(s) : \E i \in DOMAIN claims :
             SameFact(claims[i], d) /\ ToSet(d.sources) \subseteq ToSet(claims[i].sources)
        /\ \A i \in DOMAIN claims :
             LET c == claims[i]
             IN  /\ \E s \in heard : supports(s, c) # {}
                 /\ \A x \in ToSet(c.sources) : \E s \in heard : x \in names(s, c)
                 /\ IsInjective(c.sources) \/ \E s \in heard : \E d \in supports(s, c) : c.sources = d.sources
                 /\ last = heard =>
                      \A m, n \in DOMAIN c.sources : m < n => first(c.sources[m], c) <= first(c.sources[n], c)
=============================================================================
