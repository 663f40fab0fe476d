----------------------------- MODULE Installer ------------------------------
(***************************************************************************)
(* Installing and removing external tools (tools/installer.py) by the      *)
(* commands tools install and tools uninstall, for one tool or for all.    *)
(*                                                                         *)
(* A tool has routes: package managers in their declared order, and        *)
(* perhaps a build from source, which comes after them unless the user     *)
(* asked for it first.  Every route runs external commands, each of which  *)
(* may fail, run into the timeout of run_command, or be ended with the     *)
(* shell by Ctrl-C or a kill: what it has done by then stays.              *)
(***************************************************************************)
EXTENDS Pathfinder, Selection, SequencesExt

CONSTANTS
  Managers,      \* package managers
  Linking,       \* those that link executables into ManagedBin: pipx
  Lenient,       \* those that remove what is not installed without complaint: apt-get
  OneWay,        \* those without an inverse command: go
  Source,        \* the route that builds from source
  Packages,      \* the package managers of a tool, in order
  Builds,        \* the number of its build commands, 0: no build from source
  All,           \* all tools in order
  Elsewhere,     \* a directory in which the user may have a program
  Paths,         \* what PATH may be
  Usables,       \* which routes there are, as their own executables are there or not
  Programs,      \* what Elsewhere may hold
  MaxCalls       \* bound: commands given

ASSUME RoutesOfTools ==
  /\ Packages \in [Tools -> Seq(Managers)] /\ Builds \in [Tools -> Nat]
  /\ Source \notin Managers
ASSUME UsableRoutes == Usables \subseteq SUBSET (Managers \union {Source})
ASSUME ProgramsAre == Programs \subseteq {"none", "right", "wrong"}
ASSUME Kinds == Linking \subseteq Managers /\ Lenient \subseteq Managers /\ OneWay \subseteq Managers
\* The names of the tools are the keys of a dictionary, sorted.
ASSUME AllIsAll ==
  All \in Seq(Tools) /\ {All[i] : i \in DOMAIN All} = Tools /\ IsInjective(All) /\ All # <<>>
ASSUME PlacesDiffer ==
  /\ {ManagedBin, Elsewhere, Nowhere} \intersect Managers = {} /\ Elsewhere # ManagedBin
  /\ Paths \subseteq Seq(Managers \union {ManagedBin, Elsewhere})

VARIABLES
  path,       \* PATH: it does not change
  usable,     \* routes whose own executables are there: they do not change
  elsewhere,  \* what Elsewhere holds of a tool: it does not change
  packages,   \* the managers that have the tool installed
  bin,        \* what ManagedBin holds of a tool
  tree,       \* what there is at the tool's place under the source root
  call,       \* the command running: what, source first, and for which tools yet
  at,         \* what it is doing for the first of these
  queue,      \* the routes it has yet to try
  failures,   \* the routes that failed
  built,      \* build commands done, or whether a managed file was removed
  outcome,    \* history: what the last command reported of each tool
  calls       \* number of commands so far

world == <<path, usable, elsewhere>>
disk == <<packages, bin, tree>>
vars == <<path, usable, elsewhere, packages, bin, tree, call, at, queue, failures, built,
          outcome, calls>>

NoCall == [op |-> "none", source |-> FALSE, todo |-> <<>>]
NoOutcome ==
  [of |-> NoCall, done |-> FALSE, attempted |-> FALSE, by |-> Nowhere, failures |-> <<>>]

Init ==
  /\ path \in Paths
  /\ usable \in Usables
  /\ elsewhere \in [Tools -> Programs]
  /\ packages = [t \in Tools |-> {}]
  /\ bin \in [Tools -> {"none", "own"}]
  /\ tree \in [Tools -> {"none", "foreign", "file"}]
  /\ call = NoCall /\ at = "idle" /\ queue = <<>> /\ failures = <<>> /\ built = 0
  /\ outcome = [t \in Tools |-> NoOutcome]
  /\ calls = 0

tool == call.todo[1]

\* What the directories hold under the name of the executable of t.
Holds(t) ==
  [d \in Managers \union {ManagedBin, Elsewhere} |->
     CASE d = ManagedBin -> (CASE bin[t] = "none" -> "none"
                               [] bin[t] \in {"built", "linked"} -> "right"
                               [] bin[t] \in {"own", "broken"} -> "wrong")
       [] d = Elsewhere  -> elsewhere[t]
       [] d \in Managers -> IF d \in packages[t] \ Linking THEN "right" ELSE "none"]

\* The elements of a sequence that are in S, in their order.
Keeping(seq, S) == AtPlaces(seq, {i \in DOMAIN seq : seq[i] \in S})

UsableOnly(routes) == Keeping(routes, usable)

SourceRoutes(t) == IF Builds[t] > 0 THEN <<Source>> ELSE <<>>

\* installation_plans and source_build_plans in the order install_tool tries them.
Routes(t, sourceFirst) ==
  UsableOnly(IF sourceFirst THEN SourceRoutes(t) \o Packages[t] ELSE Packages[t] \o SourceRoutes(t))

\* uninstallation_plans: the inverses of the package managers' commands.
Inverses(t) == Keeping(UsableOnly(Packages[t]), Managers \ OneWay)

-----------------------------------------------------------------------------
\* handle_install, handle_uninstall: one tool or all.
Begin ==
  /\ at = "idle" /\ calls < MaxCalls
  /\ \E op \in {"install", "uninstall"}, source \in BOOLEAN, todo \in {<<t>> : t \in Tools} \union {All} :
       /\ op = "uninstall" => ~source
       /\ call' = [op |-> op, source |-> source, todo |-> todo]
       /\ at' = op
  /\ outcome' = [t \in Tools |-> NoOutcome]
  /\ calls' = calls + 1
  /\ UNCHANGED <<world, disk, queue, failures, built>>

\* The tool at hand is done with; a command for all goes on, whatever became of it.
Report(done, attempted, by) ==
  LET rest == Tail(call.todo) IN
  /\ outcome' = [outcome EXCEPT ![tool] =
                   [of |-> call, done |-> done, attempted |-> attempted, by |-> by, failures |-> failures]]
  /\ call' = IF rest = <<>> THEN NoCall ELSE [call EXCEPT !.todo = rest]
  /\ at' = IF rest = <<>> THEN "idle" ELSE call.op
  /\ queue' = <<>> /\ failures' = <<>> /\ built' = 0
  /\ UNCHANGED calls

\* The shell is ended, or Ctrl-C ends the command: nothing is reported.
Interrupted ==
  /\ call' = NoCall /\ at' = "idle" /\ queue' = <<>> /\ failures' = <<>> /\ built' = 0
  /\ UNCHANGED <<outcome, calls>>

GoOn(to) == at' = to /\ UNCHANGED <<call, queue, failures, built, outcome, calls>>

\* Mutant: a failed build that was asked for is the answer.
NextRoute_NoFallback ==
  /\ IF Head(queue) = Source THEN queue' = <<>> ELSE queue' = Tail(queue)
  /\ failures' = Append(failures, Head(queue))
  /\ at' = "route" /\ built' = 0
  /\ UNCHANGED <<call, outcome, calls>>

\* The route at hand failed.
NextRoute ==
  /\ queue' = Tail(queue)
  /\ failures' = Append(failures, Head(queue))
  /\ at' = "route" /\ built' = 0
  /\ UNCHANGED <<call, outcome, calls>>

\* install_tool: nothing is to do if Pathfinder finds the tool and its
\* program answers.
CheckAvailable ==
  /\ at = "install"
  /\ \E answering \in {{}, DOMAIN Holds(tool)} :
       IF Require(tool, Holds(tool), path, answering).valid
       THEN Report(TRUE, FALSE, Nowhere)
       ELSE /\ queue' = Routes(tool, call.source)
            /\ at' = "route"
            /\ UNCHANGED <<call, failures, built, outcome, calls>>
  /\ UNCHANGED <<world, disk>>

\* A package manager's command: installed by a manager that links, the
\* executable is linked unless the name is taken.
RunPackageManager ==
  /\ at = "route" /\ call.op = "install" /\ queue # <<>> /\ queue[1] # Source
  /\ LET m == queue[1]
         Installed ==
           /\ packages' = [packages EXCEPT ![tool] = @ \union {m}]
           /\ bin' = [bin EXCEPT ![tool] = IF m \in Linking /\ @ = "none" THEN "linked" ELSE @]
     IN  \/ Installed /\ Report(TRUE, TRUE, m)
         \/ (Installed \/ UNCHANGED <<packages, bin>>) /\ (NextRoute \/ Interrupted)
  /\ UNCHANGED <<world, tree>>

\* _install_from_source: the directories are made, or cannot be; then what is
\* at the tool's place decides.
PrepareSource ==
  /\ at = "route" /\ call.op = "install" /\ queue # <<>> /\ queue[1] = Source
  /\ \/ NextRoute
     \/ tree[tool] = "none" /\ GoOn("clone")
     \/ tree[tool] = "checkout" /\ GoOn("fetch")
  /\ UNCHANGED <<world, disk>>

\* git clone: it cleans up after itself, unless the timeout kills it.
CloneSource ==
  /\ at = "clone"
  /\ \/ tree' = [tree EXCEPT ![tool] = "checkout"] /\ (GoOn("build") \/ NextRoute \/ Interrupted)
     \/ UNCHANGED tree /\ (NextRoute \/ Interrupted)
  /\ UNCHANGED <<world, packages, bin>>

\* git fetch, then git checkout of what was fetched.
UpdateSource ==
  /\ \/ at = "fetch" /\ (GoOn("checkout") \/ NextRoute \/ Interrupted)
     \/ at = "checkout" /\ (GoOn("build") \/ NextRoute \/ Interrupted)
  /\ UNCHANGED <<world, disk>>

\* The build commands: the last one writes the executable, or may leave a
\* part of it when it is ended.
BuildSource ==
  /\ at = "build"
  /\ LET last == built + 1 = Builds[tool] IN
     \/ /\ IF last THEN bin' = [bin EXCEPT ![tool] = "built"] /\ Report(TRUE, TRUE, Source)
                   ELSE built' = built + 1 /\ UNCHANGED <<bin, call, at, queue, failures, outcome, calls>>
     \/ /\ bin' \in {bin} \union (IF last THEN {[bin EXCEPT ![tool] = "broken"]} ELSE {})
        /\ NextRoute \/ Interrupted
  /\ UNCHANGED <<world, packages, tree>>

\* No route is left, or there was none.
GiveUp ==
  /\ at = "route" /\ call.op = "install" /\ queue = <<>>
  /\ Report(FALSE, Routes(tool, FALSE) # <<>>, Nowhere)
  /\ UNCHANGED <<world, disk>>

-----------------------------------------------------------------------------
\* _remove_managed_source: the file in ManagedBin, whoever put it there, is
\* unlinked, or cannot be.
RemoveBinary ==
  /\ at = "uninstall"
  /\ \/ /\ bin' = [bin EXCEPT ![tool] = "none"]
        /\ built' = IF bin[tool] = "none" THEN 0 ELSE 1
        /\ at' = "remove"
        /\ UNCHANGED <<call, queue, failures, outcome, calls>>
     \/ bin[tool] # "none" /\ UNCHANGED bin /\ Report(FALSE, TRUE, Nowhere)
  /\ UNCHANGED <<world, packages, tree>>

\* Mutant: rmtree ignores what it cannot remove.
RemoveTree_IgnoreErrors ==
  /\ at = "remove"
  /\ IF tree[tool] \in {"checkout", "foreign"}
     THEN /\ tree' \in {[tree EXCEPT ![tool] = left] : left \in {"none", tree[tool], "foreign"}}
          /\ built' = 1
     ELSE UNCHANGED <<tree, built>>
  /\ queue' = Inverses(tool) /\ at' = "route"
  /\ UNCHANGED <<world, packages, bin, call, failures, outcome, calls>>

\* rmtree of the source tree: it may end in the middle, with the tree no
\* checkout any more.
RemoveTree ==
  /\ at = "remove"
  /\ \/ /\ IF tree[tool] \in {"checkout", "foreign"}
           THEN tree' = [tree EXCEPT ![tool] = "none"] /\ built' = 1
           ELSE UNCHANGED <<tree, built>>
        /\ queue' = Inverses(tool) /\ at' = "route"
        /\ UNCHANGED <<call, failures, outcome, calls>>
     \/ /\ tree[tool] \in {"checkout", "foreign"}
        /\ tree' \in {tree, [tree EXCEPT ![tool] = "foreign"]}
        /\ Report(FALSE, TRUE, Nowhere) \/ Interrupted
  /\ UNCHANGED <<world, packages, bin>>

\* The inverse command of a package manager.
RunInverse ==
  /\ at = "route" /\ call.op = "uninstall" /\ queue # <<>>
  /\ LET m == queue[1]
         Removed ==
           /\ m \in packages[tool] \/ m \in Lenient
           /\ packages' = [packages EXCEPT ![tool] = @ \ {m}]
     IN  \/ Removed /\ Report(TRUE, TRUE, m)
         \/ (Removed \/ UNCHANGED packages) /\ (NextRoute \/ Interrupted)
  /\ UNCHANGED <<world, bin, tree>>

\* No package manager removed it: what was removed before decides.
EndUninstall ==
  /\ at = "route" /\ call.op = "uninstall" /\ queue = <<>>
  /\ Report(built = 1, built = 1 \/ Inverses(tool) # <<>>, Nowhere)
  /\ UNCHANGED <<world, disk>>

Next ==
  \/ Begin \/ CheckAvailable \/ RunPackageManager
  \/ PrepareSource \/ CloneSource \/ UpdateSource \/ BuildSource \/ GiveUp
  \/ RemoveBinary \/ RemoveTree \/ RunInverse \/ EndUninstall

Spec == Init /\ [][Next]_vars

-----------------------------------------------------------------------------
Doing == {"install", "clone", "fetch", "checkout", "build"}
Routed == Managers \union {Source}
Calls  ==
  [op : {"none", "install", "uninstall"}, source : BOOLEAN, todo : Seq(Tools)]
Reports ==
  [of : Calls, done : BOOLEAN, attempted : BOOLEAN, by : Routed \union {Nowhere},
   failures : Seq(Routed)]

(* The world, the disk, the command and its reports keep to their types
   (tools/installer.py). *)
TypeOK ==
  /\ path \in Paths
  /\ usable \in Usables
  /\ elsewhere \in [Tools -> Programs]
  /\ packages \in [Tools -> SUBSET Managers]
  /\ bin \in [Tools -> {"none", "own", "linked", "built", "broken"}]
  /\ tree \in [Tools -> {"none", "foreign", "file", "checkout"}]
  /\ call \in Calls
  /\ at \in Doing \union {"idle", "uninstall", "remove", "route"}
  /\ queue \in Seq(Routed) /\ failures \in Seq(Routed)
  /\ built \in Nat
  /\ outcome \in [Tools -> Reports]
  /\ calls \in Nat

(* A tool reported as installed is found by the next require_tool, if its
   program answers: whatever else of its name is on PATH before it, and with
   ManagedBin not on PATH.  For a package manager its directory must be on
   PATH, and a link must have found its name free. *)
InstalledIsFound ==
  \A t \in Tools :
    LET o == outcome[t] IN
    /\ o.of.op = "install" /\ o.done
    /\ o.by \in Linking => bin[t] = "linked"
    /\ o.by \in Managers \ Linking => o.by \in {path[i] : i \in DOMAIN path}
    => Require(t, Holds(t), path, DOMAIN Holds(t)).valid

(* The routes there are are tried in their order, the build from source
   first if the user asked for it, each once, until one works; an install
   fails only if each of them did, whatever state earlier commands left. *)
RoutesAreTriedInOrder ==
  \A t \in Tools :
    LET o == outcome[t]
        routes == Routes(t, o.of.source)
    IN  o.of.op = "install" =>
          IF o.done THEN o.by # Nowhere => IsPrefix(Append(o.failures, o.by), routes)
          ELSE o.failures = routes /\ (o.attempted <=> routes # <<>>)

(* A tool reported as removed has left no file that Blackline manages, and
   none of the package that was removed; otherwise something failed, or there
   was nothing that could be removed. *)
RemovedMeansGone ==
  \A t \in Tools :
    LET o == outcome[t]
        managed == bin[t] # "none" \/ tree[t] \in {"checkout", "foreign"}
    IN  o.of.op = "uninstall" =>
          /\ o.done => ~managed /\ (o.by \in Managers => o.by \notin packages[t])
          /\ managed => ~o.done /\ o.attempted
=============================================================================
