-------------------------- MODULE InstallerProofs ---------------------------
(***************************************************************************)
(* What holds of installing and removing for any tools, routes, package    *)
(* managers, contents of the directories and search paths, whatever fails  *)
(* or is ended in the middle.                                              *)
(***************************************************************************)
EXTENDS Installer, FiniteSetTheorems, SequenceTheorems, TLAPS

\* What the command at hand is doing, and for which tools yet.
Position ==
  /\ at = "idle" <=> call.op = "none"
  /\ at \in Doing => call.op = "install"
  /\ at \in {"uninstall", "remove"} => call.op = "uninstall"
  /\ call.op # "none" => call.todo # <<>>
  /\ IsInjective(call.todo)

\* The tools to come have no report, the others one of the command at hand.
Reported ==
  /\ \A i \in DOMAIN call.todo : outcome[call.todo[i]].of.op = "none"
  /\ call.op # "none" =>
       \A t \in Tools : outcome[t].of.op \in {"none", call.op}

\* The routes that failed and those to come are the routes there are.
Trying ==
  /\ at \in {"idle", "install", "uninstall", "remove"} => queue = <<>> /\ failures = <<>>
  /\ at \in Doing \ {"install"} => queue # <<>> /\ queue[1] = Source
  /\ at # "install" /\ call.op = "install" => failures \o queue = Routes(tool, call.source)

Managed(t) == bin[t] # "none" \/ tree[t] \in {"checkout", "foreign"}

\* What is gone of the tool that is removed.
Removing ==
  /\ at = "remove" => bin[tool] = "none"
  /\ at = "route" /\ call.op = "uninstall" => ~Managed(tool)

\* The three properties, of one tool.
Found(t) ==
  LET o == outcome[t] IN
  /\ o.of.op = "install" /\ o.done
  /\ o.by \in Linking => bin[t] = "linked"
  /\ o.by \in Managers \ Linking => o.by \in {path[i] : i \in DOMAIN path}
  => Require(t, Holds(t), path, DOMAIN Holds(t)).valid

InOrder(t) ==
  LET o == outcome[t]
      routes == Routes(t, o.of.source)
  IN  o.of.op = "install" =>
        IF o.done THEN o.by # Nowhere => IsPrefix(Append(o.failures, o.by), routes)
        ELSE o.failures = routes /\ (o.attempted <=> routes # <<>>)

Gone(t) ==
  LET o == outcome[t] IN
  o.of.op = "uninstall" =>
    /\ o.done => ~ Managed(t) /\ (o.by \in Managers => o.by \notin packages[t])
    /\ Managed(t) => ~ o.done /\ o.attempted

Truth(t) == Found(t) /\ InOrder(t) /\ Gone(t)

IInv ==
  /\ TypeOK /\ Position /\ Reported /\ Trying /\ Removing
  /\ \A t \in Tools : Truth(t)

-----------------------------------------------------------------------------
(* A selection from a sequence is a sequence of its elements: up to the
   n-th of the places kept there are n of them (installation_plans). *)
LEMMA KeepingType ==
  ASSUME NEW R, NEW seq \in Seq(R), NEW S
  PROVE  Keeping(seq, S) \in Seq(R \intersect S)
<1> DEFINE places  == {i \in DOMAIN seq : seq[i] \in S}
           rank(i) == Cardinality({j \in places : j <= i})
           ranks   == [i \in places |-> rank(i)]
           N       == Cardinality(places)
<1>1. DOMAIN seq = 1..Len(seq) /\ Len(seq) \in Nat
  OBVIOUS
<1>2. IsFiniteSet(places) /\ N \in Nat
  <2>1. IsFiniteSet(1..Len(seq)) /\ places \in SUBSET (1..Len(seq))
    BY <1>1, FS_Interval
  <2>2. IsFiniteSet(places)
    BY <2>1, FS_Subset
  <2> QED BY <2>2, FS_CardinalityType
<1>3. ASSUME NEW i \in places
      PROVE  rank(i) \in 1..N
  <2>1. {j \in places : j <= i} \in SUBSET places /\ i \in {j \in places : j <= i}
    BY <1>1
  <2>2. IsFiniteSet({j \in places : j <= i}) /\ rank(i) <= N
    BY <1>2, <2>1, FS_Subset
  <2>3. rank(i) \in Nat /\ rank(i) # 0
    BY <2>1, <2>2, FS_CardinalityType, FS_EmptySet
  <2> QED BY <1>2, <2>2, <2>3
<1>4. ASSUME NEW i \in places, NEW k \in places, rank(i) = rank(k)
      PROVE  i = k
  <2>1. ASSUME NEW m \in places, NEW n \in places, m < n, rank(m) = rank(n)
        PROVE  FALSE
    <3>1. {j \in places : j <= m} \in SUBSET {j \in places : j <= n}
      BY <1>1, <2>1
    <3>2. IsFiniteSet({j \in places : j <= n})
      BY <1>2, FS_Subset, {j \in places : j <= n} \in SUBSET places
    <3>3. {j \in places : j <= m} = {j \in places : j <= n}
      BY <2>1, <3>1, <3>2, FS_Subset
    <3>4. n \in {j \in places : j <= n} /\ n \notin {j \in places : j <= m}
      BY <1>1, <2>1
    <3> QED BY <3>3, <3>4
  <2>2. i < k \/ i = k \/ k < i
    BY <1>1
  <2> QED BY <1>4, <2>1, <2>2
<1>5. ranks \in Injection(places, 1..N)
  BY <1>3, <1>4 DEF Injection, IsInjective
<1>6. ranks \in Surjection(places, 1..N)
  <2>1. IsFiniteSet(1..N) /\ Cardinality(1..N) = N
    BY <1>2, FS_Interval
  <2> QED BY <1>5, <2>1, FS_Injection
<1>7. ASSUME NEW n \in 1..N
      PROVE  seq[CHOOSE i \in places : rank(i) = n] \in R \intersect S
  <2>1. \E i \in places : rank(i) = n
    BY <1>6 DEF Surjection
  <2>2. (CHOOSE i \in places : rank(i) = n) \in places
    BY <2>1
  <2> HIDE DEF rank
  <2> QED BY <2>2
<1>8. Keeping(seq, S) = [n \in 1..N |-> seq[CHOOSE i \in places : rank(i) = n]]
  BY DEF Keeping, AtPlaces
<1> DEFINE At(n) == seq[CHOOSE i \in places : rank(i) = n]
<1>9. /\ N \in Nat /\ \A n \in 1..N : At(n) \in R \intersect S
      /\ Keeping(seq, S) = [n \in 1..N |-> At(n)]
  BY <1>2, <1>7, <1>8
<1> HIDE DEF At, N
<1> QED BY <1>9

(* Nothing is left of a sequence exactly if nothing in it is kept
   (installation_plans). *)
LEMMA KeepingNothing ==
  ASSUME NEW R, NEW seq \in Seq(R), NEW S
  PROVE  Keeping(seq, S) = <<>> <=> \A i \in DOMAIN seq : seq[i] \notin S
<1> DEFINE places == {i \in DOMAIN seq : seq[i] \in S}
           N      == Cardinality(places)
           At(n)  == seq[CHOOSE i \in places : Cardinality({j \in places : j <= i}) = n]
<1>1. IsFiniteSet(1..Len(seq)) /\ places \in SUBSET (1..Len(seq))
  BY FS_Interval
<1>2. IsFiniteSet(places)
  BY <1>1, FS_Subset
<1>3. N \in Nat /\ (N = 0 <=> places = {})
  BY <1>2, FS_CardinalityType, FS_EmptySet
<1>4. Keeping(seq, S) = [n \in 1..N |-> At(n)]
  BY DEF Keeping, AtPlaces
<1>5. [n \in 1..N |-> At(n)] = <<>> <=> N = 0
  <2> HIDE DEF At, N
  <2> QED BY <1>3
<1> QED BY <1>3, <1>4, <1>5

(* What holds of no element of two sequences holds of none of both. *)
LEMMA ElementsOfBoth ==
  ASSUME NEW R, NEW a \in Seq(R), NEW b \in Seq(R), NEW S
  PROVE  (\A i \in DOMAIN (a \o b) : (a \o b)[i] \notin S) <=>
           /\ \A i \in DOMAIN a : a[i] \notin S
           /\ \A i \in DOMAIN b : b[i] \notin S
<1>1. ASSUME \A i \in DOMAIN (a \o b) : (a \o b)[i] \notin S, NEW i \in DOMAIN b
      PROVE  b[i] \notin S
  <2>1. Len(a) + i \in DOMAIN (a \o b) /\ (a \o b)[Len(a) + i] = b[i]
    OBVIOUS
  <2> QED BY <1>1, <2>1
<1>2. ASSUME \A i \in DOMAIN (a \o b) : (a \o b)[i] \notin S, NEW i \in DOMAIN a
      PROVE  a[i] \notin S
  <2>1. i \in DOMAIN (a \o b) /\ (a \o b)[i] = a[i]
    OBVIOUS
  <2> QED BY <1>2, <2>1
<1>3. ASSUME \A i \in DOMAIN a : a[i] \notin S, \A i \in DOMAIN b : b[i] \notin S,
             NEW i \in DOMAIN (a \o b)
      PROVE  (a \o b)[i] \notin S
  <2>1. i \in 1..(Len(a) + Len(b))
    BY <1>3, ConcatProperties, LenProperties
  <2>2. (a \o b)[i] = IF i <= Len(a) THEN a[i] ELSE b[i - Len(a)]
    BY <2>1, ConcatProperties
  <2>3. DOMAIN a = 1..Len(a) /\ DOMAIN b = 1..Len(b) /\ Len(a) \in Nat /\ Len(b) \in Nat
    OBVIOUS
  <2>4. CASE i <= Len(a)
    <3>1. i \in DOMAIN a
      BY <2>1, <2>3, <2>4
    <3> QED BY <1>3, <2>2, <2>4, <3>1
  <2>5. CASE ~ (i <= Len(a))
    <3>1. i - Len(a) \in DOMAIN b
      BY <2>1, <2>3, <2>5
    <3> QED BY <1>3, <2>2, <2>5, <3>1
  <2> QED BY <2>4, <2>5
<1> QED BY <1>1, <1>2, <1>3

(* The routes of a tool are package managers or the build from source, and
   those of an uninstallation package managers (installation_plans,
   source_build_plans, uninstallation_plans). *)
LEMMA RoutesType ==
  ASSUME NEW t \in Tools, NEW sourceFirst \in BOOLEAN
  PROVE  /\ Routes(t, sourceFirst) \in Seq(Routed)
         /\ Inverses(t) \in Seq(Managers)
         /\ Routes(t, TRUE) = <<>> <=> Routes(t, FALSE) = <<>>
<1>1. Packages[t] \in Seq(Managers)
  BY RoutesOfTools
<1>2. SourceRoutes(t) \in Seq({Source})
  <2>1. <<Source>> \in Seq({Source}) /\ <<>> \in Seq({Source})
    OBVIOUS
  <2> QED BY <2>1 DEF SourceRoutes
<1>3. ASSUME NEW R, NEW T, NEW s \in Seq(R), R \subseteq T
      PROVE  s \in Seq(T)
  BY <1>3, SeqMonotonic
<1>4. Packages[t] \in Seq(Routed) /\ SourceRoutes(t) \in Seq(Routed)
  BY <1>1, <1>2, <1>3 DEF Routed
<1> DEFINE one == SourceRoutes(t) \o Packages[t]
           two == Packages[t] \o SourceRoutes(t)
<1>5. one \in Seq(Routed) /\ two \in Seq(Routed)
  BY <1>4
<1>6. Routes(t, TRUE) = Keeping(one, usable) /\ Routes(t, FALSE) = Keeping(two, usable)
  BY DEF Routes, UsableOnly
<1>7. Keeping(one, usable) \in Seq(Routed \intersect usable) /\ Keeping(two, usable) \in Seq(Routed \intersect usable)
  BY <1>5, KeepingType
<1>8. Routes(t, sourceFirst) \in Seq(Routed)
  <2>1. Routed \intersect usable \subseteq Routed
    OBVIOUS
  <2>2. Keeping(one, usable) \in Seq(Routed) /\ Keeping(two, usable) \in Seq(Routed)
    BY <1>3, <1>7, <2>1
  <2> HIDE DEF one, two
  <2> QED BY <1>6, <2>2
<1>9. Inverses(t) \in Seq(Managers)
  <2>1. Keeping(Packages[t], usable) \in Seq(Managers \intersect usable)
    BY <1>1, KeepingType
  <2>2. Inverses(t) \in Seq((Managers \intersect usable) \intersect (Managers \ OneWay))
    BY <2>1, KeepingType DEF Inverses, UsableOnly
  <2> QED BY <1>3, <2>2
<1>10. (\A i \in DOMAIN one : one[i] \notin usable) <=> (\A i \in DOMAIN two : two[i] \notin usable)
  <2>1. (\A i \in DOMAIN one : one[i] \notin usable) <=>
           /\ \A i \in DOMAIN SourceRoutes(t) : SourceRoutes(t)[i] \notin usable
           /\ \A i \in DOMAIN Packages[t] : Packages[t][i] \notin usable
    BY <1>4, ElementsOfBoth
  <2>2. (\A i \in DOMAIN two : two[i] \notin usable) <=>
           /\ \A i \in DOMAIN SourceRoutes(t) : SourceRoutes(t)[i] \notin usable
           /\ \A i \in DOMAIN Packages[t] : Packages[t][i] \notin usable
    BY <1>4, ElementsOfBoth
  <2> QED BY <2>1, <2>2
<1>11. Routes(t, TRUE) = <<>> <=> Routes(t, FALSE) = <<>>
  BY <1>5, <1>6, <1>10, KeepingNothing
<1> QED BY <1>8, <1>9, <1>11

(* A tool is found if the program that is meant is in one of the directories
   and answers, whatever the others hold (Pathfinder.require). *)
LEMMA FoundIfThere ==
  ASSUME NEW t, NEW holds, NEW p, NEW i \in DOMAIN Directories(p),
         Directories(p)[i] \in DOMAIN holds, holds[Directories(p)[i]] = "right"
  PROVE  Require(t, holds, p, DOMAIN holds).valid
<1>1. i \in Candidates(holds, p)
  BY DEF Candidates
<1>2. IsValid(t, holds, Directories(p)[i], DOMAIN holds)
  BY DEF IsValid
<1> QED BY <1>1, <1>2 DEF Require

(* A tool that is found without an answer is found with one
   (validate_candidate). *)
LEMMA FoundByMore ==
  ASSUME NEW t, NEW holds, NEW p, NEW answering \in {{}, DOMAIN holds},
         Require(t, holds, p, answering).valid
  PROVE  Require(t, holds, p, DOMAIN holds).valid
<1>1. \E i \in Candidates(holds, p) : IsValid(t, holds, Directories(p)[i], answering)
  BY DEF Require
<1>2. \E i \in Candidates(holds, p) : IsValid(t, holds, Directories(p)[i], DOMAIN holds)
  BY <1>1 DEF IsValid
<1> QED BY <1>2 DEF Require

-----------------------------------------------------------------------------
\* What the command and its reports are: the part of TypeOK that no
\* directory is in.
ControlOK ==
  /\ call \in Calls
  /\ at \in Doing \union {"idle", "uninstall", "remove", "route"}
  /\ queue \in Seq(Routed) /\ failures \in Seq(Routed)
  /\ built \in Nat
  /\ outcome \in [Tools -> Reports]
  /\ calls \in Nat

Control == ControlOK /\ Position /\ Reported /\ Trying /\ Removing

(* A command at hand is for a tool, and its tools to come are others. *)
LEMMA ToolAtHand ==
  ASSUME IInv, call.op # "none"
  PROVE  /\ tool \in Tools /\ call.todo \in Seq(Tools) /\ call.todo # <<>>
         /\ outcome[tool].of.op = "none"
         /\ Tail(call.todo) \in Seq(Tools) /\ IsInjective(Tail(call.todo))
         /\ \A i \in DOMAIN Tail(call.todo) :
              Tail(call.todo)[i] # tool /\ outcome[Tail(call.todo)[i]].of.op = "none"
<1>1. call.todo \in Seq(Tools) /\ call.todo # <<>>
  BY DEF IInv, TypeOK, Calls, Position
<1>2. \A i \in DOMAIN Tail(call.todo) :
        /\ i + 1 \in DOMAIN call.todo /\ Tail(call.todo)[i] = call.todo[i + 1]
        /\ i \in Nat \ {0}
  BY <1>1
<1>3. 1 \in DOMAIN call.todo /\ tool \in Tools
  BY <1>1 DEF tool
<1>4. Tail(call.todo) \in Seq(Tools)
  BY <1>1
<1>5. IsInjective(call.todo)
  BY DEF IInv, Position
<1>6. \A i \in DOMAIN call.todo : outcome[call.todo[i]].of.op = "none"
  BY DEF IInv, Reported
<1>7. ASSUME NEW i \in DOMAIN Tail(call.todo), NEW j \in DOMAIN Tail(call.todo),
             Tail(call.todo)[i] = Tail(call.todo)[j]
      PROVE  i = j
  <2>1. i + 1 = j + 1
    BY <1>2, <1>5, <1>7 DEF IsInjective
  <2> QED BY <1>2, <2>1
<1>8. ASSUME NEW i \in DOMAIN Tail(call.todo)
      PROVE  Tail(call.todo)[i] # tool
  <2>1. i + 1 # 1
    BY <1>2
  <2> QED BY <1>2, <1>3, <1>5, <2>1 DEF IsInjective, tool
<1> QED BY <1>1, <1>2, <1>3, <1>4, <1>6, <1>7, <1>8 DEF IsInjective, tool

(* After a report the command is at the next tool, or over
   (handle_install, handle_uninstall). *)
LEMMA ReportStep ==
  ASSUME IInv, call.op # "none", NEW done \in BOOLEAN, NEW attempted \in BOOLEAN,
         NEW by \in Routed \union {Nowhere}, Report(done, attempted, by)
  PROVE  Control'
<1> DEFINE rest == Tail(call.todo)
           new  == [of |-> call, done |-> done, attempted |-> attempted, by |-> by,
                    failures |-> failures]
<1>1. /\ tool \in Tools /\ rest \in Seq(Tools) /\ IsInjective(rest)
      /\ \A i \in DOMAIN rest : rest[i] # tool /\ outcome[rest[i]].of.op = "none"
  BY ToolAtHand
<1>2. call \in Calls /\ failures \in Seq(Routed) /\ outcome \in [Tools -> Reports] /\ calls \in Nat
  BY DEF IInv, TypeOK
<1>3. new \in Reports
  BY <1>2 DEF Reports
<1>4. outcome' = [outcome EXCEPT ![tool] = new]
  BY DEF Report
<1>5. outcome' \in [Tools -> Reports] /\ outcome'[tool] = new
      /\ \A t \in Tools : t # tool => outcome'[t] = outcome[t]
  BY <1>1, <1>2, <1>3, <1>4
<1>6. queue' = <<>> /\ failures' = <<>> /\ built' = 0 /\ calls' = calls
  BY DEF Report
<1>7. \A t \in Tools : outcome[t].of.op \in {"none", call.op}
  BY DEF IInv, Reported
<1>8. CASE rest = <<>>
  <2>1. call' = NoCall /\ at' = "idle"
    BY <1>8 DEF Report
  <2>2. NoCall \in Calls /\ NoCall.op = "none" /\ NoCall.todo = <<>>
    BY DEF NoCall, Calls
  <2>3. ControlOK'
    BY <1>2, <1>5, <1>6, <2>1, <2>2 DEF ControlOK, Doing
  <2>4. Position' /\ Reported'
    BY <2>1, <2>2 DEF Position, Reported, Doing, IsInjective
  <2>5. Trying' /\ Removing'
    BY <1>6, <2>1, <2>2 DEF Trying, Removing, Doing
  <2> QED BY <2>3, <2>4, <2>5 DEF Control
<1>9. CASE rest # <<>>
  <2>1. call' = [call EXCEPT !.todo = rest] /\ at' = call.op
    BY <1>9 DEF Report
  <2>2. /\ call'.op = call.op /\ call'.todo = rest /\ call' \in Calls
        /\ call.op \in {"install", "uninstall"}
    BY <1>1, <1>2, <2>1 DEF Calls
  <2>3. ControlOK'
    BY <1>2, <1>5, <1>6, <2>1, <2>2 DEF ControlOK, Doing
  <2>4. Position'
    BY <1>1, <1>9, <2>1, <2>2 DEF Position, Doing
  <2>5. Reported'
    <3>1. \A i \in DOMAIN rest : outcome'[rest[i]].of.op = "none"
      BY <1>1, <1>5
    <3>2. new.of.op = call.op
      OBVIOUS
    <3> HIDE DEF rest, new
    <3> QED BY <1>5, <1>7, <2>2, <3>1, <3>2 DEF Reported
  <2>6. Trying' /\ Removing'
    BY <1>6, <2>1, <2>2 DEF Trying, Removing, Doing
  <2> QED BY <2>3, <2>4, <2>5, <2>6 DEF Control
<1> QED BY <1>8, <1>9

(* After an interruption no command is at hand (run_command). *)
LEMMA InterruptedStep ==
  ASSUME IInv, Interrupted
  PROVE  Control'
<1>1. /\ call' = NoCall /\ at' = "idle" /\ queue' = <<>> /\ failures' = <<>> /\ built' = 0
      /\ outcome' = outcome /\ calls' = calls
  BY DEF Interrupted
<1>2. NoCall \in Calls /\ NoCall.op = "none" /\ NoCall.todo = <<>>
  BY DEF NoCall, Calls
<1>3. ControlOK'
  BY <1>1, <1>2 DEF ControlOK, Doing, IInv, TypeOK
<1>4. Position' /\ Reported'
  BY <1>1, <1>2 DEF Position, Reported, Doing, IsInjective
<1>5. Trying' /\ Removing'
  BY <1>1, <1>2 DEF Trying, Removing, Doing
<1> QED BY <1>3, <1>4, <1>5 DEF Control

(* When a route fails, what was tried and what is to come are the same
   routes as before (_attempt_source_builds). *)
LEMMA NextRouteStep ==
  ASSUME IInv, call.op # "none", at \notin {"install", "uninstall", "remove"}, queue # <<>>,
         NextRoute, usable' = usable, call.op = "uninstall" => ~ Managed(tool)'
  PROVE  Control'
<1>1. /\ call' = call /\ outcome' = outcome /\ calls' = calls /\ at' = "route" /\ built' = 0
      /\ queue' = Tail(queue) /\ failures' = Append(failures, Head(queue))
  BY DEF NextRoute
<1>2. queue \in Seq(Routed) /\ failures \in Seq(Routed) /\ call \in Calls
  BY DEF IInv, TypeOK
<1>3. /\ queue' \in Seq(Routed) /\ failures' \in Seq(Routed)
      /\ failures' \o queue' = failures \o queue
  <2>1. queue' \in Seq(Routed) /\ Head(queue) \in Routed /\ failures' \in Seq(Routed)
    BY <1>1, <1>2
  <2>2. queue = <<Head(queue)>> \o Tail(queue)
    BY <1>2, SeqEqual
  <2>3. Append(failures, Head(queue)) = failures \o <<Head(queue)>>
    BY <1>2, <2>1, AppendIsConcat
  <2>4. <<Head(queue)>> \in Seq(Routed) /\ Tail(queue) \in Seq(Routed)
    BY <1>1, <2>1
  <2>5. (failures \o <<Head(queue)>>) \o Tail(queue) = failures \o (<<Head(queue)>> \o Tail(queue))
    BY <1>2, <2>4, ConcatAssociative
  <2> QED BY <1>1, <2>1, <2>2, <2>3, <2>5
<1>4. ControlOK'
  BY <1>1, <1>3 DEF ControlOK, IInv, TypeOK, Doing
<1>5. Position'
  <2>1. call.op \in {"install", "uninstall"}
    BY <1>2 DEF Calls
  <2> QED BY <1>1, <2>1 DEF Position, IInv, Doing
<1>6. Reported'
  BY <1>1 DEF Reported, IInv
<1>7. Trying'
  <2>1. Routes(tool, call.source)' = Routes(tool, call.source)
    BY <1>1 DEF Routes, UsableOnly, tool
  <2>2. at # "idle"
    BY DEF IInv, Position
  <2> QED BY <1>1, <1>3, <2>1, <2>2 DEF Trying, IInv, Doing
<1>8. Removing'
  BY <1>1 DEF Removing
<1> QED BY <1>4, <1>5, <1>6, <1>7, <1>8 DEF Control

(* Going on from one step of a build to the next changes nothing else
   (_install_from_source). *)
LEMMA GoOnStep ==
  ASSUME IInv, call.op = "install", at # "install", NEW to \in Doing \ {"install"}, GoOn(to), usable' = usable,
         queue # <<>>, queue[1] = Source
  PROVE  Control'
<1>1. /\ call' = call /\ outcome' = outcome /\ calls' = calls /\ at' = to
      /\ queue' = queue /\ failures' = failures /\ built' = built
  BY DEF GoOn
<1>2. Routes(tool, call.source)' = Routes(tool, call.source)
  BY <1>1 DEF Routes, UsableOnly, tool
<1>3. at # "idle"
  BY DEF IInv, Position
<1> QED BY <1>1, <1>2, <1>3 DEF Control, ControlOK, Position, Reported, Trying, Removing, IInv, TypeOK, Doing

-----------------------------------------------------------------------------
(* The properties are those of every tool. *)
LEMMA TruthOfAll ==
  InstalledIsFound /\ RoutesAreTriedInOrder /\ RemovedMeansGone <=> \A t \in Tools : Truth(t)
BY DEF InstalledIsFound, RoutesAreTriedInOrder, RemovedMeansGone, Truth, Found, InOrder, Gone, Managed

\* Only what the directories hold of the tool at hand changes.
OthersStay ==
  \A t \in Tools : t # tool =>
    packages'[t] = packages[t] /\ bin'[t] = bin[t] /\ tree'[t] = tree[t]

(* Of a tool without a report there is nothing to say. *)
LEMMA TruthOfNothing ==
  ASSUME NEW t \in Tools, outcome[t].of.op = "none"
  PROVE  Truth(t)
BY DEF Truth, Found, InOrder, Gone

(* What was reported of a tool stays true while others are at hand. *)
LEMMA TruthStays ==
  ASSUME IInv, call.op # "none", UNCHANGED world, OthersStay,
         NEW t \in Tools, outcome'[t] = outcome[t]
  PROVE  Truth(t)'
<1>1. CASE t = tool
  <2>1. outcome'[t].of.op = "none"
    BY <1>1, ToolAtHand
  <2> QED BY <2>1 DEF Truth, Found, InOrder, Gone
<1>2. CASE t # tool
  <2>1. packages'[t] = packages[t] /\ bin'[t] = bin[t] /\ tree'[t] = tree[t]
    BY <1>2 DEF OthersStay
  <2>2. path' = path /\ usable' = usable /\ elsewhere' = elsewhere
    BY DEF world
  <2>3. Holds(t)' = Holds(t)
    BY <2>1, <2>2 DEF Holds
  <2>4. Truth(t)
    BY DEF IInv
  <2>5. Found(t)'
    BY <2>1, <2>2, <2>3, <2>4 DEF Found, Truth
  <2>6. InOrder(t)'
    <3>1. \A f \in BOOLEAN : Routes(t, f)' = Routes(t, f)
      BY <2>2 DEF Routes, UsableOnly
    <3>2. outcome[t].of.source \in BOOLEAN
      BY DEF IInv, TypeOK, Reports, Calls
    <3> QED BY <2>4, <3>1, <3>2 DEF InOrder, Truth
  <2>7. Gone(t)'
    BY <2>1, <2>4 DEF Gone, Truth, Managed
  <2> QED BY <2>5, <2>6, <2>7 DEF Truth
<1> QED BY <1>1, <1>2

\* What the directories hold: the rest of TypeOK.
DiskOK ==
  /\ packages \in [Tools -> SUBSET Managers]
  /\ bin \in [Tools -> {"none", "own", "linked", "built", "broken"}]
  /\ tree \in [Tools -> {"none", "foreign", "file", "checkout"}]

(* A step without a report keeps the invariant if the command is where it
   may be. *)
LEMMA QuietStep ==
  ASSUME IInv, call.op # "none", UNCHANGED world, OthersStay, DiskOK', Control', outcome' = outcome
  PROVE  IInv'
<1>1. \A t \in Tools : Truth(t)'
  BY TruthStays
<1>2. TypeOK'
  BY DEF IInv, TypeOK, Control, ControlOK, DiskOK, world
<1> QED BY <1>1, <1>2 DEF IInv, Control

(* A step with a report keeps it if the report is true. *)
LEMMA TrueReport ==
  ASSUME IInv, call.op # "none", UNCHANGED world, OthersStay, DiskOK',
         NEW done \in BOOLEAN, NEW attempted \in BOOLEAN, NEW by \in Routed \union {Nowhere},
         Report(done, attempted, by), NEW t \in Tools, t = tool, Truth(t)'
  PROVE  IInv'
<1>1. Control'
  BY ReportStep
<1>2. \A u \in Tools : u # t => outcome'[u] = outcome[u]
  BY DEF Report, IInv, TypeOK
<1>3. \A u \in Tools : Truth(u)'
  BY <1>2, TruthStays
<1>4. TypeOK'
  BY <1>1 DEF IInv, TypeOK, Control, ControlOK, DiskOK, world
<1> QED BY <1>1, <1>3, <1>4 DEF IInv, Control

(* What the report of the tool at hand is. *)
LEMMA TheReport ==
  ASSUME IInv, call.op # "none", NEW done, NEW attempted, NEW by,
         Report(done, attempted, by), NEW t \in Tools, t = tool
  PROVE  outcome'[t] = [of |-> call, done |-> done, attempted |-> attempted, by |-> by,
                        failures |-> failures]
BY DEF Report, IInv, TypeOK

(* A route at hand and those that failed are the beginning of the routes. *)
LEMMA TriedSoFar ==
  ASSUME IInv, call.op = "install", at # "install", queue # <<>>
  PROVE  IsPrefix(Append(failures, queue[1]), Routes(tool, call.source))
<1> DEFINE routes == failures \o queue
<1>1. routes = Routes(tool, call.source)
  BY DEF IInv, Trying
<1>2. queue \in Seq(Routed) /\ failures \in Seq(Routed) /\ queue[1] \in Routed
  BY DEF IInv, TypeOK
<1>3. /\ Append(failures, queue[1]) \in Seq(Routed) /\ routes \in Seq(Routed)
      /\ Len(Append(failures, queue[1])) = Len(failures) + 1
      /\ Len(routes) >= Len(failures) + 1
      /\ \A i \in 1..(Len(failures) + 1) : Append(failures, queue[1])[i] = routes[i]
  BY <1>2
<1> DEFINE begun == Append(failures, queue[1])
<1>4. Len(begun) <= Len(routes)
  BY <1>2, <1>3
<1>5. SubSeq(begun, 1, Len(begun)) = SubSeq(routes, 1, Len(begun))
  <2> HIDE DEF begun, routes
  <2>1. begun \in Seq(Routed) /\ routes \in Seq(Routed) /\ Len(begun) \in Nat /\ Len(routes) \in Nat
    BY <1>3 DEF begun, routes
  <2>2. \A i \in 1..Len(begun) : begun[i] = routes[i]
    BY <1>3 DEF begun, routes
  <2> QED BY <1>4, <2>1, <2>2
<1> QED BY <1>1, <1>4, <1>5 DEF IsPrefix

(* A tool whose program is in ManagedBin is found, wherever that is on PATH,
   and one in the directory of its package manager if that is on PATH. *)
LEMMA FoundInPlace ==
  ASSUME NEW t, NEW holds, NEW p \in Paths, NEW d \in DOMAIN holds, holds[d] = "right",
         d = ManagedBin \/ d \in {p[i] : i \in DOMAIN p}
  PROVE  Require(t, holds, p, DOMAIN holds).valid
<1>1. p \in Seq(Managers \union {ManagedBin, Elsewhere})
  BY PlacesDiffer
<1>2. CASE d = ManagedBin
  <2>1. Len(p) + 1 \in DOMAIN Directories(p) /\ Directories(p)[Len(p) + 1] = ManagedBin
    BY <1>1 DEF Directories
  <2> QED BY <1>2, <2>1, FoundIfThere
<1>3. CASE d \in {p[i] : i \in DOMAIN p}
  <2>1. PICK i \in DOMAIN p : d = p[i]
    BY <1>3
  <2>2. i \in DOMAIN Directories(p) /\ Directories(p)[i] = d
    BY <1>1, <2>1 DEF Directories
  <2> QED BY <2>2, FoundIfThere
<1> QED BY <1>2, <1>3

-----------------------------------------------------------------------------
(* Before the first command nothing is at hand and nothing reported. *)
LEMMA InitInv == Init => IInv
<1> SUFFICES ASSUME Init PROVE IInv
  OBVIOUS
<1>1. /\ NoCall \in Calls /\ NoCall.op = "none" /\ NoCall.todo = <<>> /\ NoOutcome \in Reports
      /\ NoOutcome.of.op = "none"
  BY DEF NoCall, NoOutcome, Calls, Reports
<1>2. TypeOK
  BY <1>1 DEF Init, TypeOK, Doing
<1>3. Position /\ Reported /\ Trying /\ Removing
  BY <1>1 DEF Init, Position, Reported, Trying, Removing, Doing, IsInjective
<1>4. \A t \in Tools : Truth(t)
  BY <1>1, TruthOfNothing DEF Init
<1> QED BY <1>2, <1>3, <1>4 DEF IInv

(* A command begins with its first tool and no reports (handle_install,
   handle_uninstall). *)
LEMMA BeginStep == ASSUME IInv, Begin PROVE IInv'
<1>1. PICK op \in {"install", "uninstall"}, source \in BOOLEAN, todo \in {<<t>> : t \in Tools} \union {All} :
        call' = [op |-> op, source |-> source, todo |-> todo] /\ at' = op
  BY DEF Begin
<1>2. /\ at = "idle" /\ outcome' = [t \in Tools |-> NoOutcome] /\ calls' = calls + 1
      /\ UNCHANGED <<world, disk, queue, failures, built>>
  BY DEF Begin
<1>3. todo \in Seq(Tools) /\ todo # <<>> /\ IsInjective(todo)
  <2>1. CASE todo = All
    BY <2>1, AllIsAll
  <2>2. CASE todo \in {<<t>> : t \in Tools}
    <3>1. PICK t \in Tools : todo = <<t>>
      BY <2>2
    <3>2. \A i \in DOMAIN <<t>> : i = 1
      OBVIOUS
    <3> QED BY <3>1, <3>2 DEF IsInjective
  <2> QED BY <2>1, <2>2
<1>4. call' \in Calls /\ call'.op = op /\ call'.todo = todo
  BY <1>1, <1>3 DEF Calls
<1>5. NoOutcome \in Reports /\ NoOutcome.of.op = "none"
  BY DEF NoCall, NoOutcome, Calls, Reports
<1>6. outcome' \in [Tools -> Reports] /\ \A t \in Tools : outcome'[t].of.op = "none"
  BY <1>2, <1>5
<1>7. queue' = <<>> /\ failures' = <<>>
  BY <1>2 DEF IInv, Trying
<1>8. TypeOK'
  BY <1>1, <1>2, <1>4, <1>6 DEF IInv, TypeOK, Doing, world, disk
<1>9. Position' /\ Reported'
  <2>1. \A i \in DOMAIN todo : todo[i] \in Tools
    BY <1>3
  <2> QED BY <1>1, <1>3, <1>4, <1>6, <2>1 DEF Position, Reported, Doing
<1>10. Trying' /\ Removing'
  BY <1>1, <1>4, <1>7 DEF Trying, Removing, Doing
<1>11. \A t \in Tools : Truth(t)'
  BY <1>6 DEF Truth, Found, InOrder, Gone
<1> QED BY <1>8, <1>9, <1>10, <1>11 DEF IInv

(* A tool reported as available is found; otherwise its routes are tried
   (install_tool). *)
LEMMA CheckAvailableStep == ASSUME IInv, CheckAvailable PROVE IInv'
<1>1. at = "install" /\ call.op = "install" /\ UNCHANGED world /\ UNCHANGED disk
  BY DEF CheckAvailable, IInv, Position, Doing
<1>2. OthersStay /\ DiskOK'
  BY <1>1 DEF OthersStay, DiskOK, disk, IInv, TypeOK
<1>3. tool \in Tools
  BY <1>1, ToolAtHand
<1>4. PICK answering \in {{}, DOMAIN Holds(tool)} :
        IF Require(tool, Holds(tool), path, answering).valid
        THEN Report(TRUE, FALSE, Nowhere)
        ELSE /\ queue' = Routes(tool, call.source)
             /\ at' = "route"
             /\ UNCHANGED <<call, failures, built, outcome, calls>>
  BY DEF CheckAvailable
<1>5. CASE Require(tool, Holds(tool), path, answering).valid
  <2>1. Report(TRUE, FALSE, Nowhere)
    BY <1>4, <1>5
  <2>2. PICK t \in Tools : t = tool
    BY <1>3
  <2>3. Require(t, Holds(t), path, DOMAIN Holds(t)).valid
    <3>1. Require(t, Holds(t), path, answering).valid /\ answering \in {{}, DOMAIN Holds(t)}
      BY <1>5, <2>2
    <3> DEFINE holds == Holds(t)
    <3>2. Require(t, holds, path, answering).valid /\ answering \in {{}, DOMAIN holds}
      BY <3>1
    <3> HIDE DEF holds
    <3>3. Require(t, holds, path, DOMAIN holds).valid
      BY <3>2, FoundByMore
    <3> QED BY <3>3 DEF holds
  <2>4. Holds(t)' = Holds(t) /\ path' = path
    BY <1>1 DEF Holds, world, disk
  <2>5. outcome'[t] = [of |-> call, done |-> TRUE, attempted |-> FALSE, by |-> Nowhere, failures |-> failures]
    BY <1>1, <2>1, <2>2, TheReport
  <2>6. Truth(t)'
    BY <1>1, <2>3, <2>4, <2>5 DEF Truth, Found, InOrder, Gone
  <2> QED BY <1>1, <1>2, <2>1, <2>2, <2>6, TrueReport
<1>6. CASE ~ Require(tool, Holds(tool), path, answering).valid
  <2>1. /\ queue' = Routes(tool, call.source) /\ at' = "route"
        /\ UNCHANGED <<call, failures, built, outcome, calls>>
    BY <1>4, <1>6
  <2>2. call.source \in BOOLEAN /\ failures = <<>>
    BY <1>1 DEF IInv, TypeOK, Calls, Trying
  <2>3. queue' \in Seq(Routed)
    BY <1>3, <2>1, <2>2, RoutesType
  <2>4. Routes(tool, call.source)' = Routes(tool, call.source)
    BY <1>1, <2>1 DEF Routes, UsableOnly, tool, world
  <2>5. failures' \o queue' = Routes(tool, call.source)'
    BY <2>1, <2>2, <2>3, <2>4
  <2>6. ControlOK' /\ Position' /\ Reported'
    BY <1>1, <2>1, <2>3 DEF ControlOK, Position, Reported, IInv, TypeOK, Doing
  <2>7. Trying' /\ Removing'
    BY <1>1, <2>1, <2>5 DEF Trying, Removing, Doing
  <2> QED BY <1>1, <1>2, <2>1, <2>6, <2>7, QuietStep DEF Control
<1> QED BY <1>5, <1>6

(* A package that is reported as installed is there, and linked or in a
   directory of PATH it is found; if not, the next route is tried
   (install_tool). *)
LEMMA RunPackageManagerStep == ASSUME IInv, RunPackageManager PROVE IInv'
<1>1. /\ at = "route" /\ call.op = "install" /\ queue # <<>> /\ queue[1] # Source
      /\ UNCHANGED world /\ tree' = tree
  BY DEF RunPackageManager
<1>2. PICK t \in Tools : t = tool
  BY <1>1, ToolAtHand
<1> DEFINE m == queue[1]
           Installed ==
             /\ packages' = [packages EXCEPT ![tool] = @ \union {m}]
             /\ bin' = [bin EXCEPT ![tool] = IF m \in Linking /\ @ = "none" THEN "linked" ELSE @]
<1>3. /\ Installed \/ UNCHANGED <<packages, bin>>
      /\ \/ Installed /\ Report(TRUE, TRUE, m)
         \/ NextRoute \/ Interrupted
  BY DEF RunPackageManager
<1>4. m \in Managers
  BY <1>1 DEF IInv, TypeOK, Routed
<1>5. OthersStay /\ DiskOK'
  BY <1>1, <1>2, <1>3, <1>4 DEF OthersStay, DiskOK, IInv, TypeOK
<1>6. CASE Installed /\ Report(TRUE, TRUE, m)
  <2>1. outcome'[t] = [of |-> call, done |-> TRUE, attempted |-> TRUE, by |-> m, failures |-> failures]
    BY <1>1, <1>2, <1>6, TheReport
  <2>2. m \in packages'[t]
    BY <1>2, <1>6 DEF IInv, TypeOK
  <2>3. Found(t)'
    <3>1. path' \in Paths
      BY <1>1 DEF IInv, TypeOK, world
    <3>2. CASE m \in Linking
      <4>1. bin'[t] = "linked" => ManagedBin \in DOMAIN Holds(t)' /\ Holds(t)'[ManagedBin] = "right"
        BY PlacesDiffer DEF Holds
      <4>2. bin'[t] = "linked" => Require(t, Holds(t)', path', DOMAIN Holds(t)').valid
        BY <3>1, <4>1, FoundInPlace
      <4> QED BY <2>1, <3>2, <4>2 DEF Found
    <3>3. CASE m \notin Linking
      <4>1. m \in DOMAIN Holds(t)' /\ Holds(t)'[m] = "right"
        BY <1>4, <2>2, <3>3, PlacesDiffer DEF Holds
      <4>2. m \in {path'[i] : i \in DOMAIN path'} => Require(t, Holds(t)', path', DOMAIN Holds(t)').valid
        BY <3>1, <4>1, FoundInPlace
      <4> QED BY <1>4, <2>1, <3>3, <4>2 DEF Found
    <3> QED BY <3>2, <3>3
  <2>4. InOrder(t)'
    <3>1. IsPrefix(Append(failures, m), Routes(t, call.source))
      BY <1>1, <1>2, TriedSoFar
    <3>2. \A f \in BOOLEAN : Routes(t, f)' = Routes(t, f)
      BY <1>1 DEF Routes, UsableOnly, world
    <3>3. call.source \in BOOLEAN
      BY DEF IInv, TypeOK, Calls
    <3> QED BY <2>1, <3>1, <3>2, <3>3 DEF InOrder
  <2>5. Gone(t)'
    BY <1>1, <2>1 DEF Gone
  <2> QED BY <1>1, <1>2, <1>4, <1>5, <1>6, <2>3, <2>4, <2>5, TrueReport DEF Truth, Routed
<1>7. CASE NextRoute
  <2>1. Control'
    BY <1>1, <1>7, NextRouteStep DEF world
  <2> QED BY <1>1, <1>5, <1>7, <2>1, QuietStep DEF NextRoute
<1>8. CASE Interrupted
  <2>1. Control'
    BY <1>8, InterruptedStep
  <2> QED BY <1>1, <1>5, <1>8, <2>1, QuietStep DEF Interrupted
<1> QED BY <1>3, <1>6, <1>7, <1>8

(* A route that fails, or ends with the shell, leaves at worst something at
   the places of its own tool (_attempt_source_builds, run_command). *)
LEMMA FailedOrEnded ==
  ASSUME IInv, call.op = "install", at # "install", queue # <<>>, UNCHANGED world, OthersStay, DiskOK',
         NextRoute \/ Interrupted
  PROVE  IInv'
<1>1. Control'
  BY NextRouteStep, InterruptedStep, usable' = usable, at \notin {"uninstall", "remove"}
     DEF world, IInv, Position
<1> QED BY <1>1, QuietStep DEF NextRoute, Interrupted

(* Preparing, cloning and updating the source change no more than the tree
   (_install_from_source). *)
LEMMA SourceStep == ASSUME IInv, PrepareSource \/ CloneSource \/ UpdateSource PROVE IInv'
<1>1. /\ call.op = "install" /\ at # "install" /\ queue # <<>> /\ queue[1] = Source
      /\ UNCHANGED world /\ packages' = packages /\ bin' = bin
  BY DEF PrepareSource, CloneSource, UpdateSource, IInv, Position, Trying, Doing, disk
<1>2. PICK t \in Tools : t = tool
  BY <1>1, ToolAtHand
<1>3. tree' = tree \/ tree' = [tree EXCEPT ![tool] = "checkout"]
  BY DEF PrepareSource, CloneSource, UpdateSource, disk
<1>4. OthersStay /\ DiskOK'
  BY <1>1, <1>2, <1>3 DEF OthersStay, DiskOK, IInv, TypeOK
<1>5. NextRoute \/ Interrupted \/ \E to \in Doing \ {"install"} : GoOn(to)
  BY DEF PrepareSource, CloneSource, UpdateSource, Doing
<1>6. CASE \E to \in Doing \ {"install"} : GoOn(to)
  <2>1. Control'
    BY <1>1, <1>6, GoOnStep DEF world
  <2> QED BY <1>1, <1>4, <1>6, <2>1, QuietStep DEF GoOn
<1> QED BY <1>1, <1>4, <1>5, <1>6, FailedOrEnded

(* The last command of a build that is reported as done has written the
   executable into ManagedBin (_install_from_source). *)
LEMMA BuildSourceStep == ASSUME IInv, BuildSource PROVE IInv'
<1>1. /\ at = "build" /\ call.op = "install" /\ queue # <<>> /\ queue[1] = Source
      /\ UNCHANGED world /\ packages' = packages /\ tree' = tree
  BY DEF BuildSource, IInv, Position, Trying, Doing
<1>2. PICK t \in Tools : t = tool
  BY <1>1, ToolAtHand
<1>3. \/ bin' = [bin EXCEPT ![tool] = "built"] /\ Report(TRUE, TRUE, Source)
      \/ built' = built + 1 /\ UNCHANGED <<bin, call, at, queue, failures, outcome, calls>>
      \/ /\ bin' = bin \/ bin' = [bin EXCEPT ![tool] = "broken"]
         /\ NextRoute \/ Interrupted
  BY DEF BuildSource
<1>4. CASE bin' = [bin EXCEPT ![tool] = "built"] /\ Report(TRUE, TRUE, Source)
  <2>1. OthersStay /\ DiskOK' /\ bin'[t] = "built"
    BY <1>1, <1>2, <1>4 DEF OthersStay, DiskOK, IInv, TypeOK
  <2>2. outcome'[t] = [of |-> call, done |-> TRUE, attempted |-> TRUE, by |-> Source, failures |-> failures]
    BY <1>1, <1>2, <1>4, TheReport
  <2>3. ManagedBin \in DOMAIN Holds(t)' /\ Holds(t)'[ManagedBin] = "right"
    BY <2>1, PlacesDiffer DEF Holds
  <2>4. path' \in Paths
    BY <1>1 DEF IInv, TypeOK, world
  <2>5. Found(t)'
    BY <2>3, <2>4, FoundInPlace DEF Found
  <2>6. InOrder(t)'
    <3>1. IsPrefix(Append(failures, Source), Routes(t, call.source))
      BY <1>1, <1>2, TriedSoFar
    <3>2. \A f \in BOOLEAN : Routes(t, f)' = Routes(t, f)
      BY <1>1 DEF Routes, UsableOnly, world
    <3>3. call.source \in BOOLEAN
      BY DEF IInv, TypeOK, Calls
    <3> QED BY <2>2, <3>1, <3>2, <3>3 DEF InOrder
  <2>7. Gone(t)'
    BY <1>1, <2>2 DEF Gone
  <2> QED BY <1>1, <1>2, <1>4, <2>1, <2>5, <2>6, <2>7, TrueReport DEF Truth, Routed
<1>5. CASE built' = built + 1 /\ UNCHANGED <<bin, call, at, queue, failures, outcome, calls>>
  <2>1. OthersStay /\ DiskOK'
    BY <1>1, <1>5 DEF OthersStay, DiskOK, IInv, TypeOK
  <2>2. Routes(tool, call.source)' = Routes(tool, call.source)
    BY <1>1, <1>5 DEF Routes, UsableOnly, tool, world
  <2>3. Control'
    BY <1>1, <1>5, <2>2 DEF Control, ControlOK, Position, Reported, Trying, Removing, IInv, TypeOK, Doing
  <2> QED BY <1>1, <1>5, <2>1, <2>3, QuietStep
<1>6. CASE /\ bin' = bin \/ bin' = [bin EXCEPT ![tool] = "broken"]
           /\ NextRoute \/ Interrupted
  <2>1. OthersStay /\ DiskOK'
    BY <1>1, <1>2, <1>6 DEF OthersStay, DiskOK, IInv, TypeOK
  <2> QED BY <1>1, <1>6, <2>1, FailedOrEnded
<1> QED BY <1>3, <1>4, <1>5, <1>6

(* An installation is given up when every route there is has failed
   (install_tool). *)
LEMMA GiveUpStep == ASSUME IInv, GiveUp PROVE IInv'
<1>1. /\ at = "route" /\ call.op = "install" /\ queue = <<>>
      /\ Report(FALSE, Routes(tool, FALSE) # <<>>, Nowhere)
      /\ UNCHANGED world /\ UNCHANGED disk
  BY DEF GiveUp
<1>2. PICK t \in Tools : t = tool
  BY <1>1, ToolAtHand
<1>3. OthersStay /\ DiskOK'
  BY <1>1 DEF OthersStay, DiskOK, disk, IInv, TypeOK
<1> DEFINE attempted == Routes(tool, FALSE) # <<>>
<1>4. outcome'[t] = [of |-> call, done |-> FALSE, attempted |-> attempted, by |-> Nowhere, failures |-> failures]
  BY <1>1, <1>2, TheReport
<1>5. call.source \in BOOLEAN /\ failures \in Seq(Routed)
  BY DEF IInv, TypeOK, Calls
<1>6. failures = Routes(t, call.source)
  BY <1>1, <1>2, <1>5 DEF IInv, Trying
<1>7. attempted <=> Routes(t, call.source) # <<>>
  BY <1>2, <1>5, RoutesType
<1>8. \A f \in BOOLEAN : Routes(t, f)' = Routes(t, f)
  BY <1>1 DEF Routes, UsableOnly, world
<1>9. Truth(t)'
  <2> HIDE DEF attempted
  <2> QED BY <1>1, <1>4, <1>5, <1>6, <1>7, <1>8 DEF Truth, Found, InOrder, Gone
<1> QED BY <1>1, <1>2, <1>3, <1>9, TrueReport

(* A removal that cannot unlink the file in ManagedBin says so
   (_remove_managed_source). *)
LEMMA RemoveBinaryStep == ASSUME IInv, RemoveBinary PROVE IInv'
<1>1. /\ at = "uninstall" /\ call.op = "uninstall" /\ queue = <<>> /\ failures = <<>>
      /\ UNCHANGED world /\ packages' = packages /\ tree' = tree
  BY DEF RemoveBinary, IInv, Position, Trying
<1>2. PICK t \in Tools : t = tool
  BY <1>1, ToolAtHand
<1>3. CASE /\ bin' = [bin EXCEPT ![tool] = "none"]
           /\ built' = IF bin[tool] = "none" THEN 0 ELSE 1
           /\ at' = "remove"
           /\ UNCHANGED <<call, queue, failures, outcome, calls>>
  <2>1. OthersStay /\ DiskOK' /\ bin'[t] = "none"
    BY <1>1, <1>2, <1>3 DEF OthersStay, DiskOK, IInv, TypeOK
  <2>2. tool' = t
    BY <1>2, <1>3 DEF tool
  <2>3. ControlOK' /\ Position' /\ Reported'
    BY <1>1, <1>3 DEF ControlOK, Position, Reported, IInv, TypeOK, Doing
  <2>4. Trying' /\ Removing'
    BY <1>1, <1>3, <2>1, <2>2 DEF Trying, Removing, Doing
  <2> QED BY <1>1, <1>3, <2>1, <2>3, <2>4, QuietStep DEF Control
<1>4. CASE UNCHANGED bin /\ Report(FALSE, TRUE, Nowhere)
  <2>1. OthersStay /\ DiskOK'
    BY <1>1, <1>4 DEF OthersStay, DiskOK, IInv, TypeOK
  <2>2. outcome'[t] = [of |-> call, done |-> FALSE, attempted |-> TRUE, by |-> Nowhere, failures |-> failures]
    BY <1>1, <1>2, <1>4, TheReport
  <2>3. Truth(t)'
    BY <1>1, <2>2 DEF Truth, Found, InOrder, Gone
  <2> QED BY <1>1, <1>2, <1>4, <2>1, <2>3, TrueReport
<1> QED BY <1>3, <1>4 DEF RemoveBinary

(* The inverse commands are tried when neither file nor tree is left; a tree
   that cannot be removed is reported (_remove_managed_source). *)
LEMMA RemoveTreeStep == ASSUME IInv, RemoveTree PROVE IInv'
<1>1. /\ at = "remove" /\ call.op = "uninstall" /\ queue = <<>> /\ failures = <<>> /\ bin[tool] = "none"
      /\ UNCHANGED world /\ packages' = packages /\ bin' = bin
  BY DEF RemoveTree, IInv, Position, Trying, Removing
<1>2. PICK t \in Tools : t = tool
  BY <1>1, ToolAtHand
<1>3. CASE /\ IF tree[tool] \in {"checkout", "foreign"}
              THEN tree' = [tree EXCEPT ![tool] = "none"] /\ built' = 1
              ELSE UNCHANGED <<tree, built>>
           /\ queue' = Inverses(tool) /\ at' = "route"
           /\ UNCHANGED <<call, failures, outcome, calls>>
  <2>1. OthersStay /\ DiskOK' /\ tree'[t] \notin {"checkout", "foreign"}
    BY <1>1, <1>2, <1>3 DEF OthersStay, DiskOK, IInv, TypeOK
  <2>2. tool' = t /\ ~ Managed(t)'
    BY <1>1, <1>2, <1>3, <2>1 DEF tool, Managed
  <2>3. queue' \in Seq(Routed)
    <3>1. queue' \in Seq(Managers)
      BY <1>2, <1>3, RoutesType
    <3> QED BY <3>1, SeqMonotonic, Managers \subseteq Routed DEF Routed
  <2>4. built' \in Nat
    BY <1>3 DEF IInv, TypeOK
  <2>5. ControlOK' /\ Position' /\ Reported'
    BY <1>1, <1>3, <2>3, <2>4 DEF ControlOK, Position, Reported, IInv, TypeOK, Doing
  <2>6. Trying' /\ Removing'
    BY <1>1, <1>3, <2>2 DEF Trying, Removing, Doing, Managed
  <2> QED BY <1>1, <1>3, <2>1, <2>5, <2>6, QuietStep DEF Control
<1>4. CASE /\ tree' \in {tree, [tree EXCEPT ![tool] = "foreign"]}
           /\ Report(FALSE, TRUE, Nowhere) \/ Interrupted
  <2>1. OthersStay /\ DiskOK'
    BY <1>1, <1>2, <1>4 DEF OthersStay, DiskOK, IInv, TypeOK
  <2>2. CASE Interrupted
    BY <1>1, <2>1, <2>2, InterruptedStep, QuietStep DEF Interrupted
  <2>3. CASE Report(FALSE, TRUE, Nowhere)
    <3>1. outcome'[t] = [of |-> call, done |-> FALSE, attempted |-> TRUE, by |-> Nowhere, failures |-> failures]
      BY <1>1, <1>2, <2>3, TheReport
    <3>2. Truth(t)'
      BY <1>1, <3>1 DEF Truth, Found, InOrder, Gone
    <3> QED BY <1>1, <1>2, <2>1, <2>3, <3>2, TrueReport
  <2> QED BY <1>4, <2>2, <2>3
<1> QED BY <1>3, <1>4 DEF RemoveTree

(* A package reported as removed is gone; if its command fails the next one
   is tried (uninstall_tool). *)
LEMMA RunInverseStep == ASSUME IInv, RunInverse PROVE IInv'
<1>1. /\ at = "route" /\ call.op = "uninstall" /\ queue # <<>>
      /\ UNCHANGED world /\ bin' = bin /\ tree' = tree
  BY DEF RunInverse
<1>2. PICK t \in Tools : t = tool
  BY <1>1, ToolAtHand
<1>3. ~ Managed(t) /\ ~ Managed(t)' /\ queue[1] \in Routed
  BY <1>1, <1>2 DEF IInv, TypeOK, Removing, Managed
<1> DEFINE m == queue[1]
           Removed == packages' = [packages EXCEPT ![tool] = @ \ {m}]
<1>4. /\ Removed \/ packages' = packages
      /\ \/ Removed /\ Report(TRUE, TRUE, m)
         \/ NextRoute \/ Interrupted
  BY DEF RunInverse
<1>5. OthersStay /\ DiskOK'
  BY <1>1, <1>2, <1>4 DEF OthersStay, DiskOK, IInv, TypeOK
<1>6. CASE Removed /\ Report(TRUE, TRUE, m)
  <2>1. outcome'[t] = [of |-> call, done |-> TRUE, attempted |-> TRUE, by |-> m, failures |-> failures]
    BY <1>1, <1>2, <1>6, TheReport
  <2>2. m \notin packages'[t]
    BY <1>2, <1>6 DEF IInv, TypeOK
  <2>3. Truth(t)'
    BY <1>1, <1>3, <2>1, <2>2 DEF Truth, Found, InOrder, Gone
  <2> QED BY <1>1, <1>2, <1>3, <1>5, <1>6, <2>3, TrueReport
<1>7. CASE NextRoute
  <2>1. tool' = t
    BY <1>2, <1>7 DEF NextRoute, tool
  <2>2. ~ Managed(tool)'
    BY <1>3, <2>1 DEF Managed
  <2>3. Control'
    BY <1>1, <1>7, <2>2, NextRouteStep DEF world
  <2> QED BY <1>1, <1>5, <1>7, <2>3, QuietStep DEF NextRoute
<1>8. CASE Interrupted
  BY <1>1, <1>5, <1>8, InterruptedStep, QuietStep DEF Interrupted
<1> QED BY <1>4, <1>6, <1>7, <1>8

(* A removal without a package ends with nothing managed left
   (uninstall_tool). *)
LEMMA EndUninstallStep == ASSUME IInv, EndUninstall PROVE IInv'
<1> DEFINE attempted == built = 1 \/ Inverses(tool) # <<>>
           done      == built = 1
<1>1. /\ at = "route" /\ call.op = "uninstall" /\ Report(done, attempted, Nowhere)
      /\ UNCHANGED world /\ UNCHANGED disk
  BY DEF EndUninstall
<1>2. PICK t \in Tools : t = tool
  BY <1>1, ToolAtHand
<1>3. ~ Managed(t)'
  BY <1>1, <1>2 DEF IInv, Removing, Managed, disk
<1>4. OthersStay /\ DiskOK'
  BY <1>1 DEF OthersStay, DiskOK, disk, IInv, TypeOK
<1>5. outcome'[t] = [of |-> call, done |-> done, attempted |-> attempted, by |-> Nowhere, failures |-> failures]
  BY <1>1, <1>2, TheReport
<1>6. Truth(t)'
  <2> HIDE DEF attempted, done
  <2> QED BY <1>1, <1>3, <1>5, PlacesDiffer DEF Truth, Found, InOrder, Gone
<1>7. done \in BOOLEAN /\ attempted \in BOOLEAN
  OBVIOUS
<1> HIDE DEF attempted, done
<1> QED BY <1>1, <1>2, <1>4, <1>6, <1>7, TrueReport

(* Every step keeps the invariant. *)
LEMMA StepInv == IInv /\ [Next]_vars => IInv'
<1> SUFFICES ASSUME IInv, [Next]_vars PROVE IInv'
  OBVIOUS
<1>1. CASE UNCHANGED vars
  <2>1. /\ UNCHANGED world /\ UNCHANGED disk /\ call' = call /\ at' = at /\ queue' = queue
        /\ failures' = failures /\ built' = built /\ outcome' = outcome /\ calls' = calls
    BY <1>1 DEF vars, world, disk
  <2>2. \A t \in Tools : Holds(t)' = Holds(t) /\ \A f : Routes(t, f)' = Routes(t, f)
    BY <2>1 DEF Holds, Routes, UsableOnly, world, disk
  <2>3. tool' = tool /\ Routes(tool, call.source)' = Routes(tool, call.source)
    BY <2>1 DEF Routes, UsableOnly, tool, world
  <2>4. TypeOK' /\ Position' /\ Reported'
    BY <2>1 DEF IInv, TypeOK, Position, Reported, world, disk
  <2>5. Trying' /\ Removing'
    BY <2>1, <2>3 DEF IInv, Trying, Removing, Managed, disk
  <2>6. \A t \in Tools : Truth(t)'
    BY <2>1, <2>2 DEF IInv, Truth, Found, InOrder, Gone, Managed, world, disk
  <2> QED BY <2>4, <2>5, <2>6 DEF IInv
<1> QED BY <1>1, BeginStep, CheckAvailableStep, RunPackageManagerStep, SourceStep, BuildSourceStep,
           GiveUpStep, RemoveBinaryStep, RemoveTreeStep, RunInverseStep, EndUninstallStep DEF Next

LEMMA Invariance == Spec => []IInv
BY InitInv, StepInv, PTL DEF Spec

-----------------------------------------------------------------------------
(* The directories, the command and its reports keep to their types
   (tools/installer.py). *)
THEOREM TypeCorrect == Spec => []TypeOK
<1>1. IInv => TypeOK
  BY DEF IInv
<1> QED BY <1>1, Invariance, PTL

(* A tool reported as installed is found by the next require_tool, whatever
   else of its name is on PATH (install_tool, Pathfinder.require). *)
THEOREM ReportsAreFound == Spec => []InstalledIsFound
<1>1. IInv => InstalledIsFound
  BY TruthOfAll DEF IInv
<1> QED BY <1>1, Invariance, PTL

(* Routes are tried in their order, each once, and an install fails only if
   each of them did (install_tool). *)
THEOREM RoutesInOrder == Spec => []RoutesAreTriedInOrder
<1>1. IInv => RoutesAreTriedInOrder
  BY TruthOfAll DEF IInv
<1> QED BY <1>1, Invariance, PTL

(* A tool reported as removed has left nothing that Blackline manages, and a
   removal that left something says that it failed (uninstall_tool). *)
THEOREM RemovalsAreTrue == Spec => []RemovedMeansGone
<1>1. IInv => RemovedMeansGone
  BY TruthOfAll DEF IInv
<1> QED BY <1>1, Invariance, PTL
=============================================================================
