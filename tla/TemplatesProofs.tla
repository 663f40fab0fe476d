-------------------------- MODULE TemplatesProofs --------------------------
(***************************************************************************)
(* What holds of the template registry for every set of sources, whatever  *)
(* they hold and however often they are edited, the file cannot be written *)
(* or the shell is started again; and of CLT, in which the templates are   *)
(* written, for sources of any length, depth and number of conditions.     *)
(***************************************************************************)
EXTENDS Templates, Clt, FiniteSetTheorems, SequenceTheorems, TLAPS

(***************************************************************************)
(* The inductive invariant.  AtWork: what the position of a command says   *)
(* of the template at hand.  Compilations: where a compilation comes from. *)
(* InStep: memory and file agree except before a write, or after one that  *)
(* failed.  Kept: acknowledged registrations are in both.                  *)
(***************************************************************************)
AtWork ==
  /\ at # "prompt" => report = Nothing
  /\ at = "persist" \/ command \in {"load", "edited"} => name \in Registered
  /\ at = "refresh" /\ todo = {} /\ command \in {"use", "edit", "run"} => name \in Registered
  /\ command = "load" => todo = {}
  /\ at \in {"down", "prompt"} => command = "none" /\ name = Nothing /\ todo = {}

Compilations ==
  \A n \in Registered : memory[n].compiled # Nothing =>
    /\ memory[n].compiled = recent[n]
    /\ memory[n].status = "loaded" => memory[n].hash = memory[n].compiled

InStep ==
  /\ \A n \in Names : disk[n] = Stored(disk[n])
  /\ at \notin {"down", "persist"} /\ ~unsaved => \A n \in Names : disk[n] = Stored(memory[n])
  /\ at = "refresh" /\ command = "load" => ~unsaved

Kept ==
  \A n \in Names : loaded[n] # Nothing =>
    /\ disk[n] # Nothing /\ disk[n].path = loaded[n]
    /\ at # "down" => memory[n] # Nothing /\ memory[n].path = loaded[n]

IInv == TypeOK /\ AtWork /\ Compilations /\ InStep /\ Kept

-----------------------------------------------------------------------------
\* What is written of a template.
LEMMA StoredTemplate ==
  ASSUME NEW t \in Records
  PROVE  /\ Stored(t) \in Records /\ Stored(t) # Nothing
         /\ Stored(t).path = t.path /\ Stored(t).compiled = Nothing
         /\ Stored(Stored(t)) = Stored(t)
<1>1. t # Nothing
  BY NothingIsNoTemplate
<1>2. Stored(t) = [t EXCEPT !.compiled = Nothing]
  BY <1>1 DEF Stored
<1>3. /\ [t EXCEPT !.compiled = Nothing] \in Records
      /\ [t EXCEPT !.compiled = Nothing].path = t.path
      /\ [t EXCEPT !.compiled = Nothing].compiled = Nothing
      /\ [[t EXCEPT !.compiled = Nothing] EXCEPT !.compiled = Nothing] = [t EXCEPT !.compiled = Nothing]
  BY DEF Records
<1>4. [t EXCEPT !.compiled = Nothing] # Nothing
  BY <1>3, NothingIsNoTemplate
<1> QED
  BY <1>2, <1>3, <1>4 DEF Stored

LEMMA StoredType ==
  ASSUME NEW t \in Records \union {Nothing}
  PROVE  /\ Stored(t) \in Records \union {Nothing}
         /\ Stored(Stored(t)) = Stored(t)
         /\ Stored(t) = Nothing <=> t = Nothing
         /\ t # Nothing => Stored(t).path = t.path /\ Stored(t).compiled = Nothing
BY StoredTemplate DEF Stored

LEMMA LoadedType ==
  ASSUME NEW p \in Paths, NEW c \in Valid
  PROVE  Loaded(p, c) \in Records /\ Loaded(p, c) # Nothing
<1>1. Loaded(p, c) \in Records
  BY DEF Loaded, Records, Contents
<1> QED
  BY <1>1, NothingIsNoTemplate

LEMMA NamesAreNames == \A p \in Paths : NameOf[p] \in Names
BY DEF Names

-----------------------------------------------------------------------------
LEMMA InitInv == Init => IInv
<1> SUFFICES ASSUME Init PROVE IInv
  OBVIOUS
<1> USE DEF Init, Nowhere
<1>1. TypeOK
  <2>1. 0 \in 0 .. MaxEdits /\ 0 \in 0 .. MaxFailures /\ 0 \in 0 .. MaxStarts
    BY BoundsAreNumbers
  <2> QED BY <2>1 DEF TypeOK
<1>2. AtWork
  BY DEF AtWork
<1>3. Compilations
  BY DEF Compilations, Registered
<1>4. InStep
  BY DEF InStep, Stored
<1>5. Kept
  BY DEF Kept
<1> QED
  BY <1>1, <1>2, <1>3, <1>4, <1>5 DEF IInv

LEMMA StartInv ==
  ASSUME IInv, Start
  PROVE  IInv'
<1> USE DEF IInv, Start
<1>1. ASSUME NEW n \in Names, disk[n] # Nothing PROVE disk[n].compiled = Nothing
  <2>1. disk[n] \in Records /\ disk[n] = Stored(disk[n])
    BY <1>1 DEF TypeOK, InStep
  <2>2. Stored(disk[n]).compiled = Nothing
    BY <2>1, StoredTemplate
  <2> QED BY <2>1, <2>2
<1>2. TypeOK'
  BY BoundsAreNumbers DEF TypeOK, AtWork, Registered
<1>3. AtWork'
  BY DEF AtWork, Registered
<1>4. Compilations'
  BY <1>1 DEF Compilations, Registered
<1>5. InStep'
  BY DEF InStep
<1>6. Kept'
  BY DEF Kept
<1> QED
  BY <1>2, <1>3, <1>4, <1>5, <1>6

\* Memory is changed, or the shell is left.
LEMMA StopInv ==
  ASSUME IInv, Stop
  PROVE  IInv'
<1> USE DEF IInv, Stop, Nowhere
<1>1. TypeOK'
  BY DEF TypeOK, Registered
<1>2. AtWork'
  BY DEF AtWork
<1>3. Compilations'
  BY DEF Compilations, Registered
<1>4. InStep'
  BY DEF InStep
<1>5. Kept'
  BY DEF Kept
<1> QED
  BY <1>1, <1>2, <1>3, <1>4, <1>5

LEMMA EditInv ==
  ASSUME IInv, Edit
  PROVE  IInv'
<1> USE DEF IInv, Edit
<1>1. TypeOK'
  <2>1. edits \in 0 .. MaxEdits /\ edits < MaxEdits /\ edits' = edits + 1 /\ MaxEdits \in Nat
    BY BoundsAreNumbers DEF TypeOK
  <2>2. edits' \in 0 .. MaxEdits
    BY <2>1
  <2>3. source' \in [Paths -> Contents]
    BY DEF TypeOK
  <2> QED BY <2>2, <2>3 DEF TypeOK, Registered
<1>2. AtWork' /\ Compilations' /\ InStep' /\ Kept'
  BY DEF AtWork, Compilations, InStep, Kept, Registered
<1> QED
  BY <1>1, <1>2

\* A template is loaded: registered, or compiled anew.
LEMMA LoadInv ==
  ASSUME IInv, Load
  PROVE  IInv'
<1> USE DEF IInv
<1>1. PICK p \in Paths :
        LET n == NameOf[p] IN
        /\ memory[n] # Nothing => memory[n].path = p
        /\ source[p] \in Valid
        /\ memory' = [memory EXCEPT ![n] = Loaded(p, source[p])]
        /\ recent' = [recent EXCEPT ![n] = source[p]]
        /\ name' = n
  BY DEF Load
<1> DEFINE n == NameOf[p]
           t == Loaded(p, source[p])
<1>2. n \in Names /\ t \in Records /\ t # Nothing
  BY <1>1, NamesAreNames, LoadedType
<1>3. /\ \A m \in Names : memory'[m] = IF m = n THEN t ELSE memory[m]
      /\ \A m \in Names : recent'[m] = IF m = n THEN source[p] ELSE recent[m]
      /\ t.path = p /\ t.hash = source[p] /\ t.compiled = source[p] /\ t.status = "loaded"
      /\ memory[n] # Nothing => memory[n].path = p
  BY <1>1, <1>2 DEF TypeOK, Loaded
<1>4. /\ at = "prompt" /\ at' = "persist" /\ command' = "load" /\ report' = Nothing
      /\ name' = n /\ UNCHANGED <<source, disk, todo, edits, failures, starts, loaded, unsaved>>
  BY <1>1 DEF Load
<1> HIDE DEF n, t
<1>5. Registered' = Registered \union {n}
  BY <1>2, <1>3 DEF Registered
<1>6. memory' \in [Names -> Records \union {Nothing}] /\ recent' \in [Names -> Valid \union {Nothing}]
  BY <1>1, <1>2 DEF TypeOK, n, t
<1>7. TypeOK'
  BY <1>2, <1>4, <1>5, <1>6 DEF TypeOK
<1>8. AtWork'
  BY <1>4, <1>5 DEF AtWork
<1>9. Compilations'
  BY <1>2, <1>3, <1>5 DEF Compilations, Registered
<1>10. InStep'
  BY <1>4 DEF InStep
<1>11. Kept'
  BY <1>2, <1>3, <1>4 DEF Kept
<1> QED
  BY <1>7, <1>8, <1>9, <1>10, <1>11

LEMMA AskInv ==
  ASSUME IInv, Ask
  PROVE  IInv'
<1> USE DEF IInv, Ask
<1>1. TypeOK'
  BY DEF TypeOK, Registered
<1>2. AtWork' /\ Compilations' /\ InStep' /\ Kept'
  BY DEF AtWork, Compilations, InStep, Kept, Registered
<1> QED
  BY <1>1, <1>2

\* A refresh looks at one template; what it finds makes four cases.
LEMMA RefreshInv ==
  ASSUME IInv, Refresh
  PROVE  IInv'
<1> USE DEF IInv
<1>1. PICK n \in todo :
        LET c == source[memory[n].path] IN
        /\ name' = n
        /\ todo' = todo \ {n}
        /\ recent' = IF c \in Valid THEN [recent EXCEPT ![n] = c] ELSE recent
        /\ \/ /\ c = Nothing
              /\ memory' = [memory EXCEPT ![n].status = "missing"]
              /\ at' = "persist"
           \/ /\ c \in Valid /\ UpToDate(memory[n], c)
              /\ UNCHANGED <<memory, at>>
           \/ /\ c \in Valid /\ ~UpToDate(memory[n], c)
              /\ memory' = [memory EXCEPT ![n] = Loaded(@.path, c)]
              /\ at' = "persist"
           \/ /\ c \in Invalid
              /\ at' = "hash"
              /\ UNCHANGED memory
  BY DEF Refresh
<1> DEFINE c == source[memory[n].path]
<1>2. /\ at = "refresh" /\ at' \in {"refresh", "hash", "persist"}
      /\ name' = n /\ todo' \subseteq todo
      /\ UNCHANGED <<source, disk, command, edits, failures, starts, loaded, unsaved, report>>
  BY <1>1 DEF Refresh
<1>3. n \in Registered /\ n \in Names /\ memory[n] \in Records /\ c \in Contents
  BY DEF TypeOK, Registered, Records
<1>4. /\ \A m \in Names \ {n} : memory'[m] = memory[m] /\ recent'[m] = recent[m]
      /\ memory' \in [Names -> Records \union {Nothing}] /\ memory'[n] \in Records
      /\ memory'[n].path = memory[n].path
      /\ recent' \in [Names -> Valid \union {Nothing}]
      /\ memory'[n].compiled # Nothing =>
           /\ memory'[n].compiled = recent'[n]
           /\ memory'[n].status = "loaded" => memory'[n].hash = memory'[n].compiled
  <2>1. CASE c = Nothing
    <3>1. /\ memory' = [memory EXCEPT ![n].status = "missing"] /\ recent' = recent
          /\ memory'[n] = [memory[n] EXCEPT !.status = "missing"]
      BY <1>1, <1>3, <2>1, NothingIsNoContent DEF UpToDate, TypeOK
    <3>2. memory'[n] \in Records
      BY <1>3, <3>1 DEF Records
    <3>3. /\ memory'[n].path = memory[n].path /\ memory'[n].compiled = memory[n].compiled
          /\ memory'[n].status = "missing"
      BY <1>3, <3>1 DEF Records
    <3> QED BY <1>3, <3>1, <3>2, <3>3 DEF TypeOK, Compilations
  <2>2. CASE c \in Valid /\ UpToDate(memory[n], c)
    <3>1. memory' = memory /\ recent' = [recent EXCEPT ![n] = c]
      BY <1>1, <2>2, NothingIsNoContent
    <3> QED BY <1>3, <2>2, <3>1 DEF TypeOK, Compilations, UpToDate
  <2>3. CASE c \in Valid /\ ~UpToDate(memory[n], c)
    <3>1. /\ memory' = [memory EXCEPT ![n] = Loaded(memory[n].path, c)]
          /\ recent' = [recent EXCEPT ![n] = c]
      BY <1>1, <2>3, NothingIsNoContent
    <3>2. memory[n].path \in Paths
      BY <1>3 DEF Records
    <3>3. Loaded(memory[n].path, c) \in Records
      BY <2>3, <3>2, LoadedType
    <3> QED BY <1>3, <2>3, <3>1, <3>3 DEF TypeOK, Loaded
  <2>4. CASE c \in Invalid
    <3>1. memory' = memory /\ recent' = recent
      BY <1>1, <2>4, NothingIsNoContent
    <3> QED BY <1>3, <3>1 DEF TypeOK, Compilations
  <2> QED BY <1>3, <2>1, <2>2, <2>3, <2>4 DEF Contents
<1>5. at' # "persist" => memory' = memory
  BY <1>1
<1> HIDE DEF c
<1>6. Registered' = Registered
  BY <1>3, <1>4, NothingIsNoTemplate DEF Registered
<1>7. TypeOK'
  BY <1>2, <1>3, <1>4, <1>6 DEF TypeOK
<1>8. AtWork'
  BY <1>2, <1>3, <1>6 DEF AtWork
<1>9. Compilations'
  BY <1>4, <1>6 DEF Compilations, Registered
<1>10. InStep'
  BY <1>2, <1>5 DEF InStep
<1>11. Kept'
  BY <1>2, <1>3, <1>4, NothingIsNoTemplate DEF Kept
<1> QED
  BY <1>7, <1>8, <1>9, <1>10, <1>11

LEMMA HashInv ==
  ASSUME IInv, Hash
  PROVE  IInv'
<1> USE DEF IInv
<1> DEFINE h == source[memory[name].path]
<1>1. /\ at = "hash" /\ at' = "persist"
      /\ UNCHANGED <<source, disk, command, todo, name, edits, failures, starts, recent, loaded,
                     unsaved, report>>
  BY DEF Hash
<1>2. name \in Registered /\ name \in Names /\ memory[name] \in Records
  BY <1>1 DEF TypeOK, Registered
<1>3. h \in Contents
  BY <1>2 DEF TypeOK, Records
<1>4. /\ memory' \in [Names -> Records \union {Nothing}] /\ memory'[name] \in Records
      /\ \A m \in Names \ {name} : memory'[m] = memory[m]
      /\ memory'[name].path = memory[name].path
      /\ memory'[name].compiled = memory[name].compiled
      /\ memory'[name].status = "invalid"
  <2>1. memory'[name] = [memory[name] EXCEPT !.hash = h, !.status = "invalid"]
    BY <1>2 DEF Hash, TypeOK
  <2>2. [memory[name] EXCEPT !.hash = h, !.status = "invalid"] \in Records
    BY <1>2, <1>3 DEF Records
  <2>3. /\ memory'[name].path = memory[name].path
        /\ memory'[name].compiled = memory[name].compiled /\ memory'[name].status = "invalid"
    BY <1>2, <2>1 DEF Records
  <2> QED BY <1>2, <2>1, <2>2, <2>3 DEF Hash, TypeOK
<1>5. Registered' = Registered
  BY <1>2, <1>4, NothingIsNoTemplate DEF Registered
<1>6. TypeOK'
  BY <1>1, <1>2, <1>4, <1>5 DEF TypeOK
<1>7. AtWork'
  BY <1>1, <1>2, <1>5 DEF AtWork
<1>8. Compilations'
  BY <1>1, <1>2, <1>4, <1>5 DEF Compilations, Registered
<1>9. InStep'
  BY <1>1 DEF InStep
<1>10. Kept'
  BY <1>1, <1>2, <1>4, NothingIsNoTemplate DEF Kept
<1> QED
  BY <1>6, <1>7, <1>8, <1>9, <1>10

LEMMA PersistInv ==
  ASSUME IInv, Persist \/ PersistFails
  PROVE  IInv'
<1> USE DEF IInv
<1>1. CASE Persist
  <2>1. \A n \in Names : /\ disk'[n] \in Records \union {Nothing}
                         /\ disk'[n] = Stored(memory[n]) /\ Stored(disk'[n]) = disk'[n]
                         /\ memory[n] # Nothing => disk'[n] # Nothing /\ disk'[n].path = memory[n].path
    BY <1>1, StoredType DEF Persist, TypeOK
  <2>2. TypeOK'
    BY <1>1, <2>1 DEF Persist, TypeOK, Registered
  <2>3. AtWork' /\ Compilations'
    BY <1>1 DEF Persist, AtWork, Compilations, Registered
  <2>4. InStep'
    BY <1>1, <2>1 DEF Persist, InStep
  <2>5. Kept'
    BY <1>1, <2>1 DEF Persist, Kept
  <2> QED BY <2>2, <2>3, <2>4, <2>5
<1>2. CASE PersistFails
  <2>1. failures' \in 0 .. MaxFailures
    <3>1. /\ failures \in 0 .. MaxFailures /\ failures < MaxFailures
          /\ failures' = failures + 1 /\ MaxFailures \in Nat
      BY <1>2, BoundsAreNumbers DEF PersistFails, TypeOK
    <3> QED BY <3>1
  <2>2. TypeOK'
    BY <1>2, <2>1 DEF PersistFails, TypeOK, Registered
  <2>3. AtWork'
    BY <1>2 DEF PersistFails, AtWork, Registered
  <2>4. Compilations' /\ InStep' /\ Kept'
    BY <1>2 DEF PersistFails, Compilations, InStep, Kept, Registered
  <2> QED BY <2>2, <2>3, <2>4
<1> QED
  BY <1>1, <1>2

LEMMA EndInv ==
  ASSUME IInv, End
  PROVE  IInv'
<1> USE DEF IInv
<1>1. /\ at = "refresh" /\ todo = {}
      /\ UNCHANGED <<source, disk, memory, todo, edits, failures, starts, recent, unsaved>>
  BY DEF End
<1>2. Registered' = Registered
  BY <1>1 DEF Registered
<1>3. ASSUME at' \in {"prompt", "editor"},
             at' = "prompt" => command' = "none" /\ name' = Nothing,
             at' = "editor" => UNCHANGED <<command, name, report>> /\ command = "edit",
             loaded' = loaded,
             report' # Nothing => report' \in [what : {"loaded", "ran", "last valid remains"},
                                                name : Names, compiled : Valid \union {Nothing}]
      PROVE  IInv'
  <2>1. TypeOK'
    BY <1>1, <1>2, <1>3 DEF TypeOK, AtWork
  <2>2. AtWork'
    BY <1>1, <1>2, <1>3 DEF AtWork
  <2>3. Compilations' /\ InStep' /\ Kept'
    BY <1>1, <1>2, <1>3 DEF Compilations, InStep, Kept
  <2> QED BY <2>1, <2>2, <2>3
<1>4. ASSUME name \in Registered, NEW what \in {"loaded", "ran", "last valid remains"}
      PROVE  Said(what) \in [what : {"loaded", "ran", "last valid remains"},
                             name : Names, compiled : Valid \union {Nothing}]
  <2>1. memory[name] \in Records /\ name \in Names
    BY <1>4 DEF TypeOK, Registered
  <2> QED BY <2>1 DEF Said, Records
<1>5. CASE EndLoad
  <2>1. name \in Registered /\ name \in Names
    BY <1>5 DEF EndLoad, AtWork, Registered
  <2>2. /\ loaded' = [loaded EXCEPT ![name] = memory[name].path]
        /\ report' = Said("loaded") /\ at' = "prompt" /\ command' = "none" /\ name' = Nothing
    BY <1>5 DEF EndLoad, Prompt
  <2>3. memory[name] \in Records /\ memory[name].path \in Paths /\ memory[name] # Nothing
    BY <2>1 DEF TypeOK, Registered, Records
  <2>4. disk[name] = Stored(memory[name]) /\ disk[name] # Nothing /\ disk[name].path = memory[name].path
    BY <1>1, <1>5, <2>1, <2>3, StoredTemplate DEF EndLoad, InStep
  <2>5. TypeOK'
    <3>1. loaded' \in [Names -> Paths \union {Nothing}]
      BY <2>1, <2>2, <2>3 DEF TypeOK
    <3> QED BY <1>1, <1>2, <1>4, <2>1, <2>2, <3>1 DEF TypeOK
  <2>6. AtWork' /\ Compilations' /\ InStep'
    BY <1>1, <1>2, <2>2 DEF AtWork, Compilations, InStep
  <2>7. Kept'
    BY <1>1, <2>1, <2>2, <2>3, <2>4 DEF Kept, TypeOK
  <2> QED BY <2>5, <2>6, <2>7
<1>6. CASE EndListOrUse
  BY <1>3, <1>6 DEF EndListOrUse, Prompt, TypeOK
<1>7. CASE EndEdit
  BY <1>1, <1>3, <1>7 DEF EndEdit, Prompt, TypeOK, AtWork
<1>8. CASE EndEdited
  <2>1. name \in Registered
    BY <1>8 DEF EndEdited, AtWork
  <2> QED BY <1>3, <1>4, <1>8, <2>1 DEF EndEdited, Prompt
<1>9. CASE EndRun
  <2>1. name \in Registered
    BY <1>1, <1>9 DEF EndRun, AtWork
  <2> QED BY <1>3, <1>4, <1>9, <2>1 DEF EndRun, Prompt
<1> QED
  BY <1>5, <1>6, <1>7, <1>8, <1>9 DEF End

LEMMA LeaveEditorInv ==
  ASSUME IInv, LeaveEditor
  PROVE  IInv'
<1> USE DEF IInv, LeaveEditor
<1>1. name \in Registered
  BY DEF TypeOK
<1>2. TypeOK'
  BY <1>1 DEF TypeOK, Registered
<1>3. AtWork' /\ Compilations' /\ InStep' /\ Kept'
  BY <1>1 DEF AtWork, Compilations, InStep, Kept, Registered
<1> QED
  BY <1>2, <1>3

LEMMA StepInv == IInv /\ [Next]_vars => IInv'
<1> SUFFICES ASSUME IInv, [Next]_vars PROVE IInv'
  OBVIOUS
<1>1. CASE UNCHANGED vars
  BY <1>1 DEF vars, IInv, TypeOK, AtWork, Compilations, InStep, Kept, Registered
<1> QED
  BY <1>1, StartInv, StopInv, EditInv, LoadInv, AskInv, RefreshInv, HashInv, PersistInv, EndInv,
     LeaveEditorInv DEF Next

\* What ran is what was compiled last: a report is made at the end of a command
\* only, and nothing is compiled from then to the next command.
LEMMA RunStep ==
  ASSUME IInv, RunIsCurrent, [Next]_vars
  PROVE  RunIsCurrent'
<1> USE DEF IInv
<1>1. ASSUME recent' = recent, report' = report
      PROVE  RunIsCurrent'
  BY <1>1 DEF RunIsCurrent
<1>2. CASE Refresh
  BY <1>2 DEF Refresh, AtWork, RunIsCurrent
<1>3. CASE Stop \/ Load \/ Ask
  BY <1>3 DEF Stop, Load, Ask, RunIsCurrent
<1>4. CASE End
  <2>1. recent' = recent
    BY <1>4 DEF End
  <2>2. CASE EndLoad
    <3>1. report'.what = "loaded"
      BY <2>2 DEF EndLoad, Said
    <3> QED BY <3>1 DEF RunIsCurrent
  <2>3. CASE EndListOrUse \/ EndEdit
    BY <1>1, <2>1, <2>3 DEF EndListOrUse, EndEdit
  <2>4. CASE EndEdited
    <3>1. Said("last valid remains").what = "last valid remains"
      BY DEF Said
    <3> QED BY <2>4, <3>1 DEF EndEdited, RunIsCurrent
  <2>5. CASE EndRun
    <3>1. name \in Registered
      BY <1>4, <2>5 DEF End, EndRun, AtWork
    <3>2. memory[name].compiled # Nothing => memory[name].compiled = recent[name]
      BY <3>1 DEF Compilations
    <3>3. Said("ran").name = name /\ Said("ran").compiled = memory[name].compiled
      BY DEF Said
    <3> QED BY <2>1, <2>5, <3>2, <3>3 DEF EndRun, RunIsCurrent
  <2> QED BY <1>4, <2>2, <2>3, <2>4, <2>5 DEF End
<1>5. CASE Start \/ Edit \/ Hash \/ Persist \/ PersistFails \/ LeaveEditor \/ UNCHANGED vars
  BY <1>1, <1>5 DEF Start, Edit, Hash, Persist, PersistFails, LeaveEditor, vars
<1> QED
  BY <1>2, <1>3, <1>4, <1>5 DEF Next

LEMMA Invariance == Spec => []IInv
BY InitInv, StepInv, PTL DEF Spec

-----------------------------------------------------------------------------
(* The registry, its file and the commands keep to their types
   (templates/registry.py, template_cmd.py). *)
THEOREM TypeCorrect == Spec => []TypeOK
<1>1. IInv => TypeOK
  BY DEF IInv
<1> QED
  BY <1>1, Invariance, PTL

(* An acknowledged registration is in the file, for its source, through
   edits, failed writes, crashes and restarts (TemplateRegistry.save). *)
THEOREM RegistrationsKept == Spec => []RegistrationsSurvive
<1>1. IInv => RegistrationsSurvive
  BY DEF IInv, Kept, RegistrationsSurvive
<1> QED
  BY <1>1, Invariance, PTL

(* Between commands the file has what the shell has, unless it could not be
   written (TemplateRegistry.refresh). *)
THEOREM FileCurrent == Spec => []FileIsCurrent
<1>1. IInv => FileIsCurrent
  BY DEF IInv, InStep, FileIsCurrent
<1> QED
  BY <1>1, Invariance, PTL

(* A run executes the newest content that compiled when the shell looked,
   never a stale compilation (TemplateRegistry.refresh, executable). *)
THEOREM RunCurrent == Spec => []RunIsCurrent
<1>1. Init => RunIsCurrent
  BY DEF Init, RunIsCurrent
<1> QED
  BY <1>1, RunStep, Invariance, PTL DEF Spec

-----------------------------------------------------------------------------
(***************************************************************************)
(* The lines so far, the tokens they are, and how far the parser has got.  *)
(***************************************************************************)
\* The indentation of a line, of which the end of the source has none.
At(l) == IF l \in DOMAIN text THEN text[l].indent ELSE 0

\* The blocks, and where a line may be.
Blocks == [of : Nat, branch : {"body", "else"}]

Entries == [of : Nat, branch : {"body", "else", "label"}]

\* The first n lines, or all and the end, are these tokens: P has the place of
\* each line, and before it comes how far its block is in or out.
LaidOut(P, n) ==
  /\ P \in [0 .. n -> Nat] /\ P[0] = 0 /\ P[n] = Len(tokens)
  /\ \A l \in 0 .. n : P[l] <= Len(tokens)
  /\ \A l \in 1 .. n :
       /\ tokens[P[l]] = IF l \in DOMAIN text THEN Line(l) ELSE Eof
       /\ At(l) > At(l - 1) => P[l] = P[l - 1] + 2 /\ tokens[P[l - 1] + 1] = Indent
       /\ At(l) <= At(l - 1) =>
            /\ 4 * (P[l] - P[l - 1] - 1) = At(l - 1) - At(l)
            /\ \A k \in P[l - 1] + 1 .. P[l] - 1 : tokens[k] = Dedent

Lexing ==
  /\ indents # <<>> /\ 4 * (Len(indents) - 1) = At(Len(text))
  /\ \A i \in DOMAIN indents : indents[i] = 4 * (i - 1)
  /\ \E P : LaidOut(P, Len(text))
  /\ index = 1 /\ open = <<>> /\ tree = <<>>

\* The line h begins the block b, in which line l is if it is in by one more:
\* of body, or for the other branch its else.
Begins(tr, b, h, l) ==
  /\ h \in 1 .. l - 1 /\ \A j \in h + 1 .. l - 1 : At(j) > At(h)
  /\ \/ b.branch = "body" /\ h = b.of /\ tr[h].branch # "label"
     \/ b.branch = "else" /\ IsElseOf(h, b.of)

\* Where line l of the tree is right.
Placed(tr, l) ==
  \/ tr[l].branch = "label" /\ tr[l].of \in 1 .. l - 1 /\ IsElseOf(l, tr[l].of)
  \/ tr[l] = Module /\ At(l) = 0 /\ ~IsElse(l)
  \/ /\ tr[l].branch \in {"body", "else"} /\ tr[l].of \in 1 .. l - 1 /\ ~IsElse(l)
     /\ \E h \in 1 .. l - 1 : At(h) + 4 = At(l) /\ Begins(tr, tr[l], h, l)

\* The parser has got to token ix, in the blocks op, with the lines in tr
\* behind it; what it has seen is well formed, but that the block of a simple
\* statement fails at its INDENT.
Parsed(P, ix, op, tr) ==
  LET l == Len(tr) + 1
  IN  /\ l \in 1 .. Len(text) + 1 /\ ix \in P[l - 1] + 1 .. P[l]
      /\ At(l) <= At(l - 1) => 4 * Len(op) = At(l - 1) - 4 * (ix - P[l - 1] - 1)
      /\ At(l) > At(l - 1) =>
           \/ ix = P[l] - 1 /\ 4 * Len(op) = At(l - 1) /\ (l = 1 \/ KindOf(l - 1) \in Simple)
           \/ ix = P[l] /\ 4 * Len(op) = At(l) /\ l > 1
      /\ \A m \in 1 .. l - 1 :
           /\ m = 1 => At(m) = 0
           /\ KindOf(m) # "garbled"
           /\ KindOf(m) \in Simple /\ Opens(m) => m = l - 1 /\ ix = P[l] - 1
           /\ KindOf(m) \in Conditions \/ IsElse(m) => Opens(m)
           /\ Placed(tr, m)
      /\ \A k \in DOMAIN op :
           /\ op[k].branch \in {"body", "else"} /\ op[k].of \in 1 .. l - 1
           /\ \E h \in 1 .. l - 1 : At(h) = 4 * (k - 1) /\ Begins(tr, op[k], h, l)
      /\ ix = P[l] /\ l \in DOMAIN text /\ KindOf(l) = "else" => ~IsElse(l)

Parsing == \E P : LaidOut(P, Len(text) + 1) /\ Parsed(P, index, open, tree)

Built == Len(tree) = Len(text) /\ \A l \in DOMAIN text : Placed(tree, l)

(***************************************************************************)
(* The run: the lines before n are behind it, bs are the blocks it is in.  *)
(***************************************************************************)
Taken(b) == KindOf(b.of) \in Conditions => b.branch = Branch(KindOf(b.of))

InBlock(b) == {m \in DOMAIN tree : tree[m] = b}

\* What is left of a block.
Left(b, n) == {m \in InBlock(b) : m >= n}

Lists(s, S) ==
  /\ \A i, j \in DOMAIN s : i < j => s[i] < s[j]
  /\ \A i \in DOMAIN s : s[i] \in S
  /\ \A m \in S : \E i \in DOMAIN s : s[i] = m

Entered(fs, bs, n) ==
  /\ bs \in Seq(Blocks) /\ Len(bs) = Len(fs)
  /\ \A k \in DOMAIN bs :
       /\ \/ bs[k] = Module
          \/ bs[k].of \in 1 .. n - 1 /\ Reached(bs[k].of) /\ Taken(bs[k])
       /\ \A m \in InBlock(bs[k]) : At(m) = 4 * (k - 1)
       /\ Lists(fs[k], Left(bs[k], n))
       /\ \A j \in 1 .. k - 1 : \A q \in InBlock(bs[k]) : \A m \in Left(bs[j], n) : q < m

\* What is to run is in one of the blocks, or in one that begins later.
Complete(bs, n) ==
  \A m \in DOMAIN tree : m >= n /\ Reached(m) /\ tree[m].branch # "label" =>
    tree[m].of >= n \/ \E k \in DOMAIN bs : tree[m] = bs[k]

Behind(n) ==
  /\ \A l \in 1 .. n - 1 : ~(KindOf(l) = "unresolved" /\ Reached(l))
  /\ {events[i].of : i \in DOMAIN events} = CallsBefore(n)
  /\ variables = [x |-> XAt(n), y |-> YAt(n)]

Running == \E n \in 1 .. Len(text) + 1 : \E bs : Entered(frames, bs, n) /\ Complete(bs, n) /\ Behind(n)

\* What a variable may be.
Words == {Unset, Input, Name} \union {Own(l) : l \in Nat}

-----------------------------------------------------------------------------
LEMMA TokensDiffer ==
  /\ Indent.is = "indent" /\ Dedent.is = "dedent" /\ Eof.is = "eof"
  /\ \A l : Line(l).is = "line" /\ Line(l).of = l
BY DEF Indent, Dedent, Eof, Line

LEMMA Quarter == ASSUME NEW x \in Nat, x % 4 = 0 PROVE \E k \in Nat : x = 4 * k
<1>1. x = 4 * (x \div 4) /\ x \div 4 \in Nat
  OBVIOUS
<1> QED BY <1>1

\* What is known of the lines.
Text == text \in Seq(Lines)

LEMMA TextIs ==
  ASSUME Text
  PROVE  /\ Len(text) \in Nat /\ DOMAIN text = 1 .. Len(text)
         /\ \A l : At(l) \in Nat
         /\ \A l \in DOMAIN text : At(l) = text[l].indent /\ KindOf(l) \in Kinds
         /\ \A l \in DOMAIN text : IndentBefore(l) = At(l - 1)
         /\ \A l \in DOMAIN text : Opens(l) <=> At(l + 1) > At(l)
         /\ At(0) = 0 /\ At(Len(text) + 1) = 0
<1>1. Len(text) \in Nat /\ DOMAIN text = 1 .. Len(text)
  BY DEF Text
<1>2. ASSUME NEW l \in DOMAIN text PROVE text[l].indent \in Nat /\ KindOf(l) \in Kinds
  <2>1. text[l] \in Lines
    BY <1>1 DEF Text
  <2> QED BY <2>1, IndentsAreNumbers DEF Lines, KindOf
<1>3. \A l : At(l) \in Nat
  BY <1>2 DEF At
<1> QED
  BY <1>1, <1>2, <1>3 DEF At, IndentBefore, Opens

LEMMA Multiples ==
  ASSUME Text, WellIndented
  PROVE  /\ \A l : \E k \in Nat : At(l) = 4 * k
         /\ \A l \in DOMAIN text : At(l) <= At(l - 1) + 4
<1>1. ASSUME NEW l PROVE \E k \in Nat : At(l) = 4 * k
  <2>1. At(l) \in Nat /\ At(l) % 4 = 0
    BY TextIs DEF WellIndented, At
  <2> QED BY <2>1, Quarter
<1> QED
  BY <1>1, TextIs DEF WellIndented

LEMMA WithinIs ==
  ASSUME Text, NEW m \in DOMAIN text, NEW l \in DOMAIN text
  PROVE  Within(m, l) <=> m < l /\ \A k \in m + 1 .. l : At(k) > At(m)
<1>1. \A k \in m + 1 .. l : k \in DOMAIN text
  BY TextIs
<1> QED
  BY <1>1, TextIs DEF Within

LEMMA ElseIs ==
  ASSUME Text, NEW m \in DOMAIN text, NEW l \in DOMAIN text
  PROVE  IsElseOf(l, m) <=>
           /\ KindOf(l) = "else" /\ KindOf(m) \in Conditions
           /\ m < l /\ At(m) = At(l)
           /\ \A k \in m + 1 .. l - 1 : At(k) > At(m)
<1>1. \A k \in m + 1 .. l - 1 : k \in DOMAIN text
  BY TextIs
<1>2. ASSUME m < l
      PROVE  (\A k \in m + 1 .. l - 1 : Within(m, k)) <=> \A k \in m + 1 .. l - 1 : At(k) > At(m)
  <2>1. ASSUME \A k \in m + 1 .. l - 1 : At(k) > At(m), NEW k \in m + 1 .. l - 1
        PROVE  Within(m, k)
    <3>1. m < k /\ \A j \in m + 1 .. k : At(j) > At(m)
      BY <2>1, TextIs
    <3> QED BY <1>1, <3>1, WithinIs
  <2>2. ASSUME \A k \in m + 1 .. l - 1 : Within(m, k), NEW k \in m + 1 .. l - 1
        PROVE  At(k) > At(m)
    <3>1. Within(m, k) /\ k \in m + 1 .. k
      BY <2>2, TextIs
    <3> QED BY <1>1, <3>1, WithinIs
  <2> QED BY <2>1, <2>2
<1> QED
  BY <1>2, TextIs DEF IsElseOf

-----------------------------------------------------------------------------
\* What is known while the tokens are parsed.
Tokens == tokens \in Seq({Indent, Dedent, Eof} \union {Line(l) : l \in Nat})

Scanned(P) == Text /\ WellIndented /\ Tokens /\ LaidOut(P, Len(text) + 1)

(* What the next token is, before and at a line. *)
LEMMA TokenIs ==
  ASSUME NEW P, Scanned(P), NEW l \in 1 .. Len(text) + 1, NEW ix \in P[l - 1] + 1 .. P[l]
  PROVE  /\ P[l - 1] \in Nat /\ P[l] \in Nat /\ P[l - 1] < P[l]
         /\ tokens[ix] = Indent <=> At(l) > At(l - 1) /\ ix = P[l] - 1
         /\ tokens[ix] = Dedent <=> At(l) <= At(l - 1) /\ ix < P[l]
         /\ tokens[ix].is = "line" <=> ix = P[l] /\ l \in DOMAIN text
         /\ tokens[ix].is = "line" => tokens[ix] = Line(l)
         /\ tokens[ix] = Eof <=> ix = P[l] /\ l = Len(text) + 1
<1> USE DEF Scanned
<1>1. P[l - 1] \in Nat /\ P[l] \in Nat
  <2>1. l - 1 \in 0 .. Len(text) + 1 /\ l \in 0 .. Len(text) + 1
    BY TextIs
  <2> QED BY <2>1 DEF LaidOut
<1>2. At(l) \in Nat /\ At(l - 1) \in Nat
  BY TextIs
<1>3. /\ tokens[P[l]] = IF l \in DOMAIN text THEN Line(l) ELSE Eof
      /\ At(l) > At(l - 1) => P[l] = P[l - 1] + 2 /\ tokens[P[l - 1] + 1] = Indent
      /\ At(l) <= At(l - 1) =>
            /\ 4 * (P[l] - P[l - 1] - 1) = At(l - 1) - At(l)
            /\ \A k \in P[l - 1] + 1 .. P[l] - 1 : tokens[k] = Dedent
  BY DEF LaidOut
<1>4. CASE ix = P[l]
  <2>1. tokens[ix] = IF l \in DOMAIN text THEN Line(l) ELSE Eof
    BY <1>3, <1>4
  <2>2. ix # P[l] - 1 /\ ~(ix < P[l]) /\ P[l - 1] < P[l]
    BY <1>1, <1>4
  <2>3. l \in DOMAIN text <=> l # Len(text) + 1
    BY TextIs
  <2>4. tokens[ix] # Indent /\ tokens[ix] # Dedent
    BY <2>1, TokensDiffer
  <2>5. /\ tokens[ix].is = "line" <=> l \in DOMAIN text
        /\ tokens[ix].is = "line" => tokens[ix] = Line(l)
        /\ tokens[ix] = Eof <=> l \notin DOMAIN text
    BY <2>1, TokensDiffer
  <2> QED BY <1>1, <1>4, <2>2, <2>3, <2>4, <2>5
<1>5. CASE ix # P[l] /\ At(l) > At(l - 1)
  <2>1. tokens[ix] = Indent /\ ix = P[l] - 1
    BY <1>1, <1>3, <1>5
  <2>2. tokens[ix] # Dedent /\ tokens[ix] # Eof /\ tokens[ix].is # "line"
    BY <2>1, TokensDiffer
  <2> QED BY <1>1, <1>2, <1>5, <2>1, <2>2
<1>6. CASE ix # P[l] /\ At(l) <= At(l - 1)
  <2>1. tokens[ix] = Dedent /\ ix < P[l]
    BY <1>1, <1>3, <1>6
  <2>2. tokens[ix] # Indent /\ tokens[ix] # Eof /\ tokens[ix].is # "line"
    BY <2>1, TokensDiffer
  <2> QED BY <1>1, <1>2, <1>6, <2>1, <2>2
<1> QED
  BY <1>1, <1>2, <1>4, <1>5, <1>6

(* After the last token of a line, INDENT tells that it opens a block. *)
LEMMA OpensIs ==
  ASSUME NEW P, Scanned(P), NEW l \in DOMAIN text
  PROVE  /\ l \in 1 .. Len(text) + 1 /\ l + 1 \in 1 .. Len(text) + 1
         /\ P[l] + 1 \in P[l] + 1 .. P[l + 1]
         /\ tokens[P[l] + 1] = Indent <=> Opens(l)
         /\ Opens(l) => P[l + 1] = P[l] + 2 /\ At(l + 1) = At(l) + 4
         /\ ~Opens(l) => 4 * (P[l + 1] - P[l] - 1) = At(l) - At(l + 1)
<1> USE DEF Scanned
<1>1. l \in 1 .. Len(text) + 1 /\ l + 1 \in 1 .. Len(text) + 1
  BY TextIs
<1>2. P[l] \in Nat /\ P[l + 1] \in Nat /\ At(l) \in Nat /\ At(l + 1) \in Nat
  BY <1>1, TextIs DEF LaidOut
<1>3. /\ At(l + 1) > At(l) => P[l + 1] = P[l] + 2
      /\ At(l + 1) <= At(l) => 4 * (P[l + 1] - P[l] - 1) = At(l) - At(l + 1)
  <2>1. (l + 1) - 1 = l
    BY <1>1
  <2> QED BY <1>1, <2>1 DEF LaidOut
<1>4. P[l] + 1 \in P[l] + 1 .. P[l + 1]
  BY <1>2, <1>3
<1>5. tokens[P[l] + 1] = Indent <=> At(l + 1) > At(l) /\ P[l] + 1 = P[l + 1] - 1
  <2>1. (l + 1) - 1 = l
    BY <1>1
  <2> QED BY <1>1, <1>4, <2>1, TokenIs
<1>6. At(l + 1) > At(l) => At(l + 1) = At(l) + 4
  <2>1. SUFFICES ASSUME At(l + 1) > At(l) PROVE At(l + 1) = At(l) + 4
    OBVIOUS
  <2>2. l + 1 \in DOMAIN text
    BY <1>1, <2>1, TextIs DEF At
  <2>3. At(l + 1) <= At(l) + 4
    <3>1. (l + 1) - 1 = l
      BY <1>1
    <3> QED BY <2>2, <3>1, Multiples
  <2>4. PICK j \in Nat, k \in Nat : At(l) = 4 * j /\ At(l + 1) = 4 * k
    BY Multiples
  <2> QED BY <2>1, <2>3, <2>4
<1>7. Opens(l) <=> At(l + 1) > At(l)
  BY TextIs
<1>8. ~(At(l + 1) > At(l)) <=> At(l + 1) <= At(l)
  BY <1>2
<1>9. At(l + 1) > At(l) => P[l] + 1 = P[l + 1] - 1
  BY <1>2, <1>3
<1> QED
  BY <1>1, <1>3, <1>4, <1>5, <1>6, <1>7, <1>8, <1>9

-----------------------------------------------------------------------------
LEMMA BeginsOn ==
  ASSUME Text, NEW tr, NEW b, NEW h, NEW l \in Nat, Begins(tr, b, h, l), At(l) > At(h)
  PROVE  h \in 1 .. (l + 1) - 1 /\ Begins(tr, b, h, l + 1)
<1>1. h \in 1 .. l - 1 /\ \A j \in h + 1 .. l - 1 : At(j) > At(h)
  BY DEF Begins
<1>2. h \in 1 .. (l + 1) - 1
  BY <1>1
<1>3. ASSUME NEW j \in h + 1 .. (l + 1) - 1 PROVE At(j) > At(h)
  <2>1. j \in h + 1 .. l - 1 \/ j = l
    BY <1>1, <1>3
  <2> QED BY <1>1, <2>1
<1> QED
  BY <1>2, <1>3 DEF Begins

(* What was placed remains so, whatever comes after it. *)
LEMMA Longer ==
  ASSUME Text, NEW tr \in Seq(Entries), NEW x \in Entries
  PROVE  /\ \A b, h : \A l \in 1 .. Len(tr) + 1 : Begins(tr, b, h, l) => Begins(Append(tr, x), b, h, l)
         /\ \A m \in 1 .. Len(tr) : Placed(tr, m) => Placed(Append(tr, x), m)
<1> DEFINE tr2 == Append(tr, x)
<1>1. \A h \in 1 .. Len(tr) : tr2[h] = tr[h]
  OBVIOUS
<1>2. Len(tr) \in Nat
  OBVIOUS
<1> HIDE DEF tr2
<1>3. ASSUME NEW b, NEW h, NEW l \in 1 .. Len(tr) + 1, Begins(tr, b, h, l)
      PROVE  Begins(tr2, b, h, l)
  <2>1. h \in 1 .. Len(tr)
    BY <1>2, <1>3 DEF Begins
  <2> QED BY <1>1, <1>3, <2>1 DEF Begins
<1>4. ASSUME NEW m \in 1 .. Len(tr), Placed(tr, m)
      PROVE  Placed(tr2, m)
  <2>1. m \in 1 .. Len(tr) + 1 /\ tr2[m] = tr[m]
    BY <1>1, <1>2
  <2> QED BY <1>3, <1>4, <2>1 DEF Placed
<1> QED
  BY <1>3, <1>4 DEF tr2

(* An else follows a line that is further in, if conditions have blocks. *)
LEMMA ElseFollows ==
  ASSUME Text, NEW l \in DOMAIN text, IsElse(l),
         \A m \in 1 .. l - 1 : KindOf(m) \in Conditions => Opens(m)
  PROVE  At(l - 1) > At(l)
<1>1. PICK m \in DOMAIN text : IsElseOf(l, m)
  BY DEF IsElse
<1>2. /\ KindOf(m) \in Conditions /\ m < l /\ At(m) = At(l)
      /\ \A k \in m + 1 .. l - 1 : At(k) > At(m)
  BY <1>1, ElseIs
<1>3. At(m + 1) > At(m)
  BY <1>2, TextIs
<1>4. m # l - 1
  BY <1>2, <1>3, TextIs
<1>5. l - 1 \in m + 1 .. l - 1
  BY <1>2, <1>4, TextIs
<1> QED
  BY <1>2, <1>5

\* Line m is well formed and placed.
Sound(tr, m) ==
  /\ m = 1 => At(m) = 0
  /\ KindOf(m) # "garbled"
  /\ KindOf(m) \in Simple => ~Opens(m)
  /\ KindOf(m) \in Conditions \/ IsElse(m) => Opens(m)
  /\ Placed(tr, m)

(* One more line is parsed, with or without the INDENT of its block. *)
LEMMA LineParsed ==
  ASSUME NEW P, Scanned(P), NEW tr \in Seq(Entries), NEW x \in Entries,
         NEW op \in Seq(Blocks), NEW ix,
         NEW l \in DOMAIN text, l = Len(tr) + 1,
         \A m \in 1 .. l - 1 : Sound(tr, m),
         l = 1 => At(l) = 0,
         KindOf(l) # "garbled",
         KindOf(l) \in Conditions \/ IsElse(l) => Opens(l),
         Placed(Append(tr, x), l),
         \A k \in DOMAIN op :
           /\ op[k].of \in 1 .. l
           /\ \E h \in 1 .. l : At(h) = 4 * (k - 1) /\ Begins(Append(tr, x), op[k], h, l + 1),
         \/ ix = P[l] + 2 /\ Opens(l) /\ 4 * Len(op) = At(l) + 4 /\ KindOf(l) \notin Simple
         \/ ix = P[l] + 1 /\ 4 * Len(op) = At(l) /\ (Opens(l) => KindOf(l) \in Simple)
  PROVE  Parsed(P, ix, op, Append(tr, x))
<1> DEFINE n == Len(Append(tr, x)) + 1
<1>1. n = l + 1 /\ n - 1 = l /\ n \in 1 .. Len(text) + 1 /\ l \in Nat /\ n # 1
  BY TextIs DEF Scanned
<1> HIDE DEF n
<1>2. P[l] \in Nat /\ P[n] \in Nat /\ At(l) \in Nat /\ At(n) \in Nat
  <2>1. P \in [0 .. Len(text) + 1 -> Nat] /\ l \in 0 .. Len(text) + 1 /\ n \in 0 .. Len(text) + 1
    BY <1>1, TextIs DEF Scanned, LaidOut
  <2>2. At(l) \in Nat /\ At(n) \in Nat
    BY TextIs DEF Scanned
  <2> QED BY <2>1, <2>2
<1>3. /\ Opens(l) => P[n] = P[l] + 2 /\ At(n) = At(l) + 4
      /\ ~Opens(l) => 4 * (P[n] - P[l] - 1) = At(l) - At(n)
      /\ Opens(l) <=> At(n) > At(l)
  BY <1>1, OpensIs, TextIs DEF Scanned
<1>4. ix \in P[n - 1] + 1 .. P[n]
  <2>1. \/ ix = P[l] + 2 /\ P[n] = P[l] + 2
        \/ ix = P[l] + 1
    BY <1>3
  <2>2. ASSUME NEW p \in Nat, NEW q \in Nat, NEW a \in Nat, NEW b \in Nat,
               b > a => q = p + 2, ~(b > a) => 4 * (q - p - 1) = a - b
        PROVE  p + 1 <= q
    BY <2>2
  <2>3. P[l] + 1 <= P[n]
    BY <1>2, <1>3, <2>2
  <2>4. ix \in P[l] + 1 .. P[n]
    BY <1>2, <2>1, <2>3
  <2> QED BY <1>1, <2>4
<1>5. At(n) <= At(n - 1) => 4 * Len(op) = At(n - 1) - 4 * (ix - P[n - 1] - 1)
  BY <1>1, <1>2, <1>3
<1>6. At(n) > At(n - 1) =>
         \/ ix = P[n] - 1 /\ 4 * Len(op) = At(n - 1) /\ (n = 1 \/ KindOf(n - 1) \in Simple)
         \/ ix = P[n] /\ 4 * Len(op) = At(n) /\ n > 1
  <2> SUFFICES ASSUME At(n) > At(l)
               PROVE  \/ ix = P[n] - 1 /\ 4 * Len(op) = At(l) /\ KindOf(l) \in Simple
                      \/ ix = P[n] /\ 4 * Len(op) = At(n) /\ n > 1
    BY <1>1
  <2>1. n > 1
    BY <1>1
  <2> QED BY <1>2, <1>3, <2>1
<1>7. ASSUME NEW m \in 1 .. n - 1
      PROVE  /\ m = 1 => At(m) = 0
             /\ KindOf(m) # "garbled"
             /\ KindOf(m) \in Simple /\ Opens(m) => m = n - 1 /\ ix = P[n] - 1
             /\ KindOf(m) \in Conditions \/ IsElse(m) => Opens(m)
             /\ Placed(Append(tr, x), m)
  <2>1. CASE m = l
    <3>1. KindOf(l) \in Simple /\ Opens(l) => ix = P[n] - 1
      BY <1>2, <1>3
    <3> QED BY <1>1, <2>1, <3>1
  <2>2. CASE m # l
    <3>1. m \in 1 .. l - 1 /\ m \in 1 .. Len(tr)
      BY <1>1, <2>2
    <3> QED BY <3>1, Longer DEF Sound, Scanned
  <2> QED BY <2>1, <2>2
<1>8. \A k \in DOMAIN op :
        /\ op[k].branch \in {"body", "else"} /\ op[k].of \in 1 .. n - 1
        /\ \E h \in 1 .. n - 1 : At(h) = 4 * (k - 1) /\ Begins(Append(tr, x), op[k], h, n)
  <2>1. \A k \in DOMAIN op : op[k] \in Blocks
    OBVIOUS
  <2> QED BY <1>1, <2>1 DEF Blocks
<1>9. ix = P[n] /\ n \in DOMAIN text /\ KindOf(n) = "else" => ~IsElse(n)
  <2> SUFFICES ASSUME ix = P[n], n \in DOMAIN text, IsElse(n) PROVE FALSE
    OBVIOUS
  <2>1. \A m \in 1 .. n - 1 : KindOf(m) \in Conditions => Opens(m)
    BY <1>7
  <2>2. At(l) > At(n)
    BY <1>1, <2>1, ElseFollows DEF Scanned
  <2> QED BY <1>2, <1>3, <2>2
<1> QED
  BY <1>1, <1>4, <1>5, <1>6, <1>7, <1>8, <1>9 DEF Parsed, n

-----------------------------------------------------------------------------
\* What is known of the parser at any time.
Parser(P, ix, op, tr) ==
  /\ Scanned(P) /\ op \in Seq(Blocks) /\ tr \in Seq(Entries)
  /\ Parsed(P, ix, op, tr)

LEMMA ParserIs ==
  ASSUME NEW P, NEW ix, NEW op, NEW tr, Parser(P, ix, op, tr), NEW l, l = Len(tr) + 1
  PROVE  /\ Text /\ l \in 1 .. Len(text) + 1 /\ ix \in P[l - 1] + 1 .. P[l]
         /\ P[l - 1] \in Nat /\ P[l] \in Nat /\ P[l - 1] < P[l] /\ ix \in Nat
         /\ At(l) \in Nat /\ At(l - 1) \in Nat /\ Len(op) \in Nat
         /\ At(l) <= At(l - 1) => 4 * Len(op) = At(l - 1) - 4 * (ix - P[l - 1] - 1)
         /\ \A k \in DOMAIN op :
              /\ op[k].branch \in {"body", "else"} /\ op[k].of \in 1 .. l - 1
              /\ \E h \in 1 .. l - 1 : At(h) = 4 * (k - 1) /\ Begins(tr, op[k], h, l)
         /\ ix # P[l] - 1 \/ At(l) <= At(l - 1) => \A m \in 1 .. l - 1 : Sound(tr, m)
<1>1. Text /\ l \in 1 .. Len(text) + 1 /\ ix \in P[l - 1] + 1 .. P[l]
  BY DEF Parser, Parsed, Scanned
<1>2. P[l - 1] \in Nat /\ P[l] \in Nat /\ P[l - 1] < P[l]
  BY <1>1, TokenIs DEF Parser
<1>3. At(l) \in Nat /\ At(l - 1) \in Nat /\ Len(op) \in Nat
  BY <1>1, TextIs DEF Parser
<1>4. ix \in Nat
  BY <1>1, <1>2
<1>5. ASSUME ix # P[l] - 1 \/ At(l) <= At(l - 1), NEW m \in 1 .. l - 1
      PROVE  Sound(tr, m)
  <2>1. /\ m = 1 => At(m) = 0
        /\ KindOf(m) # "garbled"
        /\ KindOf(m) \in Simple /\ Opens(m) => m = l - 1 /\ ix = P[l] - 1
        /\ KindOf(m) \in Conditions \/ IsElse(m) => Opens(m)
        /\ Placed(tr, m)
    BY DEF Parser, Parsed
  <2>2. ASSUME m = l - 1, Opens(m) PROVE At(l) > At(l - 1)
    <3>1. m \in DOMAIN text /\ m + 1 = l
      BY <1>1, <2>2, TextIs
    <3> QED BY <1>1, <2>2, <3>1, TextIs
  <2>3. KindOf(m) \in Simple => ~Opens(m)
    BY <1>3, <1>5, <2>1, <2>2
  <2> QED BY <2>1, <2>3 DEF Sound
<1> QED
  BY <1>1, <1>2, <1>3, <1>4, <1>5 DEF Parser, Parsed

LEMMA AtLine ==
  ASSUME NEW P, NEW ix, NEW op, NEW tr, Parser(P, ix, op, tr), NEW l, l = Len(tr) + 1,
         tokens[ix].is = "line"
  PROVE  /\ l \in DOMAIN text /\ ix = P[l] /\ tokens[ix] = Line(l)
         /\ 4 * Len(op) = At(l) /\ (l = 1 => At(l) = 0)
         /\ \A m \in 1 .. l - 1 : Sound(tr, m)
         /\ KindOf(l) = "else" => ~IsElse(l)
<1>1. Scanned(P) /\ l \in 1 .. Len(text) + 1 /\ ix \in P[l - 1] + 1 .. P[l]
  BY ParserIs DEF Parser
<1>2. ix = P[l] /\ l \in DOMAIN text /\ tokens[ix] = Line(l)
  BY <1>1, TokenIs
<1>3. At(l) \in Nat /\ At(l - 1) \in Nat /\ P[l - 1] \in Nat /\ P[l] \in Nat
  BY ParserIs
<1>4. \A m \in 1 .. l - 1 : Sound(tr, m)
  <2>1. ix # P[l] - 1
    BY <1>2, <1>3
  <2> QED BY <2>1, ParserIs
<1>5. KindOf(l) = "else" => ~IsElse(l)
  BY <1>2 DEF Parser, Parsed
<1>6. CASE At(l) > At(l - 1)
  <2>1. 4 * Len(op) = At(l) /\ l > 1
    BY <1>2, <1>3, <1>6 DEF Parser, Parsed
  <2> QED BY <1>2, <1>4, <1>5, <2>1
<1>7. CASE At(l) <= At(l - 1)
  <2>1. /\ 4 * Len(op) = At(l - 1) - 4 * (ix - P[l - 1] - 1)
        /\ 4 * (P[l] - P[l - 1] - 1) = At(l - 1) - At(l)
    <3>1. 4 * Len(op) = At(l - 1) - 4 * (ix - P[l - 1] - 1)
      BY <1>7, ParserIs
    <3>2. 4 * (P[l] - P[l - 1] - 1) = At(l - 1) - At(l)
      BY <1>1, <1>7 DEF Scanned, LaidOut
    <3> QED BY <3>1, <3>2
  <2>2. 4 * Len(op) = At(l)
    BY <1>2, <1>3, <2>1
  <2>3. l = 1 => At(l) = 0
    BY <1>1, <1>3, <1>7, TextIs DEF Scanned
  <2> QED BY <1>2, <1>4, <1>5, <2>2, <2>3
<1> QED
  BY <1>3, <1>6, <1>7

(* A statement is refused for what it is; or it is one more, in the block it
   looks to be in, and begins its own. *)
LEMMA StatementParsed ==
  ASSUME NEW P, NEW ix, NEW op, NEW tr, Parser(P, ix, op, tr), NEW l, l = Len(tr) + 1,
         tokens[ix].is = "line"
  PROVE  LET b == IF op = <<>> THEN Module ELSE op[Len(op)]
             refused == KindOf(l) = "garbled" \/ (KindOf(l) \in Conditions /\ tokens[ix + 1] # Indent)
             opens == tokens[ix + 1] = Indent /\ KindOf(l) \notin Simple
         IN  /\ tokens[ix].of = l /\ b \in Entries
             /\ refused => ~WellFormed
             /\ ~refused /\ opens =>
                  Parser(P, ix + 2, Append(op, [of |-> l, branch |-> "body"]), Append(tr, b))
             /\ ~refused /\ ~opens => Parser(P, ix + 1, op, Append(tr, b))
<1> DEFINE b == IF op = <<>> THEN Module ELSE op[Len(op)]
           refused == KindOf(l) = "garbled" \/ (KindOf(l) \in Conditions /\ tokens[ix + 1] # Indent)
           opens == tokens[ix + 1] = Indent /\ KindOf(l) \notin Simple
           tr2 == Append(tr, b)
           op2 == Append(op, [of |-> l, branch |-> "body"])
<1>1. Scanned(P) /\ Text /\ op \in Seq(Blocks) /\ tr \in Seq(Entries)
  BY DEF Parser, Scanned
<1>2. /\ l \in DOMAIN text /\ ix = P[l] /\ tokens[ix] = Line(l)
      /\ 4 * Len(op) = At(l) /\ (l = 1 => At(l) = 0)
      /\ \A m \in 1 .. l - 1 : Sound(tr, m)
      /\ KindOf(l) = "else" => ~IsElse(l)
  BY AtLine
<1>3. /\ \A k \in DOMAIN op :
           /\ op[k].branch \in {"body", "else"} /\ op[k].of \in 1 .. l - 1
           /\ \E h \in 1 .. l - 1 : At(h) = 4 * (k - 1) /\ Begins(tr, op[k], h, l)
      /\ l \in Nat /\ At(l) \in Nat /\ Len(op) \in Nat /\ P[l] \in Nat
  <2>1. \A k \in DOMAIN op :
           /\ op[k].branch \in {"body", "else"} /\ op[k].of \in 1 .. l - 1
           /\ \E h \in 1 .. l - 1 : At(h) = 4 * (k - 1) /\ Begins(tr, op[k], h, l)
    BY ParserIs
  <2>2. At(l) \in Nat /\ Len(op) \in Nat /\ P[l] \in Nat
    BY ParserIs
  <2>3. l \in Nat
    BY <1>1
  <2> QED BY <2>1, <2>2, <2>3
<1>4. tokens[ix + 1] = Indent <=> Opens(l)
  BY <1>1, <1>2, OpensIs
<1>5. refused => ~WellFormed
  BY <1>2, <1>4 DEF WellFormed
<1>6. b \in Entries /\ b.branch # "label"
  <2>1. CASE op = <<>>
    BY <2>1 DEF Module, Entries
  <2>2. CASE op # <<>>
    <3>1. b = op[Len(op)] /\ op[Len(op)] \in Blocks
      BY <1>1, <2>2
    <3> QED BY <3>1 DEF Blocks, Entries
  <2> QED BY <2>1, <2>2
<1>7. tr2 \in Seq(Entries) /\ tr2[l] = b /\ Len(tr2) = l /\ \A m \in 1 .. l - 1 : tr2[m] = tr[m]
  BY <1>1, <1>6
<1>8. ~IsElse(l)
  BY <1>2 DEF IsElse, IsElseOf
<1>9. Placed(tr2, l)
  <2>1. CASE op = <<>>
    <3>1. At(l) = 0
      BY <1>2, <2>1
    <3> QED BY <1>7, <1>8, <2>1, <3>1 DEF Placed
  <2>2. CASE op # <<>>
    <3>1. Len(op) \in DOMAIN op /\ b = op[Len(op)]
      BY <1>1, <2>2
    <3>2. PICK h \in 1 .. l - 1 : At(h) = 4 * (Len(op) - 1) /\ Begins(tr, b, h, l)
      BY <1>3, <3>1
    <3>3. At(h) + 4 = At(l)
      BY <1>2, <1>3, <3>2
    <3>4. Begins(tr2, b, h, l)
      BY <1>1, <1>3, <1>6, <3>2, Longer
    <3>5. b.branch \in {"body", "else"} /\ b.of \in 1 .. l - 1
      BY <1>3, <3>1
    <3> QED BY <1>7, <1>8, <3>3, <3>4, <3>5 DEF Placed
  <2> QED BY <2>1, <2>2
<1>10. ASSUME NEW k \in DOMAIN op
       PROVE  op[k].of \in 1 .. l /\ \E h \in 1 .. l : At(h) = 4 * (k - 1) /\ Begins(tr2, op[k], h, l + 1)
  <2>1. PICK h \in 1 .. l - 1 : At(h) = 4 * (k - 1) /\ Begins(tr, op[k], h, l)
    BY <1>3
  <2>2. At(l) > At(h)
    BY <1>1, <1>2, <1>3, <2>1
  <2>3. Begins(tr2, op[k], h, l)
    BY <1>1, <1>3, <1>6, <2>1, Longer
  <2>4. Begins(tr2, op[k], h, l + 1)
    BY <1>1, <1>3, <2>2, <2>3, BeginsOn
  <2>5. h \in 1 .. l
    BY <1>3, <2>1
  <2>6. op[k].of \in 1 .. l
    BY <1>3
  <2> QED BY <2>1, <2>4, <2>5, <2>6
<1>11. [of |-> l, branch |-> "body"] \in Blocks
  BY <1>3 DEF Blocks
<1>12. Begins(tr2, [of |-> l, branch |-> "body"], l, l + 1)
  BY <1>3, <1>6, <1>7 DEF Begins
<1> HIDE DEF b, tr2
<1>13. ASSUME ~refused, opens
       PROVE  Parsed(P, ix + 2, op2, tr2)
  <2>1. op2 \in Seq(Blocks) /\ Len(op2) = Len(op) + 1
    BY <1>1, <1>11
  <2>2. ASSUME NEW k \in DOMAIN op2
        PROVE  op2[k].of \in 1 .. l /\ \E h \in 1 .. l : At(h) = 4 * (k - 1) /\ Begins(tr2, op2[k], h, l + 1)
    <3>1. CASE k \in DOMAIN op
      <4>1. op2[k] = op[k]
        BY <1>1, <3>1
      <4> QED BY <1>10, <3>1, <4>1
    <3>2. CASE k \notin DOMAIN op
      <4>1. k = Len(op) + 1 /\ op2[k] = [of |-> l, branch |-> "body"]
        BY <1>1, <1>11, <3>2
      <4>2. At(l) = 4 * (k - 1) /\ l \in 1 .. l
        BY <1>2, <1>3, <4>1, TextIs
      <4> QED BY <1>12, <4>1, <4>2
    <3> QED BY <3>1, <3>2
  <2> HIDE DEF op2
  <2>3. Opens(l) /\ KindOf(l) \notin Simple /\ KindOf(l) # "garbled"
    BY <1>4, <1>13
  <2>4. 4 * Len(op2) = At(l) + 4
    BY <1>2, <1>3, <2>1
  <2> QED BY <1>1, <1>2, <1>6, <1>7, <1>9, <2>1, <2>2, <2>3, <2>4, LineParsed DEF tr2
<1>14. ASSUME ~refused, ~opens
       PROVE  Parsed(P, ix + 1, op, tr2)
  <2>1. (Opens(l) => KindOf(l) \in Simple) /\ KindOf(l) # "garbled"
    BY <1>4, <1>14
  <2>2. KindOf(l) \in Conditions \/ IsElse(l) => Opens(l)
    BY <1>4, <1>8, <1>14
  <2> QED BY <1>1, <1>2, <1>6, <1>7, <1>9, <1>10, <2>1, <2>2, LineParsed DEF tr2
<1>15. op2 \in Seq(Blocks)
  BY <1>1, <1>11
<1>16. tokens[ix].of = l
  BY <1>2, TokensDiffer
<1> QED
  BY <1>1, <1>5, <1>6, <1>7, <1>13, <1>14, <1>15, <1>16 DEF Parser, b, tr2

LEMMA AtDedent ==
  ASSUME NEW P, NEW ix, NEW op, NEW tr, Parser(P, ix, op, tr), NEW l, l = Len(tr) + 1,
         tokens[ix] = Dedent
  PROVE  /\ ix + 1 \in P[l - 1] + 1 .. P[l] /\ At(l) <= At(l - 1)
         /\ Len(op) > 0 /\ 4 * Len(op) >= At(l) + 4
         /\ ix + 1 = P[l] => 4 * Len(op) = At(l) + 4
         /\ \A m \in 1 .. l - 1 : Sound(tr, m)
<1>1. Scanned(P) /\ l \in 1 .. Len(text) + 1 /\ ix \in P[l - 1] + 1 .. P[l]
  BY ParserIs DEF Parser
<1>2. At(l) <= At(l - 1) /\ ix < P[l]
  BY <1>1, TokenIs
<1>3. /\ At(l) \in Nat /\ At(l - 1) \in Nat /\ P[l - 1] \in Nat /\ P[l] \in Nat
      /\ Len(op) \in Nat /\ ix \in Nat
  BY ParserIs
<1>4. \A m \in 1 .. l - 1 : Sound(tr, m)
  BY <1>2, ParserIs
<1>5. 4 * Len(op) = At(l - 1) - 4 * (ix - P[l - 1] - 1)
  BY <1>2, ParserIs
<1>6. 4 * (P[l] - P[l - 1] - 1) = At(l - 1) - At(l)
  BY <1>1, <1>2 DEF Scanned, LaidOut
<1>7. 4 * Len(op) >= At(l) + 4 /\ (ix + 1 = P[l] => 4 * Len(op) = At(l) + 4)
  <2> DEFINE p == P[l - 1]
             q == P[l]
  <2> HIDE DEF p, q
  <2>1. p \in Nat /\ q \in Nat /\ ix < q
    BY <1>2, <1>3 DEF p, q
  <2>2. 4 * Len(op) = At(l - 1) - 4 * (ix - p - 1) /\ 4 * (q - p - 1) = At(l - 1) - At(l)
    BY <1>5, <1>6 DEF p, q
  <2>3. 4 * Len(op) = At(l) + 4 * (q - ix)
    BY <1>3, <2>1, <2>2
  <2>4. 4 * Len(op) >= At(l) + 4 /\ (ix + 1 = q => 4 * Len(op) = At(l) + 4)
    BY <1>3, <2>1, <2>3
  <2> QED BY <2>4 DEF q
<1>8. ix + 1 \in P[l - 1] + 1 .. P[l]
  BY <1>1, <1>2, <1>3
<1> QED
  BY <1>2, <1>3, <1>4, <1>7, <1>8

LEMMA OneLess ==
  ASSUME NEW a \in Nat, NEW p \in Nat, NEW n \in Nat, NEW ix \in Nat, 4 * n = a - 4 * (ix - p - 1)
  PROVE  4 * (n - 1) = a - 4 * ((ix + 1) - p - 1)
OBVIOUS

\* The block that ends at a dedent, and those around it.
Outer(op) == SubSeq(op, 1, Len(op) - 1)

LEMMA OuterIs ==
  ASSUME NEW S, NEW op \in Seq(S), Len(op) > 0
  PROVE  /\ Outer(op) \in Seq(S) /\ Len(Outer(op)) = Len(op) - 1
         /\ op[Len(op)] \in S
         /\ \A k \in DOMAIN Outer(op) : k \in DOMAIN op /\ k <= Len(op) - 1 /\ Outer(op)[k] = op[k]
<1>1. Len(op) \in Nat /\ Len(op) - 1 \in Nat
  OBVIOUS
<1>2. /\ Outer(op) = [k \in 1 .. Len(op) - 1 |-> op[k]]
      /\ Len(Outer(op)) = Len(op) - 1
  <2>1. Outer(op) \in Seq(S) /\ Len(Outer(op)) = Len(op) - 1 /\ \A k \in 1 .. Len(op) - 1 : Outer(op)[k] = op[k]
    <3>1. \A i \in 1 .. Len(op) - 1 : op[i] \in S
      OBVIOUS
    <3>2. /\ Outer(op) \in Seq(S)
          /\ Len(Outer(op)) = IF 1 <= Len(op) - 1 THEN (Len(op) - 1) - 1 + 1 ELSE 0
          /\ \A i \in 1 .. (Len(op) - 1) - 1 + 1 : Outer(op)[i] = op[1 + i - 1]
      BY <1>1, <3>1, SubSeqProperties DEF Outer
    <3>3. Len(Outer(op)) = Len(op) - 1
      <4>1. ASSUME NEW n \in Nat, n > 0 PROVE (IF 1 <= n - 1 THEN (n - 1) - 1 + 1 ELSE 0) = n - 1
        BY <4>1
      <4>2. (IF 1 <= Len(op) - 1 THEN (Len(op) - 1) - 1 + 1 ELSE 0) = Len(op) - 1
        BY <1>1, <4>1
      <4> QED BY <3>2, <4>2
    <3>4. ASSUME NEW k \in 1 .. Len(op) - 1 PROVE Outer(op)[k] = op[k]
      <4>1. k \in 1 .. (Len(op) - 1) - 1 + 1 /\ 1 + k - 1 = k
        BY <1>1
      <4> QED BY <3>2, <4>1
    <3> QED BY <3>2, <3>3, <3>4
  <2> QED BY <1>1, <2>1
<1>3. \A k \in 1 .. Len(op) - 1 : op[k] \in S
  OBVIOUS
<1> QED
  BY <1>1, <1>2, <1>3

(* The line after the last dedent is an else of the block that ends there
   exactly if that is the body of an "if". *)
LEMMA ElseOfEnded ==
  ASSUME NEW P, NEW ix, NEW op, NEW tr, Parser(P, ix, op, tr), NEW l, l = Len(tr) + 1,
         tokens[ix] = Dedent, ix + 1 = P[l], l \in DOMAIN text, KindOf(l) = "else"
  PROVE  LET ended == op[Len(op)]
         IN  IF KindOf(ended.of) \in Conditions /\ ended.branch = "body"
             THEN IsElseOf(l, ended.of) ELSE ~IsElse(l)
<1> DEFINE ended == op[Len(op)]
<1>1. Text /\ l \in Nat /\ At(l) \in Nat /\ Len(op) \in Nat /\ l \in 1 .. Len(text) + 1
  BY ParserIs
<1>2. 4 * Len(op) = At(l) + 4 /\ Len(op) \in DOMAIN op
  BY <1>1, AtDedent, op \in Seq(Blocks) DEF Parser
<1>3. /\ ended.branch \in {"body", "else"} /\ ended.of \in 1 .. l - 1
      /\ \E h \in 1 .. l - 1 : At(h) = 4 * (Len(op) - 1) /\ Begins(tr, ended, h, l)
  BY <1>2, ParserIs
<1>4. PICK h \in 1 .. l - 1 : At(h) = 4 * (Len(op) - 1) /\ Begins(tr, ended, h, l)
  BY <1>3
<1>5. At(h) = At(l) /\ h \in DOMAIN text /\ \A j \in h + 1 .. l - 1 : At(j) > At(h)
  BY <1>1, <1>2, <1>4, TextIs DEF Begins
<1>6. ended.branch = "body" => h = ended.of
  BY <1>4 DEF Begins
<1>7. ended.branch = "else" => KindOf(h) \notin Conditions
  <2>1. ended.branch = "else" => KindOf(h) = "else"
    BY <1>4 DEF Begins, IsElseOf
  <2> QED BY <2>1, ConditionsAreNew
<1> HIDE DEF ended
<1>8. CASE KindOf(ended.of) \in Conditions /\ ended.branch = "body"
  <2>1. IsElseOf(l, h)
    BY <1>1, <1>4, <1>5, <1>6, <1>8, ElseIs
  <2> QED BY <1>6, <1>8, <2>1 DEF ended
<1>9. CASE ~(KindOf(ended.of) \in Conditions /\ ended.branch = "body")
  <2>1. SUFFICES ASSUME IsElse(l) PROVE FALSE
    BY <1>9 DEF ended
  <2>2. PICK m \in DOMAIN text : IsElseOf(l, m)
    BY <2>1 DEF IsElse
  <2>3. /\ KindOf(m) \in Conditions /\ m < l /\ At(m) = At(l)
        /\ \A k \in m + 1 .. l - 1 : At(k) > At(m)
    BY <1>1, <2>2, ElseIs
  <2>4. m = h
    <3>1. m \in Nat /\ h \in Nat /\ m < l /\ h < l
      BY <1>1, <1>4, <2>3, TextIs
    <3>2. ~(m < h)
      <4>1. m < h => h \in m + 1 .. l - 1
        BY <3>1, <1>1
      <4> QED BY <1>1, <1>5, <2>3, <4>1
    <3>3. ~(h < m)
      <4>1. h < m => m \in h + 1 .. l - 1
        BY <3>1, <1>1
      <4> QED BY <1>1, <1>5, <2>3, <4>1
    <3> QED BY <3>1, <3>2, <3>3
  <2> QED BY <1>3, <1>6, <1>7, <1>9, <2>3, <2>4
<1> QED
  BY <1>8, <1>9 DEF ended

(* A block ends: an else without a block is refused, another one begins the
   other block, and anything else is for the block around it. *)
LEMMA BlockEndParsed ==
  ASSUME NEW P, NEW ix, NEW op, NEW tr, Parser(P, ix, op, tr), NEW l, l = Len(tr) + 1,
         tokens[ix] = Dedent
  PROVE  LET ended == op[Len(op)]
             next == tokens[ix + 1]
             else == /\ KindOf(ended.of) \in Conditions /\ ended.branch = "body"
                     /\ next.is = "line" /\ KindOf(next.of) = "else"
         IN  /\ else /\ tokens[ix + 2] # Indent => ~WellFormed
             /\ else /\ tokens[ix + 2] = Indent =>
                  Parser(P, ix + 3, Append(Outer(op), [of |-> ended.of, branch |-> "else"]),
                         Append(tr, [of |-> ended.of, branch |-> "label"]))
             /\ ~else => Parser(P, ix + 1, Outer(op), tr)
<1> DEFINE ended == op[Len(op)]
           next == tokens[ix + 1]
           else == /\ KindOf(ended.of) \in Conditions /\ ended.branch = "body"
                   /\ next.is = "line" /\ KindOf(next.of) = "else"
           b == [of |-> ended.of, branch |-> "else"]
           x == [of |-> ended.of, branch |-> "label"]
           op2 == Append(Outer(op), b)
           tr2 == Append(tr, x)
<1>1. Scanned(P) /\ Text /\ op \in Seq(Blocks) /\ tr \in Seq(Entries)
  BY DEF Parser, Scanned
<1>2. /\ ix + 1 \in P[l - 1] + 1 .. P[l] /\ At(l) <= At(l - 1)
      /\ Len(op) > 0 /\ 4 * Len(op) >= At(l) + 4
      /\ ix + 1 = P[l] => 4 * Len(op) = At(l) + 4
      /\ \A m \in 1 .. l - 1 : Sound(tr, m)
  BY AtDedent
<1>0. /\ l \in Nat /\ l > 0 /\ At(l) \in Nat /\ Len(op) \in Nat /\ P[l] \in Nat
      /\ At(l - 1) \in Nat /\ P[l - 1] \in Nat /\ ix \in Nat
  <2>1. l \in 1 .. Len(text) + 1 /\ Len(text) \in Nat
    BY <1>1, ParserIs, TextIs
  <2> QED BY <2>1, ParserIs
<1>12. l \in 1 .. Len(text) + 1
  BY ParserIs
<1>3. \A k \in DOMAIN op :
           /\ op[k].branch \in {"body", "else"} /\ op[k].of \in 1 .. l - 1
           /\ \E h \in 1 .. l - 1 : At(h) = 4 * (k - 1) /\ Begins(tr, op[k], h, l)
  BY ParserIs
<1>4. /\ Outer(op) \in Seq(Blocks) /\ Len(Outer(op)) = Len(op) - 1
      /\ ended \in Blocks /\ Len(op) \in DOMAIN op
      /\ \A k \in DOMAIN Outer(op) : k \in DOMAIN op /\ k <= Len(op) - 1 /\ Outer(op)[k] = op[k]
  BY <1>1, <1>2, OuterIs
<1>5. next.is = "line" <=> ix + 1 = P[l] /\ l \in DOMAIN text
  <2>1. tokens[ix + 1].is = "line" <=> ix + 1 = P[l] /\ l \in DOMAIN text
    BY <1>1, <1>2, <1>12, TokenIs
  <2> QED BY <2>1
<1>6. next.is = "line" => next.of = l
  <2>1. tokens[ix + 1].is = "line" => tokens[ix + 1] = Line(l)
    BY <1>1, <1>2, <1>12, TokenIs
  <2> QED BY <2>1, TokensDiffer
<1>7. ended.of \in 1 .. l - 1 /\ ended.of \in Nat /\ b \in Blocks /\ x \in Entries
  BY <1>0, <1>3, <1>4 DEF Blocks, Entries
<1>8. ASSUME else
      PROVE  /\ l \in DOMAIN text /\ ix + 1 = P[l] /\ IsElseOf(l, ended.of) /\ IsElse(l)
             /\ tokens[ix + 2] = Indent <=> Opens(l)
  <2>1. l \in DOMAIN text /\ ix + 1 = P[l] /\ KindOf(l) = "else"
    BY <1>5, <1>6, <1>8
  <2>2. IsElseOf(l, ended.of)
    BY <1>8, <2>1, ElseOfEnded
  <2>3. IsElse(l)
    BY <1>1, <1>0, <1>3, <1>7, <2>2, <1>12, TextIs DEF IsElse
  <2>4. tokens[P[l] + 1] = Indent <=> Opens(l)
    BY <1>1, <2>1, OpensIs
  <2>5. P[l] + 1 = ix + 2
    BY <1>0, <1>3, <2>1
  <2> QED BY <2>1, <2>2, <2>3, <2>4, <2>5
<1>9. else /\ tokens[ix + 2] # Indent => ~WellFormed
  BY <1>8 DEF WellFormed
<1>10. ASSUME else, tokens[ix + 2] = Indent
       PROVE  Parser(P, ix + 3, op2, tr2)
  <2>1. l \in DOMAIN text /\ ix + 3 = P[l] + 2 /\ IsElseOf(l, ended.of) /\ Opens(l) /\ KindOf(l) = "else"
    BY <1>0, <1>3, <1>6, <1>8, <1>10
  <2>2. KindOf(l) \notin Simple
    BY <2>1 DEF Simple
  <2>3. op2 \in Seq(Blocks) /\ Len(op2) = Len(op) /\ 4 * Len(op2) = At(l) + 4
    BY <1>2, <1>0, <1>3, <1>4, <1>7, <1>8, <1>10
  <2>4. tr2 \in Seq(Entries) /\ tr2[l] = x /\ Len(tr2) = l
    BY <1>1, <1>7
  <2>5. Placed(tr2, l)
    BY <1>7, <2>1, <2>4 DEF Placed
  <2>6. l = 1 => At(l) = 0
    BY <1>1, <1>2, <1>0, <1>3, <1>12, TextIs
  <2>8. ASSUME NEW k \in DOMAIN op2
        PROVE  \/ k \in DOMAIN op /\ k \in Nat /\ k <= Len(op) - 1 /\ op2[k] = op[k]
               \/ k = Len(op) /\ op2[k] = b
    <3>1. CASE k \in DOMAIN Outer(op)
      BY <1>1, <1>4, <1>7, <3>1
    <3>2. CASE k \notin DOMAIN Outer(op)
      BY <1>0, <1>4, <1>7, <3>2
    <3> QED BY <3>1, <3>2
  <2>9. b.of = ended.of /\ b.branch = "else"
    OBVIOUS
  <2> HIDE DEF op2, x, b, tr2, ended
  <2>7. ASSUME NEW k \in DOMAIN op2
        PROVE  op2[k].of \in 1 .. l /\ \E h \in 1 .. l : At(h) = 4 * (k - 1) /\ Begins(tr2, op2[k], h, l + 1)
    <3>1. CASE k \in DOMAIN op /\ k \in Nat /\ k <= Len(op) - 1 /\ op2[k] = op[k]
      <4>2. PICK h \in 1 .. l - 1 : At(h) = 4 * (k - 1) /\ Begins(tr, op[k], h, l)
        BY <1>3, <3>1
      <4>3. At(l) > At(h)
        BY <1>0, <2>3, <3>1, <4>2
      <4>4. Begins(tr2, op[k], h, l)
        BY <1>0, <1>1, <1>7, <4>2, Longer DEF tr2
      <4>5. Begins(tr2, op[k], h, l + 1)
        BY <1>0, <1>1, <4>3, <4>4, BeginsOn
      <4>6. h \in 1 .. l /\ op[k].of \in 1 .. l
        <5>1. op[k].of \in 1 .. l - 1
          BY <1>3, <3>1
        <5> QED BY <1>0, <5>1
      <4> QED BY <3>1, <4>2, <4>5, <4>6
    <3>2. CASE k = Len(op) /\ op2[k] = b
      <4>2. At(l) = 4 * (k - 1)
        BY <1>0, <2>3, <3>2
      <4>3. Begins(tr2, b, l, l + 1)
        <5>1. l \in 1 .. (l + 1) - 1 /\ \A j \in l + 1 .. (l + 1) - 1 : At(j) > At(l)
          BY <1>0
        <5> QED BY <2>1, <2>9, <5>1 DEF Begins
      <4>4. b.of \in 1 .. l /\ l \in 1 .. l
        BY <1>0, <1>7, <2>9
      <4> QED BY <3>2, <4>2, <4>3, <4>4
    <3> QED BY <2>8, <3>1, <3>2
  <2>10. Parsed(P, ix + 3, op2, tr2)
    BY <1>1, <1>2, <1>7, <2>1, <2>2, <2>3, <2>5, <2>6, <2>7, LineParsed DEF tr2
  <2> QED BY <1>1, <2>3, <2>4, <2>10 DEF Parser
<1>11. ASSUME ~else
       PROVE  Parser(P, ix + 1, Outer(op), tr)
  <2>1. 4 * Len(Outer(op)) = At(l - 1) - 4 * ((ix + 1) - P[l - 1] - 1)
    <3>1. 4 * Len(op) = At(l - 1) - 4 * (ix - P[l - 1] - 1)
      BY <1>2, ParserIs
    <3>2. Len(Outer(op)) = Len(op) - 1
      BY <1>4
    <3> HIDE DEF ended, next, b, x, op2, tr2
    <3>3. 4 * (Len(op) - 1) = At(l - 1) - 4 * ((ix + 1) - P[l - 1] - 1)
      <4>1. At(l - 1) \in Nat /\ P[l - 1] \in Nat /\ Len(op) \in Nat /\ ix \in Nat
        BY <1>0
      <4> DEFINE a == At(l - 1)
                 p == P[l - 1]
                 n == Len(op)
      <4>2. a \in Nat /\ p \in Nat /\ n \in Nat /\ ix \in Nat /\ 4 * n = a - 4 * (ix - p - 1)
        BY <3>1, <4>1
      <4> HIDE DEF a, p, n
      <4>3. 4 * (n - 1) = a - 4 * ((ix + 1) - p - 1)
        BY <4>2, OneLess
      <4> QED BY <4>3 DEF a, p, n
    <3> QED BY <3>2, <3>3
  <2>2. ~(At(l) > At(l - 1))
    BY <1>2, <1>0, <1>3
  <2>3. ASSUME NEW k \in DOMAIN Outer(op)
        PROVE  /\ Outer(op)[k].branch \in {"body", "else"} /\ Outer(op)[k].of \in 1 .. l - 1
               /\ \E h \in 1 .. l - 1 : At(h) = 4 * (k - 1) /\ Begins(tr, Outer(op)[k], h, l)
    BY <1>0, <1>3, <1>4
  <2>4. ix + 1 = P[l] /\ l \in DOMAIN text /\ KindOf(l) = "else" => ~IsElse(l)
    BY <1>5, <1>6, <1>11, ElseOfEnded
  <2>6. \A m \in 1 .. l - 1 :
          /\ m = 1 => At(m) = 0
          /\ KindOf(m) # "garbled"
          /\ ~(KindOf(m) \in Simple /\ Opens(m))
          /\ KindOf(m) \in Conditions \/ IsElse(m) => Opens(m)
          /\ Placed(tr, m)
    BY <1>2 DEF Sound
  <2> HIDE DEF ended, next, b, x, op2, tr2
  <2>5. Parsed(P, ix + 1, Outer(op), tr)
    BY <1>2, <1>12, <2>1, <2>2, <2>3, <2>4, <2>6 DEF Parsed
  <2> QED BY <1>1, <1>4, <2>5 DEF Parser
<1> QED
  BY <1>9, <1>10, <1>11

(* An INDENT is unexpected if the first line is further in, or a simple
   statement has a block. *)
LEMMA IndentParsed ==
  ASSUME NEW P, NEW ix, NEW op, NEW tr, Parser(P, ix, op, tr), tokens[ix] = Indent
  PROVE  ~WellFormed
<1> DEFINE l == Len(tr) + 1
<1>1. Scanned(P) /\ Text /\ l \in 1 .. Len(text) + 1 /\ ix \in P[l - 1] + 1 .. P[l]
  BY ParserIs DEF Parser
<1>2. At(l) > At(l - 1) /\ ix = P[l] - 1 /\ P[l] \in Nat /\ At(l) \in Nat /\ At(l - 1) \in Nat
  BY <1>1, TokenIs, ParserIs
<1>3. l = 1 \/ KindOf(l - 1) \in Simple
  BY <1>2 DEF Parser, Parsed
<1> HIDE DEF l
<1>4. CASE l = 1
  <2>1. At(1) > 0
    BY <1>1, <1>2, <1>4, TextIs
  <2>2. 1 \in DOMAIN text /\ text[1].indent # 0
    BY <1>1, <2>1 DEF At
  <2> QED BY <2>2 DEF WellFormed
<1>5. CASE l # 1
  <2>1. l - 1 \in DOMAIN text /\ (l - 1) + 1 = l
    BY <1>1, <1>5, TextIs
  <2>2. Opens(l - 1)
    BY <1>1, <1>2, <2>1, TextIs
  <2> QED BY <1>3, <1>5, <2>1, <2>2 DEF WellFormed
<1> QED
  BY <1>4, <1>5

(* At the end all lines are in the tree, and well formed. *)
LEMMA EndParsed ==
  ASSUME NEW P, NEW ix, NEW op, NEW tr, Parser(P, ix, op, tr), tokens[ix] = Eof
  PROVE  WellFormed /\ Len(tr) = Len(text) /\ \A l \in DOMAIN text : Placed(tr, l)
<1> DEFINE l == Len(tr) + 1
<1>1. Scanned(P) /\ Text /\ l \in 1 .. Len(text) + 1 /\ ix \in P[l - 1] + 1 .. P[l]
  BY ParserIs DEF Parser
<1>2. ix = P[l] /\ l = Len(text) + 1 /\ P[l] \in Nat /\ Len(tr) = Len(text)
  <2>1. ix = P[l] /\ l = Len(text) + 1 /\ P[l] \in Nat
    BY <1>1, TokenIs, ParserIs
  <2>2. Len(tr) \in Nat /\ Len(text) \in Nat
    BY <1>1, TextIs DEF Parser
  <2> QED BY <2>1, <2>2
<1>3. \A m \in 1 .. l - 1 : Sound(tr, m)
  <2>1. ix # P[l] - 1
    BY <1>2
  <2> QED BY <2>1, ParserIs
<1>4. DOMAIN text = 1 .. l - 1
  BY <1>1, <1>2, TextIs
<1>5. WellFormed
  BY <1>1, <1>3, <1>4, TextIs DEF WellFormed, Sound
<1> QED
  BY <1>2, <1>3, <1>4, <1>5 DEF Sound

-----------------------------------------------------------------------------
\* Lexing.

(* The stack has the indentations 0, 4, 8 and so on: a line that is further
   out goes back to the one that is its own. *)
LEMMA StackIs ==
  ASSUME indents \in Seq(Nat), indents # <<>>, \A i \in DOMAIN indents : indents[i] = 4 * (i - 1),
         NEW indent \in Nat, indent % 4 = 0
  PROVE  /\ Len(indents) \in Nat \ {0} /\ Top = 4 * (Len(indents) - 1)
         /\ indent <= Top =>
              /\ LeftOpen(indent) \in Seq(Nat) /\ LeftOpen(indent) # <<>>
              /\ 4 * (Len(LeftOpen(indent)) - 1) = indent
              /\ Len(LeftOpen(indent)) <= Len(indents)
              /\ \A i \in DOMAIN LeftOpen(indent) : LeftOpen(indent)[i] = 4 * (i - 1)
              /\ LeftOpen(indent)[Len(LeftOpen(indent))] = indent
<1>1. Len(indents) \in Nat \ {0} /\ DOMAIN indents = 1 .. Len(indents)
  OBVIOUS
<1>2. Top = 4 * (Len(indents) - 1)
  BY <1>1 DEF Top
<1> SUFFICES ASSUME indent <= Top
             PROVE  /\ LeftOpen(indent) \in Seq(Nat) /\ LeftOpen(indent) # <<>>
                    /\ 4 * (Len(LeftOpen(indent)) - 1) = indent
                    /\ Len(LeftOpen(indent)) <= Len(indents)
                    /\ \A i \in DOMAIN LeftOpen(indent) : LeftOpen(indent)[i] = 4 * (i - 1)
                    /\ LeftOpen(indent)[Len(LeftOpen(indent))] = indent
  BY <1>1, <1>2
<1>3. PICK k \in Nat : indent = 4 * k
  BY Quarter
<1>4. k + 1 \in DOMAIN indents
  BY <1>1, <1>2, <1>3
<1> DEFINE Last(n) == indents[n] <= indent /\ \A m \in DOMAIN indents : m > n => indents[m] > indent
<1>5. Last(k + 1)
  <2>1. indents[k + 1] <= indent
    BY <1>1, <1>3, <1>4
  <2>2. ASSUME NEW m \in DOMAIN indents, m > k + 1 PROVE indents[m] > indent
    BY <1>1, <1>3, <2>2
  <2> QED BY <2>1, <2>2
<1>6. ASSUME NEW n \in DOMAIN indents, Last(n) PROVE n = k + 1
  <2>1. n \in Nat /\ indents[n] = 4 * (n - 1)
    BY <1>1
  <2>2. n <= k + 1
    BY <1>3, <1>6, <2>1
  <2>3. ~(k + 1 > n)
    <3>1. k + 1 > n => indents[k + 1] > indent
      BY <1>4, <1>6
    <3> QED BY <1>1, <1>3, <1>4, <3>1
  <2> QED BY <2>1, <2>2, <2>3
<1>7. (CHOOSE n \in DOMAIN indents : Last(n)) = k + 1
  BY <1>4, <1>5, <1>6
<1>8. LeftOpen(indent) = SubSeq(indents, 1, k + 1)
  BY <1>7 DEF LeftOpen
<1> HIDE DEF Last
<1>9. /\ LeftOpen(indent) \in Seq(Nat) /\ Len(LeftOpen(indent)) = k + 1
      /\ \A i \in 1 .. k + 1 : LeftOpen(indent)[i] = indents[i]
  <2>1. \A i \in 1 .. k + 1 : indents[i] \in Nat
    BY <1>1, <1>4
  <2>2. /\ LeftOpen(indent) \in Seq(Nat)
        /\ Len(LeftOpen(indent)) = IF 1 <= k + 1 THEN (k + 1) - 1 + 1 ELSE 0
        /\ \A i \in 1 .. (k + 1) - 1 + 1 : LeftOpen(indent)[i] = indents[1 + i - 1]
    BY <1>8, <2>1, SubSeqProperties
  <2>3. Len(LeftOpen(indent)) = k + 1
    BY <2>2
  <2>4. ASSUME NEW i \in 1 .. k + 1 PROVE LeftOpen(indent)[i] = indents[i]
    <3>1. i \in 1 .. (k + 1) - 1 + 1 /\ 1 + i - 1 = i
      OBVIOUS
    <3> QED BY <2>2, <3>1
  <2> QED BY <2>2, <2>3, <2>4
<1>10. \A i \in 1 .. k + 1 : LeftOpen(indent)[i] = 4 * (i - 1)
  <2>1. \A i \in 1 .. k + 1 : i \in DOMAIN indents
    BY <1>1, <1>4
  <2> QED BY <1>9, <2>1
<1>11. DOMAIN LeftOpen(indent) = 1 .. k + 1 /\ LeftOpen(indent) # <<>>
  BY <1>9
<1>12. 4 * (Len(LeftOpen(indent)) - 1) = indent /\ Len(LeftOpen(indent)) <= Len(indents)
  <2>1. 4 * ((k + 1) - 1) = indent /\ k + 1 <= Len(indents)
    BY <1>1, <1>3, <1>4
  <2> QED BY <1>9, <2>1
<1>13. LeftOpen(indent)[Len(LeftOpen(indent))] = indent
  BY <1>3, <1>9, <1>10
<1> QED
  BY <1>9, <1>10, <1>11, <1>12, <1>13

\* The first n lines stay as they are, and after them there is one more, or the
\* end, and its tokens.
Grows(n, gap, t) ==
  /\ tokens' = tokens \o gap \o <<t>>
  /\ gap \in Seq({Indent, Dedent}) /\ t \in {Eof} \union {Line(l) : l \in Nat}
  /\ \A l \in 0 .. n : At(l)' = At(l) /\ (l \in DOMAIN text' <=> l \in DOMAIN text)
  /\ \A l \in 0 .. n + 1 : At(l)' \in Nat
  /\ t = IF n + 1 \in DOMAIN text' THEN Line(n + 1) ELSE Eof
  /\ At(n + 1)' > At(n) => gap = <<Indent>>
  /\ At(n + 1)' <= At(n) =>
       4 * Len(gap) = At(n) - At(n + 1)' /\ \A k \in 1 .. Len(gap) : gap[k] = Dedent

(* One more token at the end, with what comes before it. *)
LEMMA MoreTokens ==
  ASSUME NEW P, NEW n \in Nat, LaidOut(P, n), Tokens, NEW gap, NEW t, Grows(n, gap, t)
  PROVE  Tokens' /\ \E Q : LaidOut(Q, n + 1)'
<1> DEFINE L == Len(tokens)
           G == Len(gap)
           Q == [l \in 0 .. n + 1 |-> IF l <= n THEN P[l] ELSE L + G + 1]
<1>1. /\ L \in Nat /\ G \in Nat
      /\ tokens' \in Seq({Indent, Dedent, Eof} \union {Line(l) : l \in Nat})
      /\ Len(tokens') = L + G + 1
      /\ \A k \in 1 .. L : tokens'[k] = tokens[k]
      /\ \A k \in 1 .. G : tokens'[L + k] = gap[k]
      /\ tokens'[L + G + 1] = t
  <2> DEFINE S == {Indent, Dedent, Eof} \union {Line(l) : l \in Nat}
             part == tokens \o gap
  <2>0. tokens \in Seq(S) /\ gap \in Seq(S) /\ <<t>> \in Seq(S) /\ Len(<<t>>) = 1 /\ <<t>>[1] = t
    BY DEF Tokens, Grows
  <2> HIDE DEF S
  <2>1. L \in Nat /\ G \in Nat
    BY <2>0
  <2>2. /\ part \in Seq(S) /\ Len(part) = L + G
        /\ \A k \in 1 .. L : part[k] = tokens[k]
        /\ \A k \in 1 .. G : part[L + k] = gap[k]
    BY <2>0, <2>1
  <2>3. tokens' = part \o <<t>>
    BY DEF Grows
  <2> HIDE DEF part
  <2>4. /\ tokens' \in Seq(S) /\ Len(tokens') = L + G + 1
        /\ \A k \in 1 .. L + G : tokens'[k] = part[k]
        /\ tokens'[L + G + 1] = t
    <3> HIDE DEF L, G, Q
    <3> DEFINE last == <<t>>
    <3>1. last \in Seq(S) /\ Len(last) = 1 /\ last[1] = t /\ tokens' = part \o last
      BY <2>0, <2>3
    <3> HIDE DEF last
    <3>2. /\ tokens' \in Seq(S) /\ Len(tokens') = Len(part) + 1
          /\ \A k \in 1 .. Len(part) : tokens'[k] = part[k]
          /\ tokens'[Len(part) + 1] = last[1]
      <4>1. part \in Seq(S) /\ Len(part) \in Nat
        BY <2>2
      <4>2. /\ part \o last \in Seq(S) /\ Len(part \o last) = Len(part) + Len(last)
            /\ \A k \in 1 .. Len(part) + Len(last) :
                 (part \o last)[k] = IF k <= Len(part) THEN part[k] ELSE last[k - Len(part)]
        BY <3>1, <4>1, ConcatProperties
      <4>3. \A k \in 1 .. Len(part) : k \in 1 .. Len(part) + 1 /\ k <= Len(part)
        BY <4>1
      <4>4. /\ Len(part) + 1 \in 1 .. Len(part) + 1 /\ ~(Len(part) + 1 <= Len(part))
            /\ (Len(part) + 1) - Len(part) = 1
        BY <4>1
      <4> QED BY <3>1, <4>2, <4>3, <4>4
    <3> QED BY <2>2, <3>1, <3>2
  <2>5. \A k \in 1 .. L : k \in 1 .. L + G
    BY <2>1
  <2>6. \A k \in 1 .. G : L + k \in 1 .. L + G
    BY <2>1
  <2> QED BY <2>1, <2>2, <2>4, <2>5, <2>6 DEF S
<1>0. L \in Nat /\ G \in Nat
  BY <1>1
<1> HIDE DEF G
<1>2. /\ P \in [0 .. n -> Nat] /\ P[0] = 0 /\ P[n] = L /\ \A l \in 0 .. n : P[l] <= L
      /\ \A l \in 1 .. n :
           /\ tokens[P[l]] = IF l \in DOMAIN text THEN Line(l) ELSE Eof
           /\ At(l) > At(l - 1) => P[l] = P[l - 1] + 2 /\ tokens[P[l - 1] + 1] = Indent
           /\ At(l) <= At(l - 1) =>
                /\ 4 * (P[l] - P[l - 1] - 1) = At(l - 1) - At(l)
                /\ \A k \in P[l - 1] + 1 .. P[l] - 1 : tokens[k] = Dedent
  BY DEF LaidOut
<1> HIDE DEF L
<1>7. L + G + 1 \in Nat /\ L <= L + G + 1
  BY <1>0
<1>4. ASSUME NEW l \in 0 .. n PROVE Q[l] = P[l] /\ P[l] \in Nat /\ P[l] <= L /\ l \in 0 .. n + 1
  <2>1. l \in 0 .. n + 1 /\ l <= n
    OBVIOUS
  <2>2. Q[l] = P[l]
    BY <2>1
  <2> QED BY <1>2, <2>1, <2>2
<1>8. Q[n + 1] = L + G + 1
  <2>1. n + 1 \in 0 .. n + 1 /\ ~(n + 1 <= n)
    OBVIOUS
  <2> QED BY <2>1
<1>9. \A l \in 0 .. n + 1 : l \in 0 .. n \/ l = n + 1
  OBVIOUS
<1>3. /\ Q \in [0 .. n + 1 -> Nat] /\ Q[0] = 0 /\ Q[n + 1] = Len(tokens')
      /\ \A l \in 0 .. n + 1 : Q[l] <= Len(tokens')
  <2>1. \A l \in 0 .. n + 1 : Q[l] \in Nat /\ Q[l] <= L + G + 1
    <3> SUFFICES ASSUME NEW l \in 0 .. n + 1 PROVE Q[l] \in Nat /\ Q[l] <= L + G + 1
      OBVIOUS
    <3>1. CASE l \in 0 .. n
      <4>1. Q[l] = P[l] /\ P[l] \in Nat /\ P[l] <= L
        BY <1>4, <3>1
      <4> HIDE DEF Q
      <4> QED BY <1>0, <4>1
    <3>2. CASE l = n + 1
      <4>1. Q[l] = L + G + 1
        BY <1>8, <3>2
      <4> HIDE DEF Q
      <4> QED BY <1>0, <4>1
    <3> QED BY <1>9, <3>1, <3>2
  <2>2. DOMAIN Q = 0 .. n + 1 /\ Q = [l \in DOMAIN Q |-> Q[l]]
    OBVIOUS
  <2>3. 0 \in 0 .. n
    OBVIOUS
  <2>4. Q[0] = 0
    BY <1>2, <1>4, <2>3
  <2> HIDE DEF Q
  <2> QED BY <1>1, <1>8, <2>1, <2>2, <2>4
<1>5. ASSUME NEW l \in 1 .. n + 1
      PROVE  /\ tokens'[Q[l]] = IF l \in DOMAIN text' THEN Line(l) ELSE Eof
             /\ At(l)' > At(l - 1)' => Q[l] = Q[l - 1] + 2 /\ tokens'[Q[l - 1] + 1] = Indent
             /\ At(l)' <= At(l - 1)' =>
                  /\ 4 * (Q[l] - Q[l - 1] - 1) = At(l - 1)' - At(l)'
                  /\ \A k \in Q[l - 1] + 1 .. Q[l] - 1 : tokens'[k] = Dedent
  <2>1. CASE l \in 1 .. n
    <3>1. l - 1 \in 0 .. n /\ l \in 0 .. n
      BY <2>1
    <3>2. Q[l] = P[l] /\ Q[l - 1] = P[l - 1] /\ P[l] \in Nat /\ P[l - 1] \in Nat /\ P[l] <= L
      BY <1>4, <3>1
    <3>3. At(l)' = At(l) /\ At(l - 1)' = At(l - 1) /\ (l \in DOMAIN text' <=> l \in DOMAIN text)
      BY <3>1 DEF Grows
    <3>4. At(l) \in Nat /\ At(l - 1) \in Nat
      <4>1. At(l)' \in Nat /\ At(l - 1)' \in Nat
        BY <1>4, <3>1 DEF Grows
      <4> QED BY <3>3, <4>1
    <3>5. P[l - 1] < P[l]
      <4>1. CASE At(l) > At(l - 1)
        BY <1>2, <2>1, <3>2, <4>1
      <4>2. CASE At(l) <= At(l - 1)
        <5>1. 4 * (P[l] - P[l - 1] - 1) = At(l - 1) - At(l)
          BY <1>2, <2>1, <4>2
        <5> QED BY <3>2, <3>4, <4>2, <5>1
      <4> QED BY <3>4, <4>1, <4>2
    <3> HIDE DEF Q
    <3>6. tokens'[P[l]] = tokens[P[l]] /\ tokens'[P[l - 1] + 1] = tokens[P[l - 1] + 1]
      <4>1. P[l] \in 1 .. L /\ P[l - 1] + 1 \in 1 .. L
        BY <1>0, <3>2, <3>5
      <4> QED BY <1>1, <4>1
    <3>7. \A k \in P[l - 1] + 1 .. P[l] - 1 : tokens'[k] = tokens[k]
      <4>1. \A k \in P[l - 1] + 1 .. P[l] - 1 : k \in 1 .. L
        BY <1>0, <3>2
      <4> QED BY <1>1, <4>1
    <3>8. l \in DOMAIN text' <=> l \in DOMAIN text
      BY <3>3
    <3>9. /\ tokens[P[l]] = IF l \in DOMAIN text THEN Line(l) ELSE Eof
          /\ At(l) > At(l - 1) => P[l] = P[l - 1] + 2 /\ tokens[P[l - 1] + 1] = Indent
          /\ At(l) <= At(l - 1) =>
               /\ 4 * (P[l] - P[l - 1] - 1) = At(l - 1) - At(l)
               /\ \A k \in P[l - 1] + 1 .. P[l] - 1 : tokens[k] = Dedent
      BY <1>2, <2>1
    <3>10. tokens'[Q[l]] = IF l \in DOMAIN text' THEN Line(l) ELSE Eof
      BY <3>2, <3>6, <3>8, <3>9
    <3>11. At(l)' > At(l - 1)' => Q[l] = Q[l - 1] + 2 /\ tokens'[Q[l - 1] + 1] = Indent
      BY <3>2, <3>3, <3>6, <3>9
    <3>12. At(l)' <= At(l - 1)' =>
             /\ 4 * (Q[l] - Q[l - 1] - 1) = At(l - 1)' - At(l)'
             /\ \A k \in Q[l - 1] + 1 .. Q[l] - 1 : tokens'[k] = Dedent
      BY <3>2, <3>3, <3>7, <3>9
    <3> QED BY <3>10, <3>11, <3>12
  <2>2. CASE l = n + 1
    <3>1. Q[l] = L + G + 1 /\ Q[l - 1] = L /\ l - 1 = n
      <4>1. l - 1 = n /\ n \in 0 .. n
        BY <2>2
      <4>2. Q[l] = L + G + 1 /\ Q[n] = P[n]
        BY <1>4, <1>8, <2>2, <4>1
      <4> HIDE DEF Q
      <4> QED BY <1>2, <4>1, <4>2
    <3>2. At(l - 1)' = At(n) /\ At(n) \in Nat /\ At(l)' \in Nat
      <4>1. n \in 0 .. n + 1 /\ n \in 0 .. n /\ l \in 0 .. n + 1
        BY <2>2
      <4>2. At(n)' = At(n) /\ At(n)' \in Nat /\ At(l)' \in Nat
        BY <4>1 DEF Grows
      <4> QED BY <3>1, <4>2
    <3> HIDE DEF Q
    <3>3. tokens'[Q[l]] = IF l \in DOMAIN text' THEN Line(l) ELSE Eof
      <4>1. t = IF n + 1 \in DOMAIN text' THEN Line(n + 1) ELSE Eof
        BY DEF Grows
      <4> QED BY <1>1, <2>2, <3>1, <4>1
    <3>4. ASSUME At(l)' > At(l - 1)'
          PROVE  Q[l] = Q[l - 1] + 2 /\ tokens'[Q[l - 1] + 1] = Indent
      <4>1. gap = <<Indent>> /\ G = 1 /\ gap[1] = Indent
        BY <2>2, <3>2, <3>4 DEF G, Grows
      <4>2. tokens'[L + 1] = Indent
        BY <1>1, <4>1
      <4>3. L + G + 1 = L + 2
        BY <1>0, <4>1
      <4> QED BY <3>1, <4>2, <4>3
    <3>5. ASSUME At(l)' <= At(l - 1)'
          PROVE  /\ 4 * (Q[l] - Q[l - 1] - 1) = At(l - 1)' - At(l)'
                 /\ \A k \in Q[l - 1] + 1 .. Q[l] - 1 : tokens'[k] = Dedent
      <4>1. 4 * G = At(n) - At(l)' /\ \A k \in 1 .. G : gap[k] = Dedent
        BY <2>2, <3>2, <3>5 DEF G, Grows
      <4>2. ASSUME NEW k \in L + 1 .. (L + G + 1) - 1 PROVE tokens'[k] = Dedent
        <5>1. k - L \in 1 .. G /\ L + (k - L) = k
          BY <1>0
        <5> QED BY <1>1, <4>1, <5>1
      <4>3. 4 * ((L + G + 1) - L - 1) = At(l - 1)' - At(l)'
        <5>1. (L + G + 1) - L - 1 = G
          BY <1>0
        <5> QED BY <3>2, <4>1, <5>1
      <4> QED BY <3>1, <4>2, <4>3
    <3> QED BY <3>3, <3>4, <3>5
  <2>3. l \in 1 .. n \/ l = n + 1
    OBVIOUS
  <2> HIDE DEF Q
  <2> QED BY <2>1, <2>2, <2>3
<1> HIDE DEF Q
<1>6. \E q : LaidOut(q, n + 1)'
  <2>1. \A l \in 0 .. n + 1 : Q[l] <= Len(tokens')
    BY <1>3
  <2>2. \A l \in 1 .. n + 1 :
          /\ tokens'[Q[l]] = IF l \in DOMAIN text' THEN Line(l) ELSE Eof
          /\ At(l)' > At(l - 1)' => Q[l] = Q[l - 1] + 2 /\ tokens'[Q[l - 1] + 1] = Indent
          /\ At(l)' <= At(l - 1)' =>
               /\ 4 * (Q[l] - Q[l - 1] - 1) = At(l - 1)' - At(l)'
               /\ \A k \in Q[l - 1] + 1 .. Q[l] - 1 : tokens'[k] = Dedent
    BY <1>5, Zenon
  <2>3. Q \in [0 .. n + 1 -> Nat] /\ Q[0] = 0 /\ Q[n + 1] = Len(tokens')
    BY <1>3
  <2>4. PICK q : q = Q
    OBVIOUS
  <2>5. LaidOut(q, n + 1)'
    BY <2>1, <2>2, <2>3, <2>4 DEF LaidOut
  <2> QED BY <2>5
<1> QED
  BY <1>1, <1>6 DEF Tokens

-----------------------------------------------------------------------------
(* One more line leaves those before it as they are. *)
LEMMA TextGrows ==
  ASSUME Text, WellIndented, NEW line \in Lines, text' = Append(text, line), NEW n, n = Len(text)
  PROVE  /\ Text' /\ n \in Nat /\ Len(text)' = n + 1 /\ DOMAIN text' = 1 .. n + 1
         /\ \A l : At(l)' \in Nat
         /\ \A l \in 0 .. n : At(l)' = At(l) /\ (l \in DOMAIN text' <=> l \in DOMAIN text)
         /\ At(n + 1)' = line.indent
         /\ WellIndented' <=> /\ line.indent % 4 = 0 /\ line.indent <= At(n) + 4
                              /\ line.kind # "unlexable"
<1>1. /\ text' \in Seq(Lines) /\ n \in Nat /\ Len(text') = n + 1
      /\ DOMAIN text = 1 .. n /\ DOMAIN text' = 1 .. n + 1
      /\ \A l \in 1 .. n : text'[l] = text[l]
      /\ text'[n + 1] = line
  BY DEF Text
<1>2. ASSUME NEW l \in DOMAIN text' PROVE text'[l].indent \in Nat
  <2>1. text'[l] \in Lines
    BY <1>1
  <2> QED BY <2>1, IndentsAreNumbers DEF Lines
<1>3. /\ \A l : At(l)' \in Nat
      /\ \A l \in 0 .. n : At(l)' = At(l) /\ (l \in DOMAIN text' <=> l \in DOMAIN text)
      /\ At(n + 1)' = line.indent
  <2>1. \A l \in 0 .. n : l \in 1 .. n + 1 <=> l \in 1 .. n
    BY <1>1
  <2> QED BY <1>1, <1>2, <2>1 DEF At
<1>4. \A l \in 1 .. n : KindOf(l)' = KindOf(l) /\ IndentBefore(l)' = IndentBefore(l)
  BY <1>1 DEF KindOf, IndentBefore
<1>5. KindOf(n + 1)' = line.kind /\ IndentBefore(n + 1)' = At(n)
  <2>1. n + 1 = 1 => At(n) = 0
    BY <1>1 DEF At
  <2>2. n + 1 # 1 => text'[(n + 1) - 1].indent = At(n)
    BY <1>1 DEF At
  <2> QED BY <1>1, <2>1, <2>2 DEF KindOf, IndentBefore
<1>6. ASSUME line.indent % 4 = 0, line.indent <= At(n) + 4, line.kind # "unlexable",
             NEW l \in DOMAIN text'
      PROVE  text'[l].indent % 4 = 0 /\ text'[l].indent <= IndentBefore(l)' + 4 /\ KindOf(l)' # "unlexable"
  <2>1. CASE l \in 1 .. n
    BY <1>1, <1>4, <2>1 DEF WellIndented
  <2>2. CASE l = n + 1
    BY <1>1, <1>5, <1>6, <2>2
  <2> QED BY <1>1, <2>1, <2>2
<1>7. ASSUME WellIndented' PROVE line.indent % 4 = 0 /\ line.indent <= At(n) + 4 /\ line.kind # "unlexable"
  <2>1. n + 1 \in DOMAIN text'
    BY <1>1
  <2> QED BY <1>1, <1>5, <1>7, <2>1 DEF WellIndented
<1>8. WellIndented' <=> line.indent % 4 = 0 /\ line.indent <= At(n) + 4 /\ line.kind # "unlexable"
  BY <1>6, <1>7 DEF WellIndented
<1> QED
  BY <1>1, <1>3, <1>8 DEF Text

(* What the layout says is of the lines alone. *)
LEMMA SameText ==
  ASSUME text' = text
  PROVE  /\ \A l : At(l)' = At(l) /\ KindOf(l)' = KindOf(l)
         /\ \A l, m : IsElseOf(l, m)' = IsElseOf(l, m)
         /\ WellIndented' = WellIndented /\ WellFormed' = WellFormed /\ Meaningful' = Meaningful
         /\ Verdict' = Verdict
<1>1. \A l : KindOf(l)' = KindOf(l)
  BY DEF KindOf
<1>2. \A l, m : IsElseOf(l, m)' = IsElseOf(l, m)
  BY <1>1 DEF IsElseOf, Within
<1>3. WellIndented' = WellIndented
  BY <1>1 DEF WellIndented, IndentBefore
<1>4. WellFormed' = WellFormed
  BY <1>1, <1>2 DEF WellFormed, IsElse, Opens
<1>5. Meaningful' = Meaningful
  BY <1>1, <1>2 DEF Meaningful, IsElse
<1>6. Verdict' = Verdict
  BY <1>3, <1>4, <1>5 DEF Verdict
<1> QED
  BY <1>1, <1>2, <1>3, <1>4, <1>5, <1>6 DEF At

LEMMA VerdictIs ==
  /\ ~WellIndented => Verdict = "LexError"
  /\ WellIndented /\ ~WellFormed => Verdict = "ParseError"
  /\ WellIndented /\ WellFormed /\ ~Meaningful => Verdict = "ValidationError"
  /\ WellIndented /\ WellFormed /\ Meaningful => Verdict = "compiled"
BY DEF Verdict

(***************************************************************************)
(* What holds of the lexer, the parser and the validator.                  *)
(***************************************************************************)
Phases == {"lexing", "parsing", "validating", "compiled", "running", "done",
           "LexError", "ParseError", "ValidationError", "CapabilityResolutionError"}

CompileTypeOK ==
  /\ Text /\ indents \in Seq(Nat) /\ index \in Nat /\ phase \in Phases
  /\ Tokens /\ open \in Seq(Blocks) /\ tree \in Seq(Entries)

Compiling ==
  /\ phase = "lexing" => WellIndented /\ Lexing
  /\ phase = "parsing" => WellIndented /\ Parsing
  /\ phase \in {"validating", "compiled", "running", "done", "CapabilityResolutionError"} =>
       WellIndented /\ WellFormed /\ Built
  /\ phase \in {"compiled", "running", "done", "CapabilityResolutionError"} => Meaningful

CompileInv == CompileTypeOK /\ Compiling /\ VerdictIsRight

LEMMA InitCompile == CltInit => CompileInv
<1> SUFFICES ASSUME CltInit PROVE CompileInv
  OBVIOUS
<1>1. /\ text = <<>> /\ phase = "lexing" /\ indents = <<0>> /\ tokens = <<>>
      /\ index = 1 /\ open = <<>> /\ tree = <<>>
  BY DEF CltInit
<1>2. /\ text \in Seq(Lines) /\ indents \in Seq(Nat) /\ index \in Nat /\ phase \in Phases
      /\ open \in Seq(Blocks) /\ tree \in Seq(Entries)
  BY <1>1 DEF Phases
<1>3. tokens \in Seq({Indent, Dedent, Eof} \union {Line(l) : l \in Nat})
  BY <1>1
<1>4. CompileTypeOK
  BY <1>2, <1>3 DEF CompileTypeOK, Text, Tokens
<1>5. WellIndented
  BY <1>1 DEF WellIndented
<1>6. \E P : LaidOut(P, Len(text))
  <2> DEFINE P == [l \in 0 .. 0 |-> 0]
  <2>1. Len(text) = 0 /\ Len(tokens) = 0
    BY <1>1
  <2>2. P \in [0 .. 0 -> Nat] /\ P[0] = 0 /\ \A l \in 0 .. 0 : P[l] <= 0
    OBVIOUS
  <2> HIDE DEF P
  <2>3. LaidOut(P, 0)
    BY <2>1, <2>2 DEF LaidOut
  <2> QED BY <2>1, <2>3
<1>7. /\ indents # <<>> /\ 4 * (Len(indents) - 1) = At(Len(text))
      /\ \A i \in DOMAIN indents : indents[i] = 4 * (i - 1)
  BY <1>1 DEF At
<1>8. Lexing
  BY <1>1, <1>6, <1>7 DEF Lexing
<1> QED
  BY <1>1, <1>4, <1>5, <1>8 DEF CompileInv, Compiling, VerdictIsRight, Refusals

LEMMA LexLineCompile == CompileInv /\ LexLine => CompileInv'
<1> SUFFICES ASSUME CompileInv, LexLine PROVE CompileInv'
  OBVIOUS
<1>0. PICK n : n = Len(text)
  OBVIOUS
<1>1. /\ CompileTypeOK /\ WellIndented /\ Lexing /\ phase = "lexing" /\ Text
      /\ index' = index /\ open' = open /\ tree' = tree
  BY DEF CompileInv, Compiling, CompileTypeOK, LexLine
<1>2. PICK line \in Lines :
        LET indent == line.indent
            kept   == LeftOpen(indent)
        IN  /\ text' = Append(text, line)
            /\ IF \/ indent % 4 # 0 \/ line.kind = "unlexable"
                  \/ indent > Top + 4
                  \/ indent <= Top /\ indent # kept[Len(kept)]
               THEN phase' = "LexError" /\ UNCHANGED <<indents, tokens>>
               ELSE /\ indents' = IF indent > Top THEN Append(indents, indent) ELSE kept
                    /\ tokens' = tokens
                         \o (IF indent > Top THEN <<Indent>> ELSE Dedents(Len(indents) - Len(kept)))
                         \o <<Line(Len(text) + 1)>>
                    /\ UNCHANGED phase
  BY DEF LexLine
<1> DEFINE indent == line.indent
           kept   == LeftOpen(indent)
           gap    == IF indent > Top THEN <<Indent>> ELSE Dedents(Len(indents) - Len(kept))
           bad    == \/ indent % 4 # 0 \/ line.kind = "unlexable"
                     \/ indent > Top + 4
                     \/ indent <= Top /\ indent # kept[Len(kept)]
<1>3. /\ Text' /\ n \in Nat /\ Len(text)' = n + 1 /\ DOMAIN text' = 1 .. n + 1
      /\ \A l : At(l)' \in Nat
      /\ \A l \in 0 .. n : At(l)' = At(l) /\ (l \in DOMAIN text' <=> l \in DOMAIN text)
      /\ At(n + 1)' = indent
      /\ WellIndented' <=> indent % 4 = 0 /\ indent <= At(n) + 4 /\ line.kind # "unlexable"
  BY <1>0, <1>1, <1>2, TextGrows
<1>4. indent \in Nat /\ At(n) \in Nat
  BY <1>0, <1>1, TextIs, IndentsAreNumbers DEF Lines
<1>5. /\ indents \in Seq(Nat) /\ indents # <<>> /\ 4 * (Len(indents) - 1) = At(n)
      /\ \A i \in DOMAIN indents : indents[i] = 4 * (i - 1)
      /\ index = 1 /\ open = <<>> /\ tree = <<>>
      /\ indents \in Seq(Nat)
  BY <1>0, <1>1 DEF Lexing, CompileTypeOK
<1>6. PICK P : LaidOut(P, n)
  BY <1>0, <1>1 DEF Lexing
<1>7. ASSUME indent % 4 = 0
      PROVE  /\ Len(indents) \in Nat \ {0} /\ Top = At(n)
             /\ indent <= Top =>
                  /\ kept \in Seq(Nat) /\ kept # <<>> /\ 4 * (Len(kept) - 1) = indent
                  /\ Len(kept) <= Len(indents)
                  /\ \A i \in DOMAIN kept : kept[i] = 4 * (i - 1)
                  /\ kept[Len(kept)] = indent
  BY <1>4, <1>5, <1>7, StackIs
<1>8. bad <=> ~WellIndented'
  BY <1>3, <1>4, <1>7
<1>9. CASE bad
  <2>1. phase' = "LexError" /\ UNCHANGED <<indents, tokens>>
    BY <1>2, <1>9
  <2>2. ~WellIndented'
    BY <1>8, <1>9
  <2>3. Verdict' = "LexError"
    BY <2>2 DEF Verdict
  <2>4. VerdictIsRight'
    BY <2>1, <2>3 DEF VerdictIsRight
  <2>5. CompileTypeOK'
    BY <1>1, <1>3, <2>1 DEF CompileTypeOK, Tokens, Phases
  <2> QED BY <2>1, <2>4, <2>5 DEF CompileInv, Compiling
<1>10. CASE ~bad
  <2>1. /\ indents' = IF indent > Top THEN Append(indents, indent) ELSE kept
        /\ tokens' = tokens \o gap \o <<Line(n + 1)>>
        /\ phase' = "lexing"
    BY <1>0, <1>1, <1>2, <1>10
  <2>2. WellIndented' /\ indent % 4 = 0 /\ indent <= At(n) + 4
    BY <1>3, <1>8, <1>10
  <2>3. /\ Len(indents) \in Nat \ {0} /\ Top = At(n)
        /\ indent <= Top =>
             /\ kept \in Seq(Nat) /\ kept # <<>> /\ 4 * (Len(kept) - 1) = indent
             /\ Len(kept) <= Len(indents)
             /\ \A i \in DOMAIN kept : kept[i] = 4 * (i - 1)
    BY <1>7, <2>2
  <2>4. indent > Top => indent = Top + 4
    <3>1. PICK j \in Nat : indent = 4 * j
      BY <1>4, <2>2, Quarter
    <3>2. PICK k \in Nat : At(n) = 4 * k
      BY <1>1, Multiples
    <3> QED BY <2>2, <2>3, <3>1, <3>2
  <2> HIDE DEF indent, kept, bad
  <2>5. /\ indents' \in Seq(Nat) /\ indents' # <<>> /\ 4 * (Len(indents') - 1) = indent
        /\ \A i \in DOMAIN indents' : indents'[i] = 4 * (i - 1)
    <3>1. CASE indent > Top
      <4>1. indents' = Append(indents, indent) /\ indent = 4 * Len(indents)
        BY <1>4, <1>5, <2>1, <2>3, <2>4, <3>1
      <4>2. Len(indents') = Len(indents) + 1 /\ indents' \in Seq(Nat)
        BY <1>4, <1>5, <4>1
      <4>3. ASSUME NEW i \in DOMAIN indents' PROVE indents'[i] = 4 * (i - 1)
        <5>1. CASE i \in DOMAIN indents
          BY <1>4, <1>5, <4>1, <5>1
        <5>2. CASE i = Len(indents) + 1
          BY <1>4, <1>5, <4>1, <5>2
        <5> QED BY <1>5, <4>2, <5>1, <5>2
      <4> QED BY <2>3, <4>1, <4>2, <4>3
    <3>2. CASE ~(indent > Top)
      <4>1. indents' = kept /\ indent <= Top
        BY <1>4, <2>1, <2>3, <3>2
      <4> QED BY <2>3, <4>1
    <3> QED BY <3>1, <3>2
  <2>6. Grows(n, gap, Line(n + 1))
    <3>1. n + 1 \in 1 .. n + 1 /\ n + 1 \in Nat
      BY <1>3
    <3>2. indent > At(n) => gap = <<Indent>>
      BY <2>3
    <3>5. indent > At(n) \/ indent <= At(n)
      BY <1>4
    <3>3. ASSUME indent <= At(n)
          PROVE  /\ gap \in Seq({Indent, Dedent}) /\ 4 * Len(gap) = At(n) - indent
                 /\ \A k \in 1 .. Len(gap) : gap[k] = Dedent
      <4>1. /\ ~(indent > Top) /\ Len(kept) \in Nat /\ 4 * (Len(kept) - 1) = indent
            /\ Len(kept) <= Len(indents) /\ Len(indents) \in Nat
        BY <1>4, <2>3, <3>3
      <4>2. PICK d \in Nat : d = Len(indents) - Len(kept)
        <5> HIDE DEF gap
        <5> DEFINE a == Len(indents)
                   b == Len(kept)
        <5>1. a \in Nat /\ b \in Nat /\ b <= a
          BY <4>1
        <5> HIDE DEF a, b
        <5>2. a - b \in Nat
          BY <5>1
        <5> QED BY <5>2 DEF a, b
      <4>3. gap = [i \in 1 .. d |-> Dedent]
        BY <4>1, <4>2 DEF Dedents
      <4> HIDE DEF gap
      <4>4. Len(gap) = d /\ gap \in Seq({Indent, Dedent}) /\ \A k \in 1 .. d : gap[k] = Dedent
        BY <4>3
      <4>5. 4 * d = At(n) - indent
        BY <1>4, <1>5, <4>1, <4>2
      <4> QED BY <4>4, <4>5
    <3>4. gap \in Seq({Indent, Dedent})
      <4>1. CASE indent > At(n)
        <5>1. gap = <<Indent>>
          BY <3>2, <4>1
        <5> HIDE DEF gap
        <5> QED BY <5>1
      <4>2. CASE indent <= At(n)
        BY <3>3, <4>2
      <4> QED BY <3>5, <4>1, <4>2
    <3> HIDE DEF gap
    <3> QED BY <1>3, <2>1, <3>1, <3>2, <3>3, <3>4 DEF Grows
  <2>7. PICK g : g = gap
    OBVIOUS
  <2> HIDE DEF gap
  <2>8. Tokens' /\ \E Q : LaidOut(Q, n + 1)'
    <3>1. Grows(n, g, Line(n + 1)) /\ Tokens
      BY <1>1, <2>6, <2>7 DEF CompileTypeOK
    <3> QED BY <1>3, <1>6, <3>1, MoreTokens
  <2>9. Lexing'
    BY <1>1, <1>3, <1>5, <2>5, <2>8 DEF Lexing
  <2>10. CompileTypeOK'
    BY <1>1, <1>3, <2>1, <2>5, <2>8 DEF CompileTypeOK
  <2>11. VerdictIsRight'
    BY <2>1 DEF VerdictIsRight, Refusals
  <2> QED BY <2>1, <2>2, <2>9, <2>10, <2>11 DEF CompileInv, Compiling
<1> QED
  BY <1>9, <1>10

LEMMA LexEndCompile == CompileInv /\ LexEnd => CompileInv'
<1> SUFFICES ASSUME CompileInv, LexEnd PROVE CompileInv'
  OBVIOUS
<1>0. PICK n : n = Len(text)
  OBVIOUS
<1>1. /\ CompileTypeOK /\ WellIndented /\ Lexing /\ phase = "lexing" /\ Text
      /\ index' = index /\ open' = open /\ tree' = tree /\ text' = text
      /\ tokens' = tokens \o Dedents(Len(indents) - 1) \o <<Eof>>
      /\ indents' = <<0>> /\ phase' = "parsing"
  BY DEF CompileInv, Compiling, CompileTypeOK, LexEnd
<1>2. /\ indents \in Seq(Nat) /\ indents # <<>> /\ 4 * (Len(indents) - 1) = At(n)
      /\ index = 1 /\ open = <<>> /\ tree = <<>>
  BY <1>0, <1>1 DEF Lexing, CompileTypeOK
<1>3. PICK P : LaidOut(P, n)
  BY <1>0, <1>1 DEF Lexing
<1>4. /\ n \in Nat /\ DOMAIN text = 1 .. n /\ \A l : At(l) \in Nat
      /\ At(0) = 0 /\ At(n + 1) = 0
  BY <1>0, <1>1, TextIs
<1>5. (\A l : At(l)' = At(l)) /\ WellIndented' = WellIndented
  BY <1>1, SameText
<1>6. PICK g : g = Dedents(Len(indents) - 1)
  OBVIOUS
<1>7. Grows(n, g, Eof)
  <2>1. Len(indents) - 1 \in Nat
    BY <1>2
  <2>2. PICK d \in Nat : d = Len(indents) - 1
    BY <2>1
  <2>3. g = [i \in 1 .. d |-> Dedent]
    BY <1>6, <2>2 DEF Dedents
  <2>4. Len(g) = d /\ g \in Seq({Indent, Dedent}) /\ \A k \in 1 .. d : g[k] = Dedent
    BY <2>3
  <2>5. 4 * Len(g) = At(n) - At(n + 1)' /\ At(n + 1)' = 0
    BY <1>2, <1>4, <1>5, <2>2, <2>4
  <2>6. n + 1 \notin DOMAIN text'
    BY <1>1, <1>4
  <2>7. ~(At(n + 1)' > At(n))
    BY <1>4, <2>5
  <2> QED BY <1>1, <1>4, <1>5, <1>6, <2>4, <2>5, <2>6, <2>7 DEF Grows
<1>8. Tokens' /\ \E Q : LaidOut(Q, n + 1)'
  BY <1>1, <1>3, <1>4, <1>7, MoreTokens DEF CompileTypeOK
<1>9. PICK Q : LaidOut(Q, n + 1)'
  BY <1>8
<1>10. Parsed(Q, 1, <<>>, <<>>)'
  <2>1. /\ Q[0] = 0 /\ Q[1] \in Nat /\ n + 1 \in Nat
        /\ At(1)' > At(0)' => Q[1] = Q[0] + 2
        /\ At(1)' <= At(0)' => 4 * (Q[1] - Q[0] - 1) = At(0)' - At(1)'
    <3>1. 1 \in 1 .. n + 1 /\ 1 \in 0 .. n + 1 /\ 1 - 1 = 0
      BY <1>4
    <3> QED BY <1>4, <1>9, <3>1 DEF LaidOut
  <2>2. At(1)' \in Nat /\ At(0)' = 0 /\ Len(text)' = n
    BY <1>0, <1>1, <1>4, <1>5
  <2>3. 1 \in Q[0] + 1 .. Q[1] /\ (At(1)' > 0 => 1 = Q[1] - 1) /\ (At(1)' <= 0 => At(1)' = 0)
    BY <2>1, <2>2
  <2>4. ASSUME KindOf(1)' = "else", 1 \in DOMAIN text' PROVE ~IsElse(1)'
    <3>1. \A m \in DOMAIN text' : ~(m < 1)
      BY <1>1, <1>4
    <3> QED BY <3>1 DEF IsElse, IsElseOf
  <2>5. Len(<<>>) = 0 /\ DOMAIN <<>> = {} /\ 1 - 1 = 0 /\ 1 .. 0 = {}
    OBVIOUS
  <2>6. 1 \in 1 .. Len(text)' + 1
    BY <1>4, <2>2
  <2>7. At(1)' <= At(0)' => 4 * Len(<<>>) = At(0)' - 4 * (1 - Q[0] - 1)
    BY <2>1, <2>2, <2>5
  <2>8. At(1)' > At(0)' => 1 = Q[1] - 1 /\ 4 * Len(<<>>) = At(0)'
    BY <2>2, <2>3, <2>5
  <2>9. Len(<<>>) + 1 = 1
    BY <2>5
  <2> QED BY <2>3, <2>4, <2>5, <2>6, <2>7, <2>8, <2>9 DEF Parsed
<1>11. Parsing'
  <2>1. LaidOut(Q, Len(text) + 1)'
    BY <1>0, <1>1, <1>9
  <2>2. Parsed(Q, index, open, tree)'
    BY <1>1, <1>2, <1>10
  <2> QED BY <2>1, <2>2 DEF Parsing
<1>12. CompileTypeOK'
  <2>1. indents' \in Seq(Nat)
    BY <1>1
  <2> QED BY <1>1, <1>8, <2>1 DEF CompileTypeOK, Text, Phases
<1>13. VerdictIsRight'
  BY <1>1 DEF VerdictIsRight, Refusals
<1> QED
  BY <1>1, <1>5, <1>11, <1>12, <1>13 DEF CompileInv, Compiling

(* What the parser has done is of the lines and the tokens alone. *)
LEMMA ParsedStill ==
  ASSUME text' = text, tokens' = tokens, NEW P, NEW ix, NEW op, NEW tr, Parser(P, ix, op, tr),
         index' = ix, open' = op, tree' = tr
  PROVE  Parsing'
<1>1. /\ \A l : At(l)' = At(l) /\ KindOf(l)' = KindOf(l)
      /\ \A l, m : IsElseOf(l, m)' = IsElseOf(l, m)
  BY SameText
<1>2. LaidOut(P, Len(text) + 1)'
  <2>1. LaidOut(P, Len(text) + 1)
    BY DEF Parser, Scanned
  <2> QED BY <1>1, <2>1 DEF LaidOut
<1>3. Parsed(P, ix, op, tr)'
  <2>1. Parsed(P, ix, op, tr)
    BY DEF Parser
  <2>2. \A l : IsElse(l)' = IsElse(l) /\ Opens(l)' = Opens(l)
    BY <1>1 DEF IsElse, Opens
  <2>3. \A b, h, l : Begins(tr, b, h, l)' = Begins(tr, b, h, l)
    BY <1>1 DEF Begins
  <2>4. \A l : Placed(tr, l)' = Placed(tr, l)
    BY <1>1, <2>2, <2>3 DEF Placed
  <2> QED BY <1>1, <2>1, <2>2, <2>3, <2>4 DEF Parsed
<1> QED
  BY <1>2, <1>3 DEF Parsing

LEMMA ParserOf ==
  ASSUME CompileInv, phase = "parsing"
  PROVE  \E P, ix, op, tr : ix = index /\ op = open /\ tr = tree /\ Parser(P, ix, op, tr)
<1>1. Text /\ WellIndented /\ Tokens /\ open \in Seq(Blocks) /\ tree \in Seq(Entries)
  BY DEF CompileInv, Compiling, CompileTypeOK
<1>2. PICK P : LaidOut(P, Len(text) + 1) /\ Parsed(P, index, open, tree)
  BY DEF CompileInv, Compiling, Parsing
<1> QED
  BY <1>1, <1>2 DEF Parser, Scanned

LEMMA ParsingOn ==
  ASSUME CompileInv, phase = "parsing", phase' = "parsing", UNCHANGED <<text, indents, tokens>>,
         NEW P, NEW ix, NEW op, NEW tr, Parser(P, ix, op, tr),
         index' = ix, open' = op, tree' = tr
  PROVE  CompileInv'
<1>1. Parsing'
  BY ParsedStill
<1>2. ix \in Nat /\ op \in Seq(Blocks) /\ tr \in Seq(Entries)
  BY ParserIs DEF Parser
<1>3. CompileTypeOK'
  BY <1>2 DEF CompileInv, CompileTypeOK, Text, Tokens
<1>4. WellIndented'
  BY SameText DEF CompileInv, Compiling
<1> QED
  BY <1>1, <1>3, <1>4 DEF CompileInv, Compiling, VerdictIsRight, Refusals

LEMMA ParseRefused ==
  ASSUME CompileInv, phase = "parsing", phase' = "ParseError", ~WellFormed,
         UNCHANGED <<text, indents, tokens, index, open, tree>>
  PROVE  CompileInv'
<1>1. WellIndented' /\ ~WellFormed'
  BY SameText DEF CompileInv, Compiling
<1>2. Verdict' = "ParseError"
  BY <1>1 DEF Verdict
<1>3. CompileTypeOK'
  BY DEF CompileInv, CompileTypeOK, Text, Tokens, Phases
<1> QED
  BY <1>2, <1>3 DEF CompileInv, Compiling, VerdictIsRight

LEMMA ParseStatementCompile == CompileInv /\ ParseStatement => CompileInv'
<1> SUFFICES ASSUME CompileInv, ParseStatement PROVE CompileInv'
  OBVIOUS
<1>1. phase = "parsing" /\ tokens[index].is = "line" /\ UNCHANGED <<text, indents, tokens>>
  BY DEF ParseStatement, Current
<1>2. PICK P, ix, op, tr : ix = index /\ op = open /\ tr = tree /\ Parser(P, ix, op, tr)
  BY <1>1, ParserOf
<1>3. PICK l : l = Len(tr) + 1
  OBVIOUS
<1> DEFINE b == IF op = <<>> THEN Module ELSE op[Len(op)]
           refused == KindOf(l) = "garbled" \/ (KindOf(l) \in Conditions /\ tokens[ix + 1] # Indent)
           opens == tokens[ix + 1] = Indent /\ KindOf(l) \notin Simple
           op2 == Append(op, [of |-> l, branch |-> "body"])
           tr2 == Append(tr, b)
<1>4. /\ tokens[ix].of = l
      /\ refused => ~WellFormed
      /\ ~refused /\ opens => Parser(P, ix + 2, op2, tr2)
      /\ ~refused /\ ~opens => Parser(P, ix + 1, op, tr2)
  BY <1>1, <1>2, <1>3, StatementParsed
<1>5. IF refused
      THEN phase' = "ParseError" /\ UNCHANGED <<index, open, tree>>
      ELSE /\ tree' = tr2 /\ phase' = phase
           /\ IF opens THEN index' = ix + 2 /\ open' = op2 ELSE index' = ix + 1 /\ open' = op
  BY <1>2, <1>4 DEF ParseStatement, Current, Fail, Block, Enter
<1> HIDE DEF refused, opens, op2, tr2
<1>6. CASE refused
  BY <1>1, <1>4, <1>5, <1>6, ParseRefused
<1>7. CASE ~refused /\ opens
  <2>1. PICK ix3, op3, tr3 : ix3 = ix + 2 /\ op3 = op2 /\ tr3 = tr2
    OBVIOUS
  <2> QED BY <1>1, <1>4, <1>5, <1>7, <2>1, ParsingOn
<1>8. CASE ~refused /\ ~opens
  <2>1. PICK ix3, op3, tr3 : ix3 = ix + 1 /\ op3 = op /\ tr3 = tr2
    OBVIOUS
  <2> QED BY <1>1, <1>4, <1>5, <1>8, <2>1, ParsingOn
<1> QED
  BY <1>6, <1>7, <1>8

LEMMA ParseBlockEndCompile == CompileInv /\ ParseBlockEnd => CompileInv'
<1> SUFFICES ASSUME CompileInv, ParseBlockEnd PROVE CompileInv'
  OBVIOUS
<1>1. phase = "parsing" /\ tokens[index] = Dedent /\ UNCHANGED <<text, indents, tokens>>
  BY DEF ParseBlockEnd, Current
<1>2. PICK P, ix, op, tr : ix = index /\ op = open /\ tr = tree /\ Parser(P, ix, op, tr)
  BY <1>1, ParserOf
<1>3. PICK l : l = Len(tr) + 1
  OBVIOUS
<1> DEFINE ended == op[Len(op)]
           next == tokens[ix + 1]
           else == /\ KindOf(ended.of) \in Conditions /\ ended.branch = "body"
                   /\ next.is = "line" /\ KindOf(next.of) = "else"
           op2 == Append(Outer(op), [of |-> ended.of, branch |-> "else"])
           tr2 == Append(tr, [of |-> ended.of, branch |-> "label"])
<1>4. /\ else /\ tokens[ix + 2] # Indent => ~WellFormed
      /\ else /\ tokens[ix + 2] = Indent => Parser(P, ix + 3, op2, tr2)
      /\ ~else => Parser(P, ix + 1, Outer(op), tr)
  BY <1>1, <1>2, <1>3, BlockEndParsed
<1>5. IF else
      THEN IF tokens[ix + 2] # Indent
           THEN phase' = "ParseError" /\ UNCHANGED <<index, open, tree>>
           ELSE open' = op2 /\ tree' = tr2 /\ index' = ix + 3 /\ phase' = phase
      ELSE open' = Outer(op) /\ index' = ix + 1 /\ phase' = phase /\ tree' = tr
  BY <1>2 DEF ParseBlockEnd, Current, Fail, Outer
<1> HIDE DEF else, op2, tr2
<1>6. CASE else /\ tokens[ix + 2] # Indent
  BY <1>1, <1>4, <1>5, <1>6, ParseRefused
<1>7. CASE else /\ tokens[ix + 2] = Indent
  <2>1. PICK ix3, op3, tr3 : ix3 = ix + 3 /\ op3 = op2 /\ tr3 = tr2
    OBVIOUS
  <2> QED BY <1>1, <1>4, <1>5, <1>7, <2>1, ParsingOn
<1>8. CASE ~else
  <2>1. PICK ix3, op3, tr3 : ix3 = ix + 1 /\ op3 = Outer(op) /\ tr3 = tr
    OBVIOUS
  <2> QED BY <1>1, <1>4, <1>5, <1>8, <2>1, ParsingOn
<1> QED
  BY <1>6, <1>7, <1>8

LEMMA ParseUnexpectedIndentCompile == CompileInv /\ ParseUnexpectedIndent => CompileInv'
<1> SUFFICES ASSUME CompileInv, ParseUnexpectedIndent PROVE CompileInv'
  OBVIOUS
<1>1. /\ phase = "parsing" /\ tokens[index] = Indent /\ phase' = "ParseError"
      /\ UNCHANGED <<text, indents, tokens, index, open, tree>>
  BY DEF ParseUnexpectedIndent, Current, Fail
<1>2. ~WellFormed
  BY <1>1, ParserOf, IndentParsed
<1> QED
  BY <1>1, <1>2, ParseRefused

LEMMA ParseEndCompile == CompileInv /\ ParseEnd => CompileInv'
<1> SUFFICES ASSUME CompileInv, ParseEnd PROVE CompileInv'
  OBVIOUS
<1>1. phase = "parsing" /\ tokens[index] = Eof /\ phase' = "validating" /\ UNCHANGED compiling
  BY DEF ParseEnd, Current
<1>2. WellFormed /\ Built
  BY <1>1, ParserOf, EndParsed DEF Built
<1>3. WellIndented /\ CompileTypeOK
  BY <1>1 DEF CompileInv, Compiling
<1>4. Built'
  <2>1. \A b, h, l : Begins(tree, b, h, l)' = Begins(tree, b, h, l)
    BY <1>1, SameText DEF Begins, compiling
  <2> QED BY <1>1, <1>2, <2>1, SameText DEF Built, Placed, IsElse, compiling
<1>5. WellIndented' /\ WellFormed'
  BY <1>1, <1>2, <1>3, SameText DEF compiling
<1>6. CompileTypeOK'
  BY <1>1, <1>3 DEF CompileTypeOK, Text, Tokens, Phases, compiling
<1> QED
  BY <1>1, <1>4, <1>5, <1>6 DEF CompileInv, Compiling, VerdictIsRight, Refusals

(* In the tree the labels are the lines that are an else. *)
LEMMA LabelIs ==
  ASSUME Text, tree \in Seq(Entries), Built
  PROVE  /\ DOMAIN tree = DOMAIN text
         /\ \A l \in DOMAIN text : tree[l].branch = "label" <=> IsElse(l)
<1>1. DOMAIN tree = DOMAIN text
  BY DEF Built, Text
<1>2. ASSUME NEW l \in DOMAIN text PROVE tree[l].branch = "label" <=> IsElse(l)
  <2>1. Placed(tree, l) /\ l \in 1 .. Len(text)
    BY TextIs DEF Built
  <2>2. CASE tree[l].branch = "label" /\ tree[l].of \in 1 .. l - 1 /\ IsElseOf(l, tree[l].of)
    <3>1. tree[l].of \in DOMAIN text
      BY <2>1, <2>2, TextIs
    <3> QED BY <2>2, <3>1 DEF IsElse
  <2>3. CASE tree[l] = Module /\ ~IsElse(l)
    BY <2>3 DEF Module
  <2>4. CASE tree[l].branch \in {"body", "else"} /\ ~IsElse(l)
    BY <2>4
  <2> QED BY <2>1, <2>2, <2>3, <2>4 DEF Placed
<1> QED
  BY <1>1, <1>2

(* The tree is of the lines, and stays. *)
LEMMA BuiltStill ==
  ASSUME UNCHANGED compiling
  PROVE  Built' = Built
<1>1. \A b, h, l : Begins(tree, b, h, l)' = Begins(tree, b, h, l)
  BY SameText DEF Begins, compiling
<1> QED
  BY <1>1, SameText DEF Built, Placed, IsElse, compiling

LEMMA ValidateCompile == CompileInv /\ Validate => CompileInv'
<1> SUFFICES ASSUME CompileInv, Validate PROVE CompileInv'
  OBVIOUS
<1>1. phase = "validating" /\ UNCHANGED compiling
  BY DEF Validate
<1>2. CompileTypeOK /\ WellIndented /\ WellFormed /\ Built /\ Text /\ tree \in Seq(Entries)
  BY <1>1 DEF CompileInv, Compiling, CompileTypeOK
<1>3. /\ (\E l \in DOMAIN tree : Meaningless(l) \/ (KindOf(l) = "else" /\ tree[l].branch # "label"))
         <=> ~Meaningful
  BY <1>2, LabelIs DEF Meaningful, Meaningless
<1>4. phase' = IF ~Meaningful THEN "ValidationError" ELSE "compiled"
  BY <1>3 DEF Validate
<1>5. /\ WellIndented' /\ WellFormed' /\ Built' /\ Meaningful' = Meaningful /\ Verdict' = Verdict
  BY <1>1, <1>2, SameText, BuiltStill DEF compiling
<1>6. CompileTypeOK'
  BY <1>1, <1>2, <1>4 DEF CompileTypeOK, Text, Tokens, Phases, compiling
<1>7. CASE ~Meaningful
  <2>1. phase' = "ValidationError" /\ Verdict' = "ValidationError"
    BY <1>2, <1>4, <1>5, <1>7, VerdictIs
  <2> QED BY <1>6, <2>1 DEF CompileInv, Compiling, VerdictIsRight
<1>8. CASE Meaningful
  <2>1. phase' = "compiled" /\ Verdict' = "compiled"
    BY <1>2, <1>4, <1>5, <1>8, VerdictIs
  <2> QED BY <1>5, <1>6, <1>8, <2>1 DEF CompileInv, Compiling, VerdictIsRight, Refusals
<1> QED
  BY <1>7, <1>8

(* Running changes nothing of what was compiled. *)
LEMMA RunCompile ==
  ASSUME CompileInv, UNCHANGED compiling, phase \in {"compiled", "running"},
         phase' \in {"running", "done", "CapabilityResolutionError"}
  PROVE  CompileInv'
<1>1. CompileTypeOK /\ WellIndented /\ WellFormed /\ Built /\ Meaningful /\ Verdict = "compiled"
  BY DEF CompileInv, Compiling, VerdictIsRight
<1>2. WellIndented' /\ WellFormed' /\ Built' /\ Meaningful' /\ Verdict' = "compiled"
  BY <1>1, SameText, BuiltStill DEF compiling
<1>3. CompileTypeOK'
  BY <1>1 DEF CompileTypeOK, Text, Tokens, Phases, compiling
<1> QED
  BY <1>2, <1>3 DEF CompileInv, Compiling, VerdictIsRight, Refusals

LEMMA SameCompile == ASSUME CompileInv, UNCHANGED cltVars PROVE CompileInv'
<1>1. UNCHANGED compiling /\ phase' = phase
  BY DEF cltVars, compiling
<1>2. WellIndented' = WellIndented /\ WellFormed' = WellFormed /\ Meaningful' = Meaningful /\ Verdict' = Verdict /\ Built' = Built
  BY <1>1, SameText, BuiltStill DEF compiling
<1>3. CompileTypeOK'
  BY <1>1 DEF CompileInv, CompileTypeOK, Text, Tokens, Phases, compiling
<1>4. phase = "lexing" => Lexing'
  <2> SUFFICES ASSUME phase = "lexing" PROVE Lexing'
    OBVIOUS
  <2>1. PICK P : LaidOut(P, Len(text))
    BY DEF CompileInv, Compiling, Lexing
  <2>2. LaidOut(P, Len(text))'
    BY <1>1, <2>1, SameText DEF LaidOut, compiling
  <2> QED BY <1>1, <2>2, SameText DEF CompileInv, Compiling, Lexing, compiling
<1>5. phase = "parsing" => Parsing'
  <2> SUFFICES ASSUME phase = "parsing" PROVE Parsing'
    OBVIOUS
  <2>1. PICK P, ix, op, tr : ix = index /\ op = open /\ tr = tree /\ Parser(P, ix, op, tr)
    BY ParserOf
  <2> QED BY <1>1, <2>1, ParsedStill DEF compiling
<1> QED
  BY <1>1, <1>2, <1>3, <1>4, <1>5 DEF CompileInv, Compiling, VerdictIsRight

LEMMA StepCompile == CompileInv /\ [CltNext]_cltVars => CompileInv'
<1> SUFFICES ASSUME CompileInv, [CltNext]_cltVars PROVE CompileInv'
  OBVIOUS
<1>1. CASE LexLine
  BY <1>1, LexLineCompile
<1>2. CASE LexEnd
  BY <1>2, LexEndCompile
<1>3. CASE ParseStatement
  BY <1>3, ParseStatementCompile
<1>4. CASE ParseBlockEnd
  BY <1>4, ParseBlockEndCompile
<1>5. CASE ParseUnexpectedIndent
  BY <1>5, ParseUnexpectedIndentCompile
<1>6. CASE ParseEnd
  BY <1>6, ParseEndCompile
<1>7. CASE Validate
  BY <1>7, ValidateCompile
<1>8. CASE StartRun
  BY <1>8, RunCompile DEF StartRun
<1>9. CASE RunStatement
  BY <1>9, RunCompile DEF RunStatement
<1>10. CASE RunBlockEnd
  BY <1>10, RunCompile DEF RunBlockEnd
<1>11. CASE Finished \/ UNCHANGED cltVars
  BY <1>11, SameCompile DEF Finished
<1> QED
  BY <1>1, <1>2, <1>3, <1>4, <1>5, <1>6, <1>7, <1>8, <1>9, <1>10, <1>11 DEF CltNext

(* Every source is judged by its layout: what the lexer's stack, the parser's
   descent and the validator accept is what is well laid out (compile). *)
THEOREM SourcesJudged == CltSpec => []VerdictIsRight
<1>1. CltSpec => []CompileInv
  BY InitCompile, StepCompile, PTL DEF CltSpec
<1>2. CompileInv => VerdictIsRight
  BY DEF CompileInv
<1> QED
  BY <1>1, <1>2, PTL

-----------------------------------------------------------------------------
(***************************************************************************)
(* The runs.                                                               *)
(***************************************************************************)
Increasing(s) == \A i, j \in DOMAIN s : i < j => s[i] < s[j]

(* Numbers can be listed in their order, and such a list has them all. *)
LEMMA Ordered ==
  ASSUME NEW P, IsFiniteSet(P), P \subseteq Nat
  PROVE  /\ Cardinality(P) \in Nat
         /\ \E s \in [1 .. Cardinality(P) -> P] : Increasing(s)
         /\ \A s \in [1 .. Cardinality(P) -> P] :
              Increasing(s) => \A m \in P : \E i \in 1 .. Cardinality(P) : s[i] = m
<1> DEFINE upTo(i) == {j \in P : j <= i}
           rank(i) == Cardinality(upTo(i))
           C       == Cardinality(P)
           ranks   == [i \in P |-> rank(i)]
           f       == [n \in 1 .. C |-> CHOOSE i \in P : rank(i) = n]
<1>1. C \in Nat
  BY FS_CardinalityType
<1>0. \A i \in P : i \in Nat
  OBVIOUS
<1>2. ASSUME NEW i \in P
      PROVE  rank(i) \in 1 .. C
  <2>1. upTo(i) \in SUBSET P /\ i \in upTo(i)
    OBVIOUS
  <2>2. IsFiniteSet(upTo(i)) /\ rank(i) <= C
    BY <2>1, FS_Subset
  <2>3. rank(i) \in Nat /\ rank(i) # 0
    BY <2>1, <2>2, FS_CardinalityType, FS_EmptySet
  <2> QED BY <1>1, <2>2, <2>3
<1>3. ASSUME NEW i \in P, NEW k \in P, i < k
      PROVE  rank(i) < rank(k)
  <2>0. i \in Nat /\ k \in Nat
    BY <1>0
  <2>1. upTo(i) \in SUBSET upTo(k) /\ k \in upTo(k) /\ k \notin upTo(i)
    <3>1. k <= k /\ ~(k <= i) /\ \A j \in Nat : j <= i => j <= k
      BY <1>3, <2>0
    <3>2. \A j \in P : j <= i => j <= k
      BY <1>0, <3>1
    <3> QED BY <3>1, <3>2, Zenon
  <2>2. rank(i) <= rank(k) /\ rank(i) # rank(k)
    <3>1. IsFiniteSet(upTo(k))
      BY FS_Subset, upTo(k) \in SUBSET P
    <3> QED BY <2>1, <3>1, FS_Subset
  <2> HIDE DEF rank, C
  <2> QED BY <1>1, <1>2, <2>2
<1>4. ASSUME NEW i \in P, NEW k \in P, rank(i) = rank(k)
      PROVE  i = k
  <2>1. i < k \/ i = k \/ k < i
    BY <1>0
  <2> HIDE DEF rank, C
  <2> QED BY <1>1, <1>2, <1>3, <1>4, <2>1
<1>5. ranks \in Surjection(P, 1 .. C)
  <2>1. ranks \in Injection(P, 1 .. C)
    BY <1>2, <1>4 DEF Injection, IsInjective
  <2>2. IsFiniteSet(1 .. C) /\ Cardinality(1 .. C) = C
    BY <1>1, FS_Interval
  <2> QED BY <1>1, <2>1, <2>2, FS_Injection
<1> HIDE DEF rank
<1>6. ASSUME NEW n \in 1 .. C
      PROVE  f[n] \in P /\ rank(f[n]) = n
  <2>1. \E i \in P : rank(i) = n
    BY <1>5 DEF Surjection
  <2> QED BY <2>1
<1>7. f \in [1 .. C -> P]
  BY <1>6
<1> HIDE DEF f
<1>8. ASSUME NEW m \in 1 .. C, NEW n \in 1 .. C, m < n
      PROVE  f[m] < f[n]
  <2>1. f[m] \in Nat /\ f[n] \in Nat /\ f[m] \in P /\ f[n] \in P
    BY <1>0, <1>6
  <2>2. f[n] < f[m] => n < m
    BY <1>3, <1>6, <2>1
  <2>3. f[n] # f[m]
    BY <1>6, <1>8
  <2> QED BY <1>8, <2>1, <2>2, <2>3
<1>9. Increasing(f)
  BY <1>7, <1>8 DEF Increasing
<1>10. ASSUME NEW s \in [1 .. C -> P], Increasing(s), NEW m \in P
       PROVE  \E i \in 1 .. C : s[i] = m
  <2>1. s \in Injection(1 .. C, P)
    <3>1. ASSUME NEW i \in 1 .. C, NEW j \in 1 .. C, i # j PROVE s[i] # s[j]
      <4>1. i < j \/ j < i
        BY <1>1, <3>1
      <4>2. s[i] \in Nat /\ s[j] \in Nat
        BY <1>0
      <4>3. s[i] < s[j] \/ s[j] < s[i]
        BY <1>10, <4>1 DEF Increasing
      <4> QED BY <4>2, <4>3
    <3> QED BY <3>1 DEF Injection, IsInjective
  <2>2. IsFiniteSet(1 .. C) /\ Cardinality(1 .. C) = C
    BY <1>1, FS_Interval
  <2>3. s \in Surjection(1 .. C, P)
    BY <1>1, <2>1, <2>2, FS_Injection
  <2> QED BY <2>3 DEF Surjection
<1> QED
  BY <1>1, <1>7, <1>9, <1>10

(* Of some lines there is a first one. *)
LEMMA FirstLine ==
  ASSUME NEW n \in Nat, NEW S \in SUBSET (1 .. n), S # {}
  PROVE  \E l \in S : \A m \in S : l <= m
<1>1. IsFiniteSet(S) /\ S \subseteq Nat
  <2>1. IsFiniteSet(1 .. n)
    BY FS_Interval
  <2>2. IsFiniteSet(S)
    BY <2>1, FS_Subset
  <2> QED BY <2>2
<1>2. Cardinality(S) \in Nat \ {0}
  BY <1>1, FS_CardinalityType, FS_EmptySet
<1>3. PICK s \in [1 .. Cardinality(S) -> S] :
        Increasing(s) /\ \A m \in S : \E i \in 1 .. Cardinality(S) : s[i] = m
  BY <1>1, Ordered
<1>4. 1 \in 1 .. Cardinality(S) /\ s[1] \in S
  BY <1>2, <1>3
<1>5. ASSUME NEW m \in S PROVE s[1] <= m
  <2>1. PICK i \in 1 .. Cardinality(S) : s[i] = m
    BY <1>3
  <2>2. i = 1 \/ 1 < i
    BY <1>2
  <2>3. s[1] \in Nat /\ m \in Nat
    BY <1>1, <1>4
  <2> QED BY <1>3, <1>4, <2>1, <2>2, <2>3 DEF Increasing
<1> QED
  BY <1>4, <1>5

(* A block is run statement by statement, in order. *)
LEMMA StatementsAre ==
  ASSUME tree \in Seq(Entries), NEW l, NEW branch, NEW b, b = [of |-> l, branch |-> branch]
  PROVE  Statements(l, branch) \in Seq(Nat) /\ Lists(Statements(l, branch), InBlock(b))
<1> DEFINE P == InBlock(b)
           C == Cardinality(P)
           s == Statements(l, branch)
<1>1. IsFiniteSet(P) /\ P \subseteq Nat
  <2>1. DOMAIN tree = 1 .. Len(tree) /\ Len(tree) \in Nat /\ P \in SUBSET (DOMAIN tree)
    BY DEF InBlock
  <2>2. IsFiniteSet(1 .. Len(tree))
    BY <2>1, FS_Interval
  <2> HIDE DEF P
  <2>3. IsFiniteSet(P)
    BY <2>1, <2>2, FS_Subset
  <2>4. \A m \in P : m \in Nat
    BY <2>1
  <2> QED BY <2>3, <2>4
<1>2. s = CHOOSE t \in [1 .. C -> P] : Increasing(t)
  BY DEF Statements, Increasing, InBlock
<1> HIDE DEF P, s
<1>3. /\ C \in Nat /\ s \in [1 .. C -> P] /\ Increasing(s)
      /\ \A m \in P : \E i \in 1 .. C : s[i] = m
  <2>1. /\ C \in Nat /\ \E t \in [1 .. C -> P] : Increasing(t)
        /\ \A t \in [1 .. C -> P] : Increasing(t) => \A m \in P : \E i \in 1 .. C : t[i] = m
    BY <1>1, Ordered
  <2> HIDE DEF C
  <2>2. s \in [1 .. C -> P] /\ Increasing(s)
    BY <1>2, <2>1
  <2> QED BY <2>1, <2>2
<1> HIDE DEF C
<1>4. s \in Seq(Nat)
  <2>1. \A i \in 1 .. C : s[i] \in Nat
    BY <1>1, <1>3
  <2> QED BY <1>3, <2>1
<1>5. Lists(s, P)
  BY <1>3 DEF Lists, Increasing
<1> QED
  BY <1>4, <1>5 DEF P, s

\* The conditions of line m are met, around what is in it.
Holds(m) ==
  /\ KindOf(m) \in Conditions => KindOf(m) \in facts
  /\ \A i \in DOMAIN text : IsElseOf(m, i) => KindOf(i) \notin facts

LEMMA ReachedIs == \A l : Reached(l) <=> \A m \in DOMAIN text : Within(m, l) => Holds(m)
BY DEF Reached, Holds

LEMMA ReachedIn ==
  ASSUME Text, WellIndented, NEW h \in DOMAIN text, NEW l \in DOMAIN text,
         h < l, At(l) = At(h) + 4, \A j \in h + 1 .. l - 1 : At(j) > At(h)
  PROVE  Reached(l) <=> Reached(h) /\ Holds(h)
<1>1. /\ h \in Nat /\ l \in Nat /\ \A m \in DOMAIN text : m \in Nat
      /\ \A m : At(m) \in Nat
  BY TextIs
<1>2. ASSUME NEW m \in DOMAIN text, Within(m, l), m # h PROVE Within(m, h)
  <2>1. m < l /\ \A k \in m + 1 .. l : At(k) > At(m)
    BY <1>2, WithinIs
  <2>2. m < h
    <3> SUFFICES ASSUME h < m PROVE FALSE
      BY <1>1, <1>2
    <3>1. m \in h + 1 .. l - 1 /\ l \in m + 1 .. l
      BY <1>1, <2>1
    <3>2. At(m) > At(h) /\ At(l) > At(m)
      BY <2>1, <3>1
    <3>3. PICK i \in Nat, j \in Nat : At(m) = 4 * i /\ At(h) = 4 * j
      BY Multiples
    <3> QED BY <1>1, <3>2, <3>3
  <2>3. \A k \in m + 1 .. h : At(k) > At(m)
    <3>1. \A k \in m + 1 .. h : k \in m + 1 .. l
      BY <1>1
    <3> QED BY <2>1, <3>1
  <2> QED BY <2>2, <2>3, WithinIs
<1>3. ASSUME NEW m \in DOMAIN text, Within(m, h) PROVE Within(m, l)
  <2>1. m < h /\ \A k \in m + 1 .. h : At(k) > At(m)
    BY <1>3, WithinIs
  <2>2. At(h) > At(m)
    BY <1>1, <2>1
  <2>3. ASSUME NEW k \in m + 1 .. l PROVE At(k) > At(m)
    <3>1. k \in m + 1 .. h \/ k \in h + 1 .. l - 1 \/ k = l
      BY <1>1, <2>1
    <3>2. CASE k \in m + 1 .. h
      BY <2>1, <3>2
    <3>3. CASE k \in h + 1 .. l - 1
      <4>1. At(k) > At(h)
        BY <3>3
      <4> QED BY <1>1, <2>2, <4>1
    <3>4. CASE k = l
      BY <1>1, <2>2, <3>4
    <3> QED BY <3>1, <3>2, <3>3, <3>4
  <2>4. m < l
    BY <1>1, <2>1
  <2> QED BY <2>3, <2>4, WithinIs
<1>4. Within(h, l)
  <2>1. ASSUME NEW k \in h + 1 .. l PROVE At(k) > At(h)
    <3>1. k \in h + 1 .. l - 1 \/ k = l
      BY <1>1
    <3> QED BY <1>1, <3>1
  <2> QED BY <2>1, WithinIs
<1> QED
  BY <1>2, <1>3, <1>4, ReachedIs

(* An else runs where its "if" does, but when that holds. *)
LEMMA ReachedBeside ==
  ASSUME Text, NEW p \in DOMAIN text, NEW h \in DOMAIN text, IsElseOf(h, p)
  PROVE  (Reached(h) <=> Reached(p)) /\ (Holds(h) <=> KindOf(p) \notin facts)
<1>1. /\ KindOf(h) = "else" /\ KindOf(p) \in Conditions /\ p < h /\ At(p) = At(h)
      /\ \A k \in p + 1 .. h - 1 : At(k) > At(p)
  BY ElseIs
<1>2. /\ p \in Nat /\ h \in Nat /\ \A m \in DOMAIN text : m \in Nat
      /\ \A m : At(m) \in Nat
  BY TextIs
<1>3. ASSUME NEW m \in DOMAIN text, Within(m, h) PROVE Within(m, p)
  <2>1. m < h /\ \A k \in m + 1 .. h : At(k) > At(m)
    BY <1>3, WithinIs
  <2>2. At(h) > At(m)
    BY <1>2, <2>1
  <2>3. m < p
    <3> SUFFICES ASSUME p <= m PROVE FALSE
      BY <1>2
    <3>1. m = p \/ m \in p + 1 .. h - 1
      BY <1>2, <2>1
    <3> QED BY <1>1, <1>2, <2>2, <3>1
  <2>4. \A k \in m + 1 .. p : k \in m + 1 .. h
    BY <1>1, <1>2
  <2> QED BY <2>1, <2>3, <2>4, WithinIs
<1>4. ASSUME NEW m \in DOMAIN text, Within(m, p) PROVE Within(m, h)
  <2>1. m < p /\ \A k \in m + 1 .. p : At(k) > At(m)
    BY <1>4, WithinIs
  <2>2. At(p) > At(m)
    BY <1>2, <2>1
  <2>3. ASSUME NEW k \in m + 1 .. h PROVE At(k) > At(m)
    <3>1. k \in m + 1 .. p \/ k \in p + 1 .. h - 1 \/ k = h
      BY <1>1, <1>2, <2>1
    <3>2. CASE k \in m + 1 .. p
      BY <2>1, <3>2
    <3>3. CASE k \in p + 1 .. h - 1
      <4>1. At(k) > At(p)
        BY <1>1, <3>3
      <4> QED BY <1>2, <2>2, <4>1
    <3>4. CASE k = h
      BY <1>1, <1>2, <2>2, <3>4
    <3> QED BY <3>1, <3>2, <3>3, <3>4
  <2>4. m < h
    BY <1>1, <1>2, <2>1
  <2> QED BY <2>3, <2>4, WithinIs
<1>5. ASSUME NEW i \in DOMAIN text, IsElseOf(h, i) PROVE i = p
  <2>1. i < h /\ At(i) = At(h) /\ \A k \in i + 1 .. h - 1 : At(k) > At(i)
    BY <1>5, ElseIs
  <2>2. CASE i < p
    <3>1. p \in i + 1 .. h - 1
      BY <1>1, <1>2, <2>2
    <3> QED BY <1>1, <1>2, <2>1, <3>1
  <2>3. CASE p < i
    <3>1. i \in p + 1 .. h - 1
      BY <1>2, <2>1, <2>3
    <3> QED BY <1>1, <1>2, <2>1, <3>1
  <2> QED BY <1>2, <2>2, <2>3
<1>6. KindOf(h) \notin Conditions
  BY <1>1, ConditionsAreNew
<1>7. Holds(h) <=> KindOf(p) \notin facts
  BY <1>5, <1>6 DEF Holds
<1> QED
  BY <1>3, <1>4, <1>7, ReachedIs

\* A source that is compiled.
Program ==
  /\ Text /\ tree \in Seq(Entries)
  /\ WellIndented /\ WellFormed /\ Meaningful /\ Built

(* A statement runs where its block does. *)
LEMMA BlockIs ==
  ASSUME Program, NEW l \in DOMAIN text, tree[l].branch # "label", tree[l] # Module
  PROVE  LET p == tree[l].of
         IN  /\ p \in 1 .. l - 1 /\ p \in DOMAIN text /\ tree[p].branch # "label"
             /\ tree[l].branch \in {"body", "else"}
             /\ tree[l].branch = "else" => KindOf(p) \in Conditions
             /\ At(l) = At(p) + 4 /\ Opens(p)
             /\ \A m \in p + 1 .. l : tree[m].branch # "label" => At(m) > At(p)
             /\ Reached(l) <=> Reached(p) /\ Taken(tree[l])
<1> DEFINE p == tree[l].of
           b == tree[l]
<1>1. /\ Text /\ WellIndented /\ Placed(tree, l) /\ tree \in Seq(Entries)
      /\ DOMAIN tree = DOMAIN text
      /\ \A m \in DOMAIN text : tree[m].branch = "label" <=> IsElse(m)
  BY LabelIs DEF Program, Built
<1>2. /\ l \in Nat /\ DOMAIN text = 1 .. Len(text) /\ Len(text) \in Nat /\ \A m : At(m) \in Nat
  BY <1>1, TextIs
<1>3. b.branch \in {"body", "else"} /\ p \in 1 .. l - 1
  BY <1>1 DEF Placed
<1>4. PICK h \in 1 .. l - 1 : At(h) + 4 = At(l) /\ Begins(tree, b, h, l)
  BY <1>1 DEF Placed
<1> HIDE DEF b, p
<1>5. h \in DOMAIN text /\ p \in DOMAIN text
  BY <1>2, <1>3, <1>4
<1>6. /\ \A j \in h + 1 .. l - 1 : At(j) > At(h)
      /\ \/ b.branch = "body" /\ h = p /\ tree[h].branch # "label"
         \/ b.branch = "else" /\ IsElseOf(h, p)
  BY <1>4 DEF Begins, b, p
<1>7. Reached(l) <=> Reached(h) /\ Holds(h)
  <2>1. h < l /\ At(l) = At(h) + 4
    BY <1>2, <1>4
  <2> QED BY <1>1, <1>5, <1>6, <2>1, ReachedIn
<1>8. CASE b.branch = "body"
  <2>1. h = p /\ tree[h].branch # "label"
    BY <1>6, <1>8
  <2>2. Holds(p) <=> Taken(b)
    <3>1. ~IsElse(p)
      BY <1>1, <1>5, <2>1
    <3>2. Taken(b) <=> (KindOf(p) \in Conditions => KindOf(p) \in facts)
      BY <1>8 DEF Taken, Branch, b, p
    <3> QED BY <3>1, <3>2 DEF Holds, IsElse
  <2>3. ASSUME NEW m \in p + 1 .. l PROVE At(m) > At(p)
    <3>1. m \in h + 1 .. l - 1 \/ m = l
      BY <1>2, <1>5, <2>1
    <3> QED BY <1>2, <1>4, <1>6, <2>1, <3>1
  <2>4. Opens(p)
    <3>1. p + 1 \in p + 1 .. l
      BY <1>2, <1>3
    <3> QED BY <1>1, <1>5, <2>3, <3>1, TextIs
  <2>5. At(l) = At(p) + 4
    BY <1>2, <1>4, <2>1
  <2> QED BY <1>3, <1>5, <1>7, <1>8, <2>1, <2>2, <2>3, <2>4, <2>5 DEF b, p
<1>9. CASE b.branch = "else"
  <2>1. IsElseOf(h, p)
    BY <1>6, <1>9
  <2>2. /\ KindOf(h) = "else" /\ KindOf(p) \in Conditions /\ p < h /\ At(p) = At(h)
        /\ \A k \in p + 1 .. h - 1 : At(k) > At(p)
    BY <1>1, <1>5, <2>1, ElseIs
  <2>3. Holds(h) <=> Taken(b)
    <3>1. Taken(b) <=> KindOf(p) \notin facts
      BY <1>9, <2>2 DEF Taken, Branch, b, p
    <3> QED BY <1>1, <1>5, <2>1, <3>1, ReachedBeside
  <2>4. Reached(h) <=> Reached(p)
    BY <1>1, <1>5, <2>1, ReachedBeside
  <2>5. ASSUME NEW m \in p + 1 .. l, tree[m].branch # "label" PROVE At(m) > At(p)
    <3>1. tree[h].branch = "label"
      BY <1>1, <1>5, <2>1 DEF IsElse
    <3>2. m \in p + 1 .. h - 1 \/ m \in h + 1 .. l - 1 \/ m = l
      BY <1>2, <1>5, <2>2, <2>5, <3>1
    <3>3. CASE m \in p + 1 .. h - 1
      BY <2>2, <3>3
    <3>4. CASE m \in h + 1 .. l - 1
      BY <1>6, <2>2, <3>4
    <3>5. CASE m = l
      BY <1>2, <1>4, <2>2, <3>5
    <3> QED BY <3>2, <3>3, <3>4, <3>5
  <2>6. tree[p].branch # "label"
    <3>1. KindOf(p) # "else"
      BY <2>2, ConditionsAreNew
    <3>2. ~IsElse(p)
      BY <3>1 DEF IsElse, IsElseOf
    <3> QED BY <1>1, <1>5, <3>2
  <2>7. Opens(p)
    BY <1>5, <2>2 DEF Program, WellFormed
  <2>8. At(l) = At(p) + 4
    BY <1>2, <1>4, <2>2
  <2> QED BY <1>3, <1>5, <1>7, <1>9, <2>2, <2>3, <2>4, <2>5, <2>6, <2>7, <2>8 DEF b, p
<1> QED
  BY <1>3, <1>8, <1>9

(* What is in no block runs. *)
LEMMA OutermostIs ==
  ASSUME Program, NEW l \in DOMAIN text, tree[l] = Module
  PROVE  At(l) = 0 /\ Reached(l)
<1>1. Placed(tree, l) /\ Text
  BY DEF Program, Built
<1>2. At(l) = 0
  BY <1>1, TextIs DEF Placed, Module
<1>3. ASSUME NEW m \in DOMAIN text PROVE ~Within(m, l)
  <2> SUFFICES ASSUME Within(m, l) PROVE FALSE
    OBVIOUS
  <2>1. m < l /\ \A k \in m + 1 .. l : At(k) > At(m)
    BY <1>1, WithinIs
  <2>2. At(l) > At(m) /\ At(m) \in Nat
    BY <1>1, <2>1, TextIs
  <2> QED BY <1>2, <2>2
<1> QED
  BY <1>2, <1>3, ReachedIs

-----------------------------------------------------------------------------
\* Of the lines from n to before e, none runs; but an else may be among them.
Quiet(n, e) == \A m \in n .. e - 1 : Reached(m) => tree[m].branch = "label"

\* Where a run may be: at a line, or past the last.
Places == 1 .. Len(text) + 1

(* What comes next runs in one of the blocks entered. *)
LEMMA GapIs ==
  ASSUME Program, NEW n \in Places, NEW e \in Places, NEW bs, Complete(bs, n),
         \A k \in DOMAIN bs : \A m \in Left(bs[k], n) : m >= e
  PROVE  Quiet(n, e)
<1> DEFINE S == {m \in n .. e - 1 : Reached(m) /\ tree[m].branch # "label"}
<1>1. /\ DOMAIN text = 1 .. Len(text) /\ Len(text) \in Nat /\ n \in Nat \ {0} /\ e \in Nat
      /\ DOMAIN tree = DOMAIN text /\ S \in SUBSET (1 .. Len(text))
  BY TextIs, LabelIs DEF Program, Places
<1>2. SUFFICES ASSUME S # {} PROVE FALSE
  BY DEF Quiet
<1>3. PICK l \in S : \A m \in S : l <= m
  BY <1>1, <1>2, FirstLine
<1>4. /\ l \in DOMAIN text /\ l >= n /\ l < e /\ Reached(l) /\ tree[l].branch # "label"
  BY <1>1
<1>5. CASE \E k \in DOMAIN bs : tree[l] = bs[k]
  <2>1. PICK k \in DOMAIN bs : tree[l] = bs[k]
    BY <1>5
  <2>2. l \in Left(bs[k], n)
    BY <1>1, <1>4, <2>1 DEF Left, InBlock
  <2> QED BY <1>1, <1>4, <2>2
<1>6. CASE tree[l].of >= n
  <2>1. tree[l] # Module
    BY <1>1, <1>6 DEF Module
  <2> DEFINE p == tree[l].of
  <2>2. p \in 1 .. l - 1 /\ p \in DOMAIN text /\ tree[p].branch # "label" /\ Reached(p)
    BY <1>4, <2>1, BlockIs
  <2>3. p >= n /\ p < l
    BY <1>1, <1>4, <1>6, <2>2
  <2> HIDE DEF p
  <2>4. p \in n .. e - 1
    BY <1>1, <1>4, <2>2, <2>3
  <2>5. p \in S
    BY <2>2, <2>4
  <2> QED BY <1>1, <1>3, <1>4, <2>2, <2>3, <2>5
<1> QED
  BY <1>1, <1>4, <1>5, <1>6 DEF Complete

(* Where none runs, nothing changes. *)
LEMMA QuietKeeps ==
  ASSUME Program, NEW n \in Places, NEW e \in Places, n <= e, Quiet(n, e)
  PROVE  /\ CallsBefore(n) = CallsBefore(e) /\ XAt(n) = XAt(e) /\ YAt(n) = YAt(e)
         /\ \A l \in n .. e - 1 : ~(KindOf(l) = "unresolved" /\ Reached(l))
         /\ Behind(n) => Behind(e)
<1>1. /\ DOMAIN text = 1 .. Len(text) /\ Len(text) \in Nat /\ n \in Nat \ {0} /\ e \in Nat
      /\ \A l \in DOMAIN text : tree[l].branch = "label" <=> IsElse(l)
  BY TextIs, LabelIs DEF Program, Places
<1>2. \A l \in n .. e - 1 : Reached(l) => KindOf(l) = "else"
  <2>1. \A l \in n .. e - 1 : l \in DOMAIN text
    BY <1>1 DEF Places
  <2> QED BY <1>1, <2>1 DEF Quiet, IsElse, IsElseOf
<1>3. \A l : l \in 1 .. e - 1 <=> l \in 1 .. n - 1 \/ l \in n .. e - 1
  BY <1>1
<1>4. CallsBefore(n) = CallsBefore(e)
  BY <1>2, <1>3 DEF CallsBefore
<1>5. ASSUME NEW kind \in {"assign", "copy"} PROVE LastBefore(n, kind) = LastBefore(e, kind)
  <2> DEFINE those(x) == {m \in 1 .. x - 1 : KindOf(m) = kind /\ Reached(m)}
             last(S) == IF S = {} THEN 0 ELSE CHOOSE m \in S : \A k \in S : k <= m
  <2>1. those(n) = those(e)
    BY <1>2, <1>3
  <2>2. LastBefore(n, kind) = last(those(n)) /\ LastBefore(e, kind) = last(those(e))
    BY DEF LastBefore
  <2> HIDE DEF those, last
  <2> QED BY <2>1, <2>2
<1>6. XAt(n) = XAt(e) /\ YAt(n) = YAt(e)
  BY <1>5 DEF XAt, YAt
<1>7. \A l \in n .. e - 1 : ~(KindOf(l) = "unresolved" /\ Reached(l))
  BY <1>2
<1>8. Behind(n) => Behind(e)
  BY <1>3, <1>4, <1>6, <1>7 DEF Behind
<1> QED
  BY <1>4, <1>6, <1>7, <1>8

(* What is to run after line l is in one of the blocks, or in that of l, or
   begins later. *)
LEMMA CompleteOn ==
  ASSUME Program, NEW n \in Places, NEW l \in DOMAIN text, n <= l, Quiet(n, l),
         NEW bs, Complete(bs, n), NEW bs2,
         \A k \in DOMAIN bs : \E k2 \in DOMAIN bs2 : bs2[k2] = bs[k],
         \A m \in DOMAIN text :
           tree[m].of = l /\ Reached(m) /\ tree[m].branch # "label" => \E k2 \in DOMAIN bs2 : tree[m] = bs2[k2]
  PROVE  Complete(bs2, l + 1)
<1>1. /\ DOMAIN text = 1 .. Len(text) /\ Len(text) \in Nat /\ n \in Nat \ {0} /\ l \in Nat
      /\ DOMAIN tree = DOMAIN text /\ tree \in Seq(Entries)
  BY TextIs, LabelIs DEF Program, Places
<1> SUFFICES ASSUME NEW m \in DOMAIN tree, m >= l + 1, Reached(m), tree[m].branch # "label",
                    ~\E k \in DOMAIN bs2 : tree[m] = bs2[k]
             PROVE  tree[m].of >= l + 1
  BY DEF Complete
<1>2. m \in DOMAIN text /\ m >= n
  BY <1>1
<1>3. tree[m].of >= n /\ tree[m].of # l /\ tree[m].of \in Nat
  <2>1. tree[m] \in Entries
    BY <1>1
  <2>2. tree[m].of >= n
    BY <1>2 DEF Complete
  <2>3. tree[m].of # l
    BY <1>2
  <2> QED BY <2>1, <2>2, <2>3 DEF Entries
<1>4. tree[m] # Module
  BY <1>1, <1>3 DEF Module
<1> DEFINE p == tree[m].of
<1>5. Reached(p) /\ tree[p].branch # "label"
  BY <1>2, <1>4, BlockIs
<1>6. ~(p \in n .. l - 1)
  BY <1>5 DEF Quiet
<1> QED
  BY <1>1, <1>3, <1>6

(* The first of what is left, and the rest. *)
LEMMA HeadOf ==
  ASSUME NEW s \in Seq(Nat), NEW S, Lists(s, S), s # <<>>
  PROVE  /\ Head(s) \in S /\ Tail(s) \in Seq(Nat)
         /\ \A m \in S : m = Head(s) \/ m > Head(s)
         /\ \A T : (\A m : m \in T <=> m \in S /\ m > Head(s)) => Lists(Tail(s), T)
<1>1. /\ Len(s) \in Nat \ {0} /\ DOMAIN s = 1 .. Len(s) /\ Head(s) = s[1] /\ 1 \in DOMAIN s
      /\ \A i \in DOMAIN s : s[i] \in Nat
  OBVIOUS
<1>2. /\ Tail(s) \in Seq(Nat) /\ Len(Tail(s)) = Len(s) - 1 /\ DOMAIN Tail(s) = 1 .. Len(s) - 1
      /\ \A i \in 1 .. Len(s) - 1 : Tail(s)[i] = s[i + 1]
  <2>1. Tail(s) \in Seq(Nat) /\ Len(Tail(s)) = Len(s) - 1
    BY <1>1
  <2>2. \A i \in 1 .. Len(s) - 1 : Tail(s)[i] = s[i + 1]
    BY <1>1
  <2> QED BY <2>1, <2>2
<1>3. /\ \A i, j \in DOMAIN s : i < j => s[i] < s[j]
      /\ \A i \in DOMAIN s : s[i] \in S
      /\ \A m \in S : \E i \in DOMAIN s : s[i] = m
  BY DEF Lists
<1>4. \A i \in DOMAIN s : i > 1 => s[i] > Head(s)
  BY <1>1, <1>3
<1>5. ASSUME NEW m \in S PROVE m = Head(s) \/ m > Head(s)
  <2>1. PICK i \in DOMAIN s : s[i] = m
    BY <1>3
  <2>2. i = 1 \/ i > 1
    BY <1>1
  <2> QED BY <1>1, <1>4, <2>1, <2>2
<1>6. ASSUME NEW T, \A m : m \in T <=> m \in S /\ m > Head(s) PROVE Lists(Tail(s), T)
  <2> DEFINE t == Tail(s)
  <2>1. \A i \in DOMAIN t : i \in Nat /\ i + 1 \in DOMAIN s /\ i + 1 > 1 /\ t[i] = s[i + 1]
    BY <1>1, <1>2
  <2>2. DOMAIN t = 1 .. Len(s) - 1
    BY <1>2
  <2> HIDE DEF t
  <2>3. ASSUME NEW i \in DOMAIN t, NEW j \in DOMAIN t, i < j PROVE t[i] < t[j]
    <3>1. i + 1 < j + 1
      BY <2>1, <2>3
    <3> QED BY <1>3, <2>1, <3>1
  <2>4. \A i \in DOMAIN t : t[i] \in T
    BY <1>3, <1>4, <1>6, <2>1
  <2>5. ASSUME NEW m \in T PROVE \E i \in DOMAIN t : t[i] = m
    <3>1. m \in S /\ m > Head(s)
      BY <1>6
    <3>2. PICK j \in DOMAIN s : s[j] = m
      BY <1>3, <3>1
    <3>3. j # 1
      BY <1>1, <3>1, <3>2
    <3>4. j - 1 \in DOMAIN t /\ (j - 1) + 1 = j
      BY <1>1, <2>2, <3>3
    <3> QED BY <2>1, <3>2, <3>4
  <2> QED BY <2>3, <2>4, <2>5 DEF Lists, t
<1> QED
  BY <1>1, <1>2, <1>3, <1>5, <1>6

\* The statement that is next, of the innermost block.
Following(fs) == Head(fs[Len(fs)])

(* It is the next that runs at all. *)
LEMMA NextIs ==
  ASSUME Program, NEW n \in Places, NEW fs \in Seq(Seq(Nat)), NEW bs, Entered(fs, bs, n),
         Complete(bs, n), fs # <<>>, fs[Len(fs)] # <<>>
  PROVE  LET l == Following(fs)
         IN  /\ l \in DOMAIN text /\ l >= n /\ l \in Places /\ l + 1 \in Places
             /\ Len(fs) \in DOMAIN bs /\ Len(bs) = Len(fs) /\ l \in Left(bs[Len(fs)], n)
             /\ \A m \in Left(bs[Len(fs)], n) : m = l \/ m > l
             /\ \A k \in DOMAIN bs : k # Len(fs) => \A m \in Left(bs[k], n) : m > l
             /\ Reached(l) /\ tree[l].branch # "label" /\ At(l) = 4 * (Len(bs) - 1)
             /\ Quiet(n, l)
<1> DEFINE top == Len(fs)
           l == Following(fs)
<1>1. /\ DOMAIN text = 1 .. Len(text) /\ Len(text) \in Nat /\ n \in Nat \ {0}
      /\ DOMAIN tree = DOMAIN text
  BY TextIs, LabelIs DEF Program, Places
<1>2. top \in Nat \ {0} /\ top \in DOMAIN fs /\ fs[top] \in Seq(Nat)
  OBVIOUS
<1>3. bs \in Seq(Blocks) /\ Len(bs) = top
  BY DEF Entered
<1>4. top \in DOMAIN bs /\ bs[top] \in Blocks /\ DOMAIN bs = 1 .. top
  <2> HIDE DEF top
  <2>1. DOMAIN bs = 1 .. top /\ top \in 1 .. top
    BY <1>2, <1>3
  <2> QED BY <1>3, <2>1
<1> HIDE DEF top
<1>5. /\ \/ bs[top] = Module
         \/ bs[top].of \in 1 .. n - 1 /\ Reached(bs[top].of) /\ Taken(bs[top])
      /\ \A m \in InBlock(bs[top]) : At(m) = 4 * (top - 1)
      /\ Lists(fs[top], Left(bs[top], n))
      /\ \A j \in 1 .. top - 1 : \A q \in InBlock(bs[top]) : \A m \in Left(bs[j], n) : q < m
  BY <1>4 DEF Entered
<1>6. /\ l \in Left(bs[top], n)
      /\ \A m \in Left(bs[top], n) : m = l \/ m > l
  BY <1>2, <1>5, HeadOf DEF Following, top
<1> HIDE DEF l
<1>7. l \in DOMAIN text /\ tree[l] = bs[top] /\ l >= n /\ l \in InBlock(bs[top])
  BY <1>1, <1>6 DEF Left, InBlock
<1>8. tree[l].branch # "label"
  BY <1>4, <1>7 DEF Blocks
<1>9. Reached(l)
  <2>1. CASE tree[l] = Module
    BY <1>7, <2>1, OutermostIs
  <2>2. CASE tree[l] # Module
    BY <1>5, <1>7, <1>8, <2>2, BlockIs
  <2> QED BY <2>1, <2>2
<1>10. ASSUME NEW k \in DOMAIN bs, k # top, NEW m \in Left(bs[k], n) PROVE m > l
  <2>1. k \in 1 .. top - 1
    BY <1>2, <1>4, <1>10
  <2>2. l < m
    BY <1>5, <1>7, <2>1
  <2>3. m \in Nat /\ l \in Nat
    BY <1>1, <1>7 DEF Left, InBlock
  <2> QED BY <2>2, <2>3
<1>11. l \in Places /\ l + 1 \in Places
  BY <1>1, <1>7 DEF Places
<1>12. Quiet(n, l)
  <2>1. ASSUME NEW k \in DOMAIN bs, NEW m \in Left(bs[k], n) PROVE m >= l
    <3>1. m \in Nat /\ l \in Nat
      BY <1>1, <1>7 DEF Left, InBlock
    <3>2. m = l \/ m > l
      <4>1. CASE k = top
        BY <1>6, <4>1
      <4>2. CASE k # top
        BY <1>10, <4>2
      <4> QED BY <4>1, <4>2
    <3> QED BY <3>1, <3>2
  <2> QED BY <1>11, <2>1, GapIs
<1>13. At(l) = 4 * (Len(bs) - 1)
  BY <1>3, <1>5, <1>7
<1> QED
  BY <1>3, <1>4, <1>6, <1>7, <1>8, <1>9, <1>10, <1>11, <1>12, <1>13 DEF top, l

(* The next statement done, the rest is left of the blocks entered. *)
LEMMA RestEntered ==
  ASSUME Program, NEW n \in Places, NEW fs \in Seq(Seq(Nat)), NEW bs, Entered(fs, bs, n),
         Complete(bs, n), fs # <<>>, fs[Len(fs)] # <<>>,
         NEW rest, rest = [fs EXCEPT ![Len(fs)] = Tail(@)]
  PROVE  rest \in Seq(Seq(Nat)) /\ Len(rest) = Len(fs) /\ Entered(rest, bs, Following(fs) + 1)
<1> DEFINE top == Len(fs)
           l == Following(fs)
<1>1. /\ DOMAIN text = 1 .. Len(text) /\ Len(text) \in Nat /\ n \in Nat \ {0}
      /\ DOMAIN tree = DOMAIN text
  BY TextIs, LabelIs DEF Program, Places
<1>2. /\ top \in Nat \ {0} /\ fs[top] \in Seq(Nat) /\ Tail(fs[top]) \in Seq(Nat)
      /\ \A k \in 1 .. top : fs[k] \in Seq(Nat)
  <2>1. top \in Nat \ {0} /\ fs[top] \in Seq(Nat) /\ \A k \in 1 .. top : fs[k] \in Seq(Nat)
    OBVIOUS
  <2>2. Tail(fs[top]) \in Seq(Nat)
    BY <2>1
  <2> QED BY <2>1, <2>2
<1>3. /\ l \in DOMAIN text /\ l >= n
      /\ top \in DOMAIN bs /\ Len(bs) = top /\ l \in Left(bs[top], n)
      /\ \A m \in Left(bs[top], n) : m = l \/ m > l
      /\ \A k \in DOMAIN bs : k # top => \A m \in Left(bs[k], n) : m > l
  BY NextIs
<1>4. /\ bs \in Seq(Blocks)
      /\ \A k \in DOMAIN bs :
           /\ bs[k] = Module \/ (bs[k].of \in 1 .. n - 1 /\ Reached(bs[k].of) /\ Taken(bs[k]))
           /\ \A m \in InBlock(bs[k]) : At(m) = 4 * (k - 1)
           /\ Lists(fs[k], Left(bs[k], n))
           /\ \A j \in 1 .. k - 1 : \A q \in InBlock(bs[k]) : \A m \in Left(bs[j], n) : q < m
  BY DEF Entered
<1>5. l = Head(fs[top]) /\ DOMAIN bs = 1 .. top
  BY <1>3, <1>4 DEF Following
<1>6. /\ DOMAIN rest = 1 .. top /\ rest[top] = Tail(fs[top])
      /\ \A k \in 1 .. top : k # top => rest[k] = fs[k]
      /\ rest \in Seq(Seq(Nat)) /\ Len(rest) = top
  <2>1. /\ DOMAIN rest = 1 .. top /\ rest[top] = Tail(fs[top])
        /\ \A k \in 1 .. top : k # top => rest[k] = fs[k]
        /\ rest = [k \in 1 .. top |-> rest[k]]
    <3>1. DOMAIN fs = 1 .. top /\ top \in DOMAIN fs
      BY <1>2
    <3>2. rest = [k \in DOMAIN fs |-> IF k = top THEN Tail(fs[top]) ELSE fs[k]]
      OBVIOUS
    <3> HIDE DEF top
    <3> QED BY <3>1, <3>2
  <2>2. \A k \in 1 .. top : rest[k] \in Seq(Nat)
    BY <1>2, <2>1
  <2> HIDE DEF top
  <2>3. rest \in Seq(Seq(Nat)) /\ Len(rest) = top
    BY <1>2, <2>1, <2>2
  <2> QED BY <2>1, <2>3
<1> HIDE DEF top, l
<1>7. \A b : \A m : m \in Left(b, l + 1) <=> m \in Left(b, n) /\ m > l
  <2>1. \A m \in DOMAIN text : m >= l + 1 <=> m >= n /\ m > l
    BY <1>1, <1>3
  <2> QED BY <1>1, <2>1 DEF Left, InBlock
<1>8. ASSUME NEW k \in DOMAIN bs
      PROVE  /\ bs[k] = Module \/ (bs[k].of \in 1 .. (l + 1) - 1 /\ Reached(bs[k].of) /\ Taken(bs[k]))
             /\ \A m \in InBlock(bs[k]) : At(m) = 4 * (k - 1)
             /\ Lists(rest[k], Left(bs[k], l + 1))
             /\ \A j \in 1 .. k - 1 : \A q \in InBlock(bs[k]) : \A m \in Left(bs[j], l + 1) : q < m
  <2>1. bs[k] = Module \/ (bs[k].of \in 1 .. (l + 1) - 1 /\ Reached(bs[k].of) /\ Taken(bs[k]))
    <3>1. \A p : p \in 1 .. n - 1 => p \in 1 .. (l + 1) - 1
      BY <1>1, <1>3
    <3> QED BY <1>4, <3>1
  <2>2. Lists(rest[k], Left(bs[k], l + 1))
    <3>1. CASE k = top
      <4>1. Lists(fs[top], Left(bs[top], n)) /\ fs[top] # <<>>
        BY <1>3, <1>4 DEF top
      <4>2. PICK S, T : S = Left(bs[top], n) /\ T = Left(bs[top], l + 1)
        OBVIOUS
      <4>3. \A m : m \in T <=> m \in S /\ m > Head(fs[top])
        BY <1>5, <1>7, <4>2 DEF top
      <4>4. Lists(Tail(fs[top]), T)
        <5>1. PICK s : s = fs[top]
          OBVIOUS
        <5>2. s \in Seq(Nat) /\ s # <<>> /\ Lists(s, S) /\ \A m : m \in T <=> m \in S /\ m > Head(s)
          BY <1>2, <4>1, <4>2, <4>3, <5>1
        <5>3. Lists(Tail(s), T)
          BY <5>2, HeadOf
        <5> QED BY <5>1, <5>3
      <4> QED BY <1>6, <3>1, <4>2, <4>4
    <3>2. CASE k # top
      <4>1. Left(bs[k], l + 1) = Left(bs[k], n)
        <5>1. \A m \in Left(bs[k], n) : m > l
          BY <1>3, <3>2
        <5>2. PICK S, T : S = Left(bs[k], n) /\ T = Left(bs[k], l + 1)
          OBVIOUS
        <5>3. \A m : m \in T <=> m \in S
          BY <1>7, <5>1, <5>2
        <5> QED BY <5>2, <5>3
      <4> QED BY <1>4, <1>5, <1>6, <3>2, <4>1
    <3> QED BY <3>1, <3>2
  <2>3. \A j \in 1 .. k - 1 : \A q \in InBlock(bs[k]) : \A m \in Left(bs[j], l + 1) : q < m
    BY <1>4, <1>7
  <2> QED BY <1>4, <2>1, <2>2, <2>3
<1> QED
  BY <1>3, <1>4, <1>6, <1>8 DEF Entered, top, l

(* Line l done, its block is entered. *)
LEMMA PushEntered ==
  ASSUME Program, NEW l \in DOMAIN text, NEW fs \in Seq(Seq(Nat)), NEW bs, Entered(fs, bs, l + 1),
         Reached(l), tree[l].branch # "label", At(l) = 4 * (Len(bs) - 1),
         NEW branch \in {"body", "else"}, NEW b, b = [of |-> l, branch |-> branch], Taken(b)
  PROVE  /\ Statements(l, branch) \in Seq(Nat)
         /\ Entered(Append(fs, Statements(l, branch)), Append(bs, b), l + 1)
<1> DEFINE s == Statements(l, branch)
           fs2 == Append(fs, s)
           bs2 == Append(bs, b)
           top == Len(bs)
<1>1. /\ DOMAIN text = 1 .. Len(text) /\ Len(text) \in Nat /\ \A m : At(m) \in Nat
      /\ DOMAIN tree = DOMAIN text /\ tree \in Seq(Entries)
  BY TextIs, LabelIs DEF Program
<1>2. s \in Seq(Nat) /\ Lists(s, InBlock(b))
  BY <1>1, StatementsAre
<1>3. /\ bs \in Seq(Blocks) /\ Len(bs) = Len(fs)
      /\ \A k \in DOMAIN bs :
           /\ bs[k] = Module \/ (bs[k].of \in 1 .. (l + 1) - 1 /\ Reached(bs[k].of) /\ Taken(bs[k]))
           /\ \A m \in InBlock(bs[k]) : At(m) = 4 * (k - 1)
           /\ Lists(fs[k], Left(bs[k], l + 1))
           /\ \A j \in 1 .. k - 1 : \A q \in InBlock(bs[k]) : \A m \in Left(bs[j], l + 1) : q < m
  BY DEF Entered
<1>4. b \in Blocks /\ b.of = l /\ l \in Nat \ {0} /\ b.branch # "label"
  BY <1>1 DEF Blocks
<1> HIDE DEF s
<1>5. /\ bs2 \in Seq(Blocks) /\ Len(bs2) = Len(fs2)
      /\ top \in Nat /\ DOMAIN bs = 1 .. top /\ DOMAIN bs2 = 1 .. top + 1
      /\ bs2[top + 1] = b /\ fs2[top + 1] = s
      /\ \A k \in 1 .. top : bs2[k] = bs[k] /\ fs2[k] = fs[k]
  BY <1>2, <1>3, <1>4
<1> HIDE DEF fs2, bs2, top
<1>6. \A q \in InBlock(b) : q \in DOMAIN text /\ tree[q] = b /\ tree[q].branch # "label" /\ tree[q] # Module
  BY <1>1, <1>4 DEF InBlock, Module
<1>7. ASSUME NEW q \in InBlock(b)
      PROVE  At(q) = At(l) + 4 /\ q > l /\ \A m \in l + 1 .. q : tree[m].branch # "label" => At(m) > At(l)
  <2>1. /\ l \in 1 .. q - 1 /\ At(q) = At(l) + 4
        /\ \A m \in l + 1 .. q : tree[m].branch # "label" => At(m) > At(l)
    BY <1>4, <1>6, BlockIs
  <2> QED BY <1>1, <1>6, <2>1
<1>8. Left(b, l + 1) = InBlock(b)
  <2>1. \A q \in InBlock(b) : q >= l + 1
    BY <1>1, <1>6, <1>7
  <2> QED BY <2>1 DEF Left
<1>9. ASSUME NEW j \in 1 .. top, NEW q \in InBlock(b), NEW m \in Left(bs[j], l + 1)
      PROVE  q < m
  <2>1. m \in InBlock(bs[j]) /\ m \in DOMAIN text /\ tree[m] = bs[j] /\ m >= l + 1
    BY <1>1 DEF Left, InBlock
  <2>2. bs[j].branch # "label"
    <3>1. bs[j] \in Blocks
      BY <1>3, <1>5
    <3> QED BY <3>1 DEF Blocks
  <2>3. At(m) = 4 * (j - 1)
    BY <1>3, <1>5, <2>1
  <2>4. ~(At(m) > At(l))
    BY <1>1, <1>5, <2>3 DEF top
  <2>5. ~(m \in l + 1 .. q)
    BY <1>7, <2>1, <2>2, <2>4
  <2> QED BY <1>1, <1>4, <1>6, <2>1, <2>5
<1>10. ASSUME NEW k \in DOMAIN bs2
       PROVE  /\ bs2[k] = Module \/ (bs2[k].of \in 1 .. (l + 1) - 1 /\ Reached(bs2[k].of) /\ Taken(bs2[k]))
              /\ \A m \in InBlock(bs2[k]) : At(m) = 4 * (k - 1)
              /\ Lists(fs2[k], Left(bs2[k], l + 1))
              /\ \A j \in 1 .. k - 1 : \A q \in InBlock(bs2[k]) : \A m \in Left(bs2[j], l + 1) : q < m
  <2>1. CASE k \in 1 .. top
    <3>1. \A j \in 1 .. k - 1 : j \in 1 .. top
      BY <1>5, <2>1
    <3>2. k \in DOMAIN bs /\ bs2[k] = bs[k] /\ fs2[k] = fs[k] /\ \A j \in 1 .. k - 1 : bs2[j] = bs[j]
      BY <1>5, <2>1, <3>1
    <3> QED BY <1>3, <3>2
  <2>2. CASE k = top + 1
    <3>1. bs2[k] = b /\ fs2[k] = s /\ \A j \in 1 .. k - 1 : j \in 1 .. top /\ bs2[j] = bs[j]
      BY <1>5, <2>2
    <3>2. b.of \in 1 .. (l + 1) - 1
      BY <1>4
    <3>3. \A m \in InBlock(b) : At(m) = 4 * (k - 1)
      <4>1. At(l) + 4 = 4 * (k - 1)
        BY <1>1, <1>5, <2>2 DEF top
      <4> QED BY <1>7, <4>1
    <3> QED BY <1>2, <1>4, <1>8, <1>9, <3>1, <3>2, <3>3
  <2>3. k \in 1 .. top \/ k = top + 1
    BY <1>5
  <2> QED BY <2>1, <2>2, <2>3
<1> QED
  BY <1>2, <1>5, <1>10 DEF Entered, fs2, bs2, s

(* The innermost block done, the rest is of those around it. *)
LEMMA PopEntered ==
  ASSUME Program, NEW n \in Places, NEW fs \in Seq(Seq(Nat)), NEW bs, Entered(fs, bs, n),
         Complete(bs, n), fs # <<>>, fs[Len(fs)] = <<>>
  PROVE  /\ Outer(fs) \in Seq(Seq(Nat)) /\ Len(Outer(fs)) = Len(fs) - 1
         /\ Entered(Outer(fs), Outer(bs), n) /\ Complete(Outer(bs), n)
<1> DEFINE top == Len(fs)
<1>1. /\ bs \in Seq(Blocks) /\ Len(bs) = top
      /\ \A k \in DOMAIN bs :
           /\ bs[k] = Module \/ (bs[k].of \in 1 .. n - 1 /\ Reached(bs[k].of) /\ Taken(bs[k]))
           /\ \A m \in InBlock(bs[k]) : At(m) = 4 * (k - 1)
           /\ Lists(fs[k], Left(bs[k], n))
           /\ \A j \in 1 .. k - 1 : \A q \in InBlock(bs[k]) : \A m \in Left(bs[j], n) : q < m
  BY DEF Entered
<1>2. top \in Nat \ {0}
  OBVIOUS
<1>3. /\ Outer(fs) \in Seq(Seq(Nat)) /\ Len(Outer(fs)) = top - 1
      /\ \A k \in DOMAIN Outer(fs) : Outer(fs)[k] = fs[k]
  BY <1>2, OuterIs
<1>4. /\ Outer(bs) \in Seq(Blocks) /\ Len(Outer(bs)) = top - 1
      /\ \A k \in DOMAIN Outer(bs) : k \in DOMAIN bs /\ Outer(bs)[k] = bs[k]
  BY <1>1, <1>2, OuterIs
<1>5. DOMAIN Outer(fs) = 1 .. top - 1 /\ DOMAIN Outer(bs) = 1 .. top - 1 /\ DOMAIN bs = 1 .. top
  BY <1>1, <1>3, <1>4
<1> HIDE DEF top
<1>6. Entered(Outer(fs), Outer(bs), n)
  <2>1. ASSUME NEW k \in DOMAIN Outer(bs)
        PROVE  /\ Outer(bs)[k] = bs[k] /\ Outer(fs)[k] = fs[k] /\ k \in DOMAIN bs
               /\ \A j \in 1 .. k - 1 : Outer(bs)[j] = bs[j]
    <3>1. \A j \in 1 .. k - 1 : j \in DOMAIN Outer(bs)
      BY <1>2, <1>5
    <3> QED BY <1>3, <1>4, <1>5, <3>1
  <2>2. ASSUME NEW k \in DOMAIN Outer(bs)
        PROVE  \A j \in 1 .. k - 1 : \A q \in InBlock(Outer(bs)[k]) : \A m \in Left(Outer(bs)[j], n) : q < m
    <3> SUFFICES ASSUME NEW j \in 1 .. k - 1
                 PROVE  \A q \in InBlock(Outer(bs)[k]) : \A m \in Left(Outer(bs)[j], n) : q < m
      OBVIOUS
    <3>1. Outer(bs)[k] = bs[k] /\ k \in DOMAIN bs /\ Outer(bs)[j] = bs[j]
      BY <2>1
    <3> QED BY <1>1, <3>1
  <2> QED BY <1>1, <1>3, <1>4, <2>1, <2>2 DEF Entered
<1>7. Complete(Outer(bs), n)
  <2> SUFFICES ASSUME NEW m \in DOMAIN tree, m >= n, Reached(m), tree[m].branch # "label",
                      ~(tree[m].of >= n)
               PROVE  \E k \in DOMAIN Outer(bs) : tree[m] = Outer(bs)[k]
    BY DEF Complete
  <2>1. PICK k \in DOMAIN bs : tree[m] = bs[k]
    BY DEF Complete
  <2>2. m \in Left(bs[k], n)
    BY <2>1 DEF Left, InBlock
  <2>3. k # top
    <3> SUFFICES ASSUME k = top PROVE FALSE
      OBVIOUS
    <3>1. Lists(<<>>, Left(bs[k], n))
      BY <1>1 DEF top
    <3> QED BY <2>2, <3>1 DEF Lists
  <2>4. k \in DOMAIN Outer(bs)
    BY <1>2, <1>5, <2>3
  <2> QED BY <1>4, <2>1, <2>4
<1> QED
  BY <1>3, <1>6, <1>7 DEF top

-----------------------------------------------------------------------------
LEMMA LastIs ==
  ASSUME NEW l \in Nat \ {0}, NEW kind
  PROVE  LastBefore(l + 1, kind) = IF KindOf(l) = kind /\ Reached(l) THEN l ELSE LastBefore(l, kind)
<1> DEFINE those(n) == {m \in 1 .. n - 1 : KindOf(m) = kind /\ Reached(m)}
           last(S) == IF S = {} THEN 0 ELSE CHOOSE m \in S : \A k \in S : k <= m
<1>1. \A n : LastBefore(n, kind) = last(those(n))
  BY DEF LastBefore
<1>2. \A m : m \in 1 .. (l + 1) - 1 <=> m \in 1 .. l - 1 \/ m = l
  OBVIOUS
<1>3. CASE KindOf(l) = kind /\ Reached(l)
  <2>1. l \in those(l + 1) /\ \A m \in those(l + 1) : m \in Nat /\ m <= l
    BY <1>2, <1>3
  <2> HIDE DEF those
  <2>2. (CHOOSE m \in those(l + 1) : \A k \in those(l + 1) : k <= m) = l
    <3>1. ASSUME NEW m \in those(l + 1), \A k \in those(l + 1) : k <= m PROVE m = l
      BY <2>1, <3>1
    <3>2. \A k \in those(l + 1) : k <= l
      BY <2>1
    <3> QED BY <2>1, <3>1, <3>2
  <2>3. last(those(l + 1)) = l
    BY <2>1, <2>2
  <2> HIDE DEF last
  <2> QED BY <1>1, <1>3, <2>3
<1>4. CASE ~(KindOf(l) = kind /\ Reached(l))
  <2>1. those(l + 1) = those(l)
    BY <1>2, <1>4
  <2> HIDE DEF those, last
  <2> QED BY <1>1, <1>4, <2>1
<1> QED
  BY <1>3, <1>4

LEMMA CallsIs ==
  ASSUME NEW l \in Nat \ {0}, Reached(l)
  PROVE  CallsBefore(l + 1) = IF KindOf(l) \in {"operation", "flow"} THEN CallsBefore(l) \union {l} ELSE CallsBefore(l)
<1>1. \A m : m \in 1 .. (l + 1) - 1 <=> m \in 1 .. l - 1 \/ m = l
  OBVIOUS
<1>2. \A m : m \in CallsBefore(l + 1) <=> m \in CallsBefore(l) \/ (m = l /\ KindOf(l) \in {"operation", "flow"})
  BY <1>1 DEF CallsBefore
<1> QED
  BY <1>2

(* What a statement that runs makes of the variables and the calls. *)
LEMMA Advances ==
  ASSUME NEW l \in Nat \ {0}, Reached(l), NEW kind, kind = KindOf(l)
  PROVE  /\ kind = "assign" =>
              XAt(l + 1) = Own(l) /\ YAt(l + 1) = YAt(l) /\ CallsBefore(l + 1) = CallsBefore(l)
         /\ kind = "copy" =>
              /\ XAt(l + 1) = XAt(l) /\ YAt(l + 1) = (IF XAt(l) = Unset THEN Name ELSE XAt(l))
              /\ CallsBefore(l + 1) = CallsBefore(l)
         /\ kind \in {"flow", "operation"} =>
              /\ XAt(l + 1) = XAt(l) /\ YAt(l + 1) = YAt(l)
              /\ CallsBefore(l + 1) = CallsBefore(l) \union {l}
         /\ kind \in Conditions =>
              XAt(l + 1) = XAt(l) /\ YAt(l + 1) = YAt(l) /\ CallsBefore(l + 1) = CallsBefore(l)
<1>1. kind \in Conditions => kind \notin {"assign", "copy", "flow", "operation"}
  BY ConditionsAreNew DEF Simple, Operations
<1>2. XAt(l + 1) = IF kind = "assign" THEN Own(l) ELSE XAt(l)
  <2>1. LastBefore(l + 1, "assign") = IF kind = "assign" THEN l ELSE LastBefore(l, "assign")
    BY LastIs
  <2> QED BY <2>1 DEF XAt
<1>3. YAt(l + 1) = IF kind = "copy" THEN (IF XAt(l) = Unset THEN Name ELSE XAt(l)) ELSE YAt(l)
  <2>1. LastBefore(l + 1, "copy") = IF kind = "copy" THEN l ELSE LastBefore(l, "copy")
    BY LastIs
  <2> QED BY <2>1 DEF YAt
<1> QED
  BY <1>1, <1>2, <1>3, CallsIs

\* The calls were made where the source has them.
Followed(ev) ==
  \A i \in DOMAIN ev :
    /\ {ev[j].of : j \in 1 .. i - 1} = CallsBefore(ev[i].of)
    /\ ev[i].saw = [x |-> XAt(ev[i].of), y |-> YAt(ev[i].of)]

Events == [of : Nat, saw : [x : Words, y : Words]]

LEMMA FollowedOn ==
  ASSUME NEW ev \in Seq(Events), Followed(ev), NEW e \in Events,
         {ev[j].of : j \in DOMAIN ev} = CallsBefore(e.of), e.saw = [x |-> XAt(e.of), y |-> YAt(e.of)]
  PROVE  /\ Followed(Append(ev, e)) /\ Append(ev, e) \in Seq(Events)
         /\ {Append(ev, e)[j].of : j \in DOMAIN Append(ev, e)} = CallsBefore(e.of) \union {e.of}
<1> DEFINE ev2 == Append(ev, e)
           N == Len(ev)
<1>1. /\ ev2 \in Seq(Events) /\ N \in Nat /\ DOMAIN ev = 1 .. N /\ DOMAIN ev2 = 1 .. N + 1
      /\ \A i \in 1 .. N : ev2[i] = ev[i]
      /\ ev2[N + 1] = e
  OBVIOUS
<1> HIDE DEF ev2, N
<1>2. ASSUME NEW i \in 1 .. N + 1 PROVE {ev2[j].of : j \in 1 .. i - 1} = {ev[j].of : j \in 1 .. i - 1}
  <2>1. \A j \in 1 .. i - 1 : j \in 1 .. N
    BY <1>1
  <2>2. \A j \in 1 .. i - 1 : ev2[j].of = ev[j].of
    BY <1>1, <2>1
  <2> QED BY <2>2
<1>3. Followed(ev2)
  <2> SUFFICES ASSUME NEW i \in 1 .. N + 1
               PROVE  /\ {ev2[j].of : j \in 1 .. i - 1} = CallsBefore(ev2[i].of)
                      /\ ev2[i].saw = [x |-> XAt(ev2[i].of), y |-> YAt(ev2[i].of)]
    BY <1>1 DEF Followed
  <2>1. CASE i \in 1 .. N
    BY <1>1, <1>2, <2>1 DEF Followed
  <2>2. CASE i = N + 1
    <3>1. (N + 1) - 1 = N
      BY <1>1
    <3> QED BY <1>1, <1>2, <2>2, <3>1
  <2>3. i \in 1 .. N \/ i = N + 1
    BY <1>1
  <2> QED BY <2>1, <2>2, <2>3
<1>4. {ev2[j].of : j \in DOMAIN ev2} = CallsBefore(e.of) \union {e.of}
  <2>1. \A j : j \in 1 .. N + 1 <=> j \in 1 .. N \/ j = N + 1
    BY <1>1
  <2>2. {ev2[j].of : j \in 1 .. N + 1} = {ev[j].of : j \in 1 .. N} \union {e.of}
    BY <1>1, <2>1
  <2> QED BY <1>1, <2>2
<1> QED
  BY <1>1, <1>3, <1>4 DEF ev2

Stops == {l \in DOMAIN text : KindOf(l) = "unresolved" /\ Reached(l)}

LEMMA FollowsIs ==
  ASSUME Followed(events),
         phase = "done" =>
           Stops = {} /\ {events[i].of : i \in 1 .. Len(events)} = CallsBefore(Len(text) + 1),
         phase = "CapabilityResolutionError" =>
           \E l \in Stops : /\ \A k \in Stops : l <= k
                            /\ {events[i].of : i \in 1 .. Len(events)} = CallsBefore(l),
         Text
  PROVE  RunFollowsSource
<1> DEFINE end == IF Stops = {} THEN Len(text) + 1 ELSE CHOOSE l \in Stops : \A k \in Stops : l <= k
<1>1. phase \in {"done", "CapabilityResolutionError"} =>
        {events[i].of : i \in 1 .. Len(events)} = CallsBefore(end)
  <2>1. CASE phase = "done"
    BY <2>1
  <2>2. CASE phase = "CapabilityResolutionError"
    <3>1. PICK l \in Stops : /\ \A k \in Stops : l <= k
                             /\ {events[i].of : i \in 1 .. Len(events)} = CallsBefore(l)
      BY <2>2
    <3>2. \A m \in Stops : m \in Nat
      BY TextIs DEF Stops
    <3>3. (CHOOSE m \in Stops : \A k \in Stops : m <= k) = l
      <4>1. ASSUME NEW m \in Stops, \A k \in Stops : m <= k PROVE m = l
        <5>1. m <= l /\ l <= m /\ m \in Nat /\ l \in Nat
          BY <3>1, <3>2, <4>1
        <5> QED BY <5>1
      <4> QED BY <3>1, <4>1
    <3>4. end = l
      BY <3>1, <3>3
    <3> HIDE DEF end
    <3> QED BY <3>1, <3>4
  <2> QED BY <2>1, <2>2
<1>2. phase = "done" => Stops = {}
  OBVIOUS
<1> QED
  BY <1>1, <1>2 DEF RunFollowsSource, Followed, Stops

(***************************************************************************)
(* What holds of a run.                                                    *)
(***************************************************************************)
RunTypeOK ==
  /\ facts \subseteq Conditions /\ frames \in Seq(Seq(Nat)) /\ events \in Seq(Events)
  /\ given \in [x : Words, y : Words] /\ variables \in [x : Words, y : Words]

\* The calls are those of the lines before n.
Called(n) == {events[i].of : i \in DOMAIN events} = CallsBefore(n)

Ran ==
  /\ phase \notin {"running", "done", "CapabilityResolutionError"} => events = <<>>
  /\ phase = "running" => Running
  /\ phase = "done" => Stops = {} /\ Called(Len(text) + 1)
  /\ phase = "CapabilityResolutionError" => \E l \in Stops : (\A k \in Stops : l <= k) /\ Called(l)

RunInv == RunTypeOK /\ Followed(events) /\ Ran

LEMMA RunFollows == CompileInv /\ RunInv => RunFollowsSource
<1> SUFFICES ASSUME CompileInv, RunInv PROVE RunFollowsSource
  OBVIOUS
<1>1. Text
  BY DEF CompileInv, CompileTypeOK
<1>2. DOMAIN events = 1 .. Len(events)
  BY DEF RunInv, RunTypeOK
<1> QED
  BY <1>1, <1>2, FollowsIs DEF RunInv, Ran, Called

(* What runs is of the source and of what was given. *)
LEMMA SameRun ==
  ASSUME UNCHANGED <<text, tree, facts, given>>
  PROVE  /\ \A l : KindOf(l)' = KindOf(l) /\ Reached(l)' = Reached(l)
         /\ \A n : CallsBefore(n)' = CallsBefore(n) /\ XAt(n)' = XAt(n) /\ YAt(n)' = YAt(n)
         /\ \A fs, bs, n : Entered(fs, bs, n)' = Entered(fs, bs, n)
         /\ \A bs, n : Complete(bs, n)' = Complete(bs, n)
         /\ \A ev : Followed(ev)' = Followed(ev)
         /\ Stops' = Stops
<1>1. \A l : At(l)' = At(l) /\ KindOf(l)' = KindOf(l)
  BY SameText
<1>2. \A l, m : IsElseOf(l, m)' = IsElseOf(l, m) /\ Within(l, m)' = Within(l, m)
  BY SameText DEF Within
<1>3. \A l : Reached(l)' = Reached(l)
  BY <1>1, <1>2 DEF Reached
<1>4. /\ \A n : CallsBefore(n)' = CallsBefore(n)
      /\ \A n, kind : LastBefore(n, kind)' = LastBefore(n, kind)
  <2>1. ASSUME NEW n PROVE CallsBefore(n)' = CallsBefore(n)
    BY <1>1, <1>3 DEF CallsBefore
  <2>2. ASSUME NEW n, NEW kind PROVE LastBefore(n, kind)' = LastBefore(n, kind)
    <3> DEFINE those == {m \in 1 .. n - 1 : KindOf(m) = kind /\ Reached(m)}
    <3>1. those' = those
      BY <1>1, <1>3
    <3>2. LastBefore(n, kind) = IF those = {} THEN 0 ELSE CHOOSE m \in those : \A k \in those : k <= m
      BY DEF LastBefore
    <3>3. LastBefore(n, kind)' = IF those' = {} THEN 0 ELSE CHOOSE m \in those' : \A k \in those' : k <= m
      BY DEF LastBefore
    <3> HIDE DEF those
    <3> QED BY <3>1, <3>2, <3>3
  <2> QED BY <2>1, <2>2
<1>5. \A n : XAt(n)' = XAt(n) /\ YAt(n)' = YAt(n)
  BY <1>4 DEF XAt, YAt
<1>6. \A b : Taken(b)' = Taken(b) /\ InBlock(b)' = InBlock(b) /\ \A n : Left(b, n)' = Left(b, n)
  BY <1>1 DEF Taken, Branch, InBlock, Left
<1>7. \A fs, bs, n : Entered(fs, bs, n)' = Entered(fs, bs, n)
  BY <1>1, <1>3, <1>6 DEF Entered
<1>8. \A bs, n : Complete(bs, n)' = Complete(bs, n)
  BY <1>3 DEF Complete
<1>9. \A ev : Followed(ev)' = Followed(ev)
  BY <1>4, <1>5 DEF Followed
<1>10. Stops' = Stops
  BY <1>1, <1>3 DEF Stops
<1> QED
  BY <1>1, <1>3, <1>4, <1>5, <1>7, <1>8, <1>9, <1>10

LEMMA ProgramOf ==
  ASSUME CompileInv, phase \in {"compiled", "running"}
  PROVE  Program
BY DEF CompileInv, Compiling, CompileTypeOK, Program

LEMMA InitRun == CltInit => RunInv
<1> SUFFICES ASSUME CltInit PROVE RunInv
  OBVIOUS
<1>1. /\ phase = "lexing" /\ facts = {} /\ given = NoVariables /\ variables = NoVariables
      /\ frames = <<>> /\ events = <<>>
  BY DEF CltInit
<1>2. NoVariables \in [x : Words, y : Words]
  BY DEF NoVariables, Words
<1>3. RunTypeOK
  BY <1>1, <1>2 DEF RunTypeOK
<1> QED
  BY <1>1, <1>3 DEF RunInv, Ran, Followed

(* Before a run there is nothing of it. *)
LEMMA NotRunning ==
  ASSUME RunInv, UNCHANGED running,
         phase \notin {"running", "done", "CapabilityResolutionError"},
         phase' \notin {"running", "done", "CapabilityResolutionError"}
  PROVE  RunInv'
<1>1. events' = <<>>
  BY DEF RunInv, Ran, running
<1>2. RunTypeOK'
  BY DEF RunInv, RunTypeOK, running
<1> QED
  BY <1>1, <1>2 DEF RunInv, Ran, Followed

LEMMA SameRunInv == ASSUME RunInv, UNCHANGED cltVars PROVE RunInv'
<1>1. UNCHANGED <<text, tree, facts, given>> /\ UNCHANGED <<phase, variables, frames, events>>
  BY DEF cltVars
<1>2. RunTypeOK'
  BY <1>1 DEF RunInv, RunTypeOK
<1>3. Followed(events)'
  BY <1>1, SameRun DEF RunInv
<1>4. \A n : Called(n)' = Called(n)
  BY <1>1, SameRun DEF Called
<1>5. \A n : Behind(n)' = Behind(n)
  BY <1>1, SameRun DEF Behind
<1>6. Running' = Running
  BY <1>1, <1>5, SameRun DEF Running
<1> QED
  BY <1>1, <1>2, <1>3, <1>4, <1>6, SameRun DEF RunInv, Ran

LEMMA StartRunRuns == CompileInv /\ RunInv /\ StartRun => RunInv'
<1> SUFFICES ASSUME CompileInv, RunInv, StartRun PROVE RunInv'
  OBVIOUS
<1>1. /\ phase = "compiled" /\ phase' = "running" /\ UNCHANGED compiling /\ events' = events
      /\ facts' \in SUBSET {KindOf(l) : l \in {l \in DOMAIN text : KindOf(l) \in Conditions}}
      /\ given' \in {NoVariables, [x |-> Input, y |-> Input]} /\ variables' = given'
      /\ frames' = <<Statements(0, "body")>>
  BY DEF StartRun
<1>2. Program /\ Program'
  <2>1. CompileInv'
    BY <1>1, RunCompile
  <2>2. Program'
    BY <1>1, <2>1 DEF CompileInv, Compiling, CompileTypeOK, Program
  <2> QED BY <1>1, <2>2, ProgramOf
<1>3. events = <<>> /\ events' = <<>>
  BY <1>1 DEF RunInv, Ran
<1>4. PICK s : s = Statements(0, "body")
  OBVIOUS
<1>5. s \in Seq(Nat) /\ Lists(s, InBlock(Module)) /\ frames' = <<s>>
  <2>1. Module = [of |-> 0, branch |-> "body"]
    BY DEF Module
  <2>2. PICK b : b = Module
    OBVIOUS
  <2> QED BY <1>1, <1>2, <1>4, <2>1, <2>2, StatementsAre DEF Program
<1>6. PICK bs : bs = <<Module>>
  OBVIOUS
<1>7. /\ Text' /\ Len(text)' = Len(text) /\ Len(text) \in Nat /\ tree' = tree /\ text' = text
      /\ DOMAIN tree = 1 .. Len(text) /\ DOMAIN text = 1 .. Len(text)
      /\ \A m \in DOMAIN text : tree[m] \in Entries /\ Placed(tree, m)
  <2>1. Text /\ Text' /\ tree \in Seq(Entries) /\ Built
    BY <1>2 DEF Program
  <2>2. DOMAIN tree = DOMAIN text /\ Len(text) \in Nat /\ DOMAIN text = 1 .. Len(text)
    BY <2>1, LabelIs, TextIs
  <2>3. \A m \in DOMAIN text : tree[m] \in Entries
    BY <2>1, <2>2
  <2> QED BY <1>1, <2>1, <2>2, <2>3 DEF Built, compiling
<1>8. Entered(<<s>>, bs, 1)'
  <2>1. /\ bs \in Seq(Blocks) /\ Len(bs) = 1 /\ DOMAIN bs = {1} /\ bs[1] = Module /\ Len(<<s>>) = 1
        /\ <<s>>[1] = s
    BY <1>6 DEF Module, Blocks
  <2>2. InBlock(Module)' = InBlock(Module) /\ Left(Module, 1)' = InBlock(Module)
    <3>1. InBlock(Module)' = InBlock(Module)
      BY <1>7 DEF InBlock
    <3>2. \A m \in InBlock(Module) : m >= 1
      BY <1>7 DEF InBlock
    <3> QED BY <3>1, <3>2 DEF Left
  <2>3. \A m \in InBlock(Module)' : At(m)' = 0
    <3>1. \A m \in InBlock(Module) : At(m) = 0
      BY <1>2, <1>7, OutermostIs DEF InBlock
    <3> QED BY <1>7, <2>2, <3>1, SameText
  <2>4. 4 * (1 - 1) = 0 /\ 1 .. 1 - 1 = {}
    OBVIOUS
  <2> QED BY <1>5, <2>1, <2>2, <2>3, <2>4 DEF Entered
<1>9. Complete(bs, 1)'
  <2>1. ASSUME NEW m \in DOMAIN tree PROVE tree[m].branch # "label" => tree[m].of >= 1 \/ tree[m] = Module
    <3>1. Placed(tree, m)
      BY <1>7
    <3> QED BY <3>1 DEF Placed
  <2>2. 1 \in DOMAIN bs /\ bs[1] = Module
    BY <1>6
  <2> QED BY <1>7, <2>1, <2>2 DEF Complete
<1>10. given' \in [x : Words, y : Words] /\ given' = [x |-> given'.x, y |-> given'.y]
  BY <1>1 DEF NoVariables, Words
<1>11. Behind(1)'
  <2>1. 1 .. 1 - 1 = {}
    OBVIOUS
  <2>2. CallsBefore(1)' = {}
    BY <2>1 DEF CallsBefore
  <2>3. XAt(1)' = given'.x /\ YAt(1)' = given'.y
    BY <2>1 DEF XAt, YAt, LastBefore
  <2> QED BY <1>1, <1>3, <1>10, <2>1, <2>2, <2>3 DEF Behind
<1>12. Running'
  <2>1. 1 \in 1 .. Len(text)' + 1
    BY <1>7
  <2>2. Entered(frames, bs, 1)'
    BY <1>5, <1>8
  <2> QED BY <1>9, <1>11, <2>1, <2>2 DEF Running
<1>13. RunTypeOK'
  <2>1. facts' \subseteq Conditions
    BY <1>1
  <2>2. frames' \in Seq(Seq(Nat))
    BY <1>5
  <2>3. events' \in Seq(Events)
    BY <1>3
  <2> QED BY <1>1, <1>10, <2>1, <2>2, <2>3 DEF RunTypeOK
<1> QED
  BY <1>1, <1>3, <1>12, <1>13 DEF RunInv, Ran, Followed

\* A run before line n, with what it has seen so far.
RunsAt(n, fs, bs) ==
  /\ Program /\ RunTypeOK /\ Followed(events)
  /\ n \in Places /\ fs = frames /\ Entered(fs, bs, n) /\ Complete(bs, n) /\ Behind(n)

LEMMA RunningIs ==
  ASSUME CompileInv, RunInv, phase = "running"
  PROVE  \E n, fs, bs : RunsAt(n, fs, bs) /\ fs \in Seq(Seq(Nat))
<1>1. PICK n \in Places : \E bs : Entered(frames, bs, n) /\ Complete(bs, n) /\ Behind(n)
  BY DEF RunInv, Ran, Running, Places
<1>2. PICK bs : Entered(frames, bs, n) /\ Complete(bs, n) /\ Behind(n)
  BY <1>1
<1>3. PICK fs : fs = frames
  OBVIOUS
<1> QED
  BY <1>1, <1>2, <1>3, ProgramOf DEF RunsAt, RunInv, RunTypeOK

(* A step to line n, in other blocks. *)
LEMMA RunsOn ==
  ASSUME CompileInv, RunInv, UNCHANGED compiling, UNCHANGED <<facts, given>>, phase' = "running",
         NEW n \in Places, NEW fs \in Seq(Seq(Nat)), NEW bs,
         frames' = fs, Entered(fs, bs, n), Complete(bs, n),
         NEW ev \in Seq(Events), events' = ev, Followed(ev),
         {ev[i].of : i \in DOMAIN ev} = CallsBefore(n),
         NEW x \in Words, NEW y \in Words, variables' = [x |-> x, y |-> y],
         x = XAt(n), y = YAt(n),
         \A l \in 1 .. n - 1 : ~(KindOf(l) = "unresolved" /\ Reached(l))
  PROVE  RunInv'
<1>1. UNCHANGED <<text, tree, facts, given>>
  BY DEF compiling
<1>2. Behind(n)'
  BY <1>1, SameRun DEF Behind
<1>3. Entered(frames, bs, n)' /\ Complete(bs, n)'
  BY <1>1, SameRun
<1>4. Running'
  BY <1>1, <1>2, <1>3 DEF Running, Places
<1>5. RunTypeOK'
  BY <1>1 DEF RunInv, RunTypeOK
<1>6. Followed(events)'
  BY <1>1, SameRun
<1> QED
  BY <1>4, <1>5, <1>6 DEF RunInv, Ran

LEMMA RunBlockEndRuns == CompileInv /\ RunInv /\ RunBlockEnd => RunInv'
<1> SUFFICES ASSUME CompileInv, RunInv, RunBlockEnd PROVE RunInv'
  OBVIOUS
<1>1. /\ phase = "running" /\ frames # <<>> /\ frames[Len(frames)] = <<>>
      /\ frames' = Outer(frames)
      /\ phase' = IF Len(frames) = 1 THEN "done" ELSE "running"
      /\ UNCHANGED compiling /\ UNCHANGED <<facts, given, variables, events>>
  BY DEF RunBlockEnd, Outer
<1>2. PICK n, fs, bs : RunsAt(n, fs, bs) /\ fs \in Seq(Seq(Nat))
  BY <1>1, RunningIs
<1>3. /\ Program /\ RunTypeOK /\ Followed(events) /\ n \in Places /\ fs = frames
      /\ Entered(fs, bs, n) /\ Complete(bs, n) /\ Behind(n)
  BY <1>2 DEF RunsAt
<1>4. /\ Outer(fs) \in Seq(Seq(Nat)) /\ Len(Outer(fs)) = Len(fs) - 1
      /\ Entered(Outer(fs), Outer(bs), n) /\ Complete(Outer(bs), n)
  BY <1>1, <1>2, <1>3, PopEntered
<1>5. CASE Len(fs) # 1
  <2>1. PICK x \in Words, y \in Words : x = XAt(n) /\ y = YAt(n) /\ variables = [x |-> x, y |-> y]
    <3>1. variables = [x |-> XAt(n), y |-> YAt(n)]
      BY <1>3 DEF Behind
    <3>2. variables.x \in Words /\ variables.y \in Words
      BY <1>3 DEF RunTypeOK
    <3> QED BY <3>1, <3>2
  <2>2. PICK ev : ev = events
    OBVIOUS
  <2>3. PICK fs2, bs2 : fs2 = Outer(fs) /\ bs2 = Outer(bs)
    OBVIOUS
  <2>4. phase' = "running" /\ variables' = [x |-> x, y |-> y] /\ events' = ev /\ frames' = fs2
    BY <1>1, <1>3, <1>5, <2>1, <2>2, <2>3
  <2>5. ev \in Seq(Events) /\ Followed(ev) /\ fs2 \in Seq(Seq(Nat)) /\ Entered(fs2, bs2, n) /\ Complete(bs2, n)
    BY <1>3, <1>4, <2>2, <2>3 DEF RunTypeOK
  <2>6. /\ {ev[i].of : i \in DOMAIN ev} = CallsBefore(n)
        /\ \A l \in 1 .. n - 1 : ~(KindOf(l) = "unresolved" /\ Reached(l))
    BY <1>3, <2>2 DEF Behind
  <2> QED BY <1>1, <1>3, <2>1, <2>4, <2>5, <2>6, RunsOn
<1>6. CASE Len(fs) = 1
  <2>1. Complete(<<>>, n)
    <3>1. Len(bs) = 1 /\ bs \in Seq(Blocks)
      BY <1>3, <1>6 DEF Entered
    <3>2. Outer(bs) = <<>>
      BY <3>1 DEF Outer
    <3> QED BY <1>4, <3>2
  <2>2. PICK e : e = Len(text) + 1
    OBVIOUS
  <2>3. e \in Places /\ n <= e /\ Len(text) \in Nat /\ DOMAIN text = 1 .. Len(text)
    BY <1>3, <2>2, TextIs DEF Places, Program
  <2>4. Quiet(n, e)
    <3>1. DOMAIN <<>> = {}
      OBVIOUS
    <3> QED BY <1>3, <2>1, <2>3, <3>1, GapIs
  <2>5. Behind(e)
    BY <1>3, <2>3, <2>4, QuietKeeps
  <2>6. Stops = {}
    <3>1. \A l \in DOMAIN text : l \in 1 .. e - 1
      BY <2>2, <2>3
    <3> QED BY <2>5, <3>1 DEF Behind, Stops
  <2>7. Called(e)
    BY <2>5 DEF Behind, Called
  <2>8. UNCHANGED <<text, tree, facts, given>> /\ phase' = "done"
    BY <1>1, <1>3, <1>6 DEF compiling
  <2>9. Stops' = {} /\ Called(Len(text) + 1)'
    BY <1>1, <2>2, <2>6, <2>7, <2>8, SameRun DEF Called
  <2>10. RunTypeOK'
    <3>1. frames' \in Seq(Seq(Nat))
      BY <1>1, <1>3, <1>4
    <3> QED BY <1>1, <1>3, <3>1 DEF RunTypeOK
  <2>11. Followed(events)'
    BY <1>1, <1>3, <2>8, SameRun
  <2> QED BY <2>8, <2>9, <2>10, <2>11 DEF RunInv, Ran
<1> QED
  BY <1>5, <1>6

(* What runs after a line without a block is in the blocks entered. *)
LEMMA RestComplete ==
  ASSUME Program, NEW n \in Places, NEW l \in DOMAIN text, n <= l, Quiet(n, l),
         NEW bs, Complete(bs, n), KindOf(l) \in Simple
  PROVE  Complete(bs, l + 1)
<1>1. ASSUME NEW m \in DOMAIN text, tree[m].of = l, tree[m].branch # "label" PROVE FALSE
  <2>1. tree[m] # Module
    BY <1>1, TextIs DEF Module, Program
  <2>2. Opens(l)
    BY <1>1, <2>1, BlockIs
  <2> QED BY <2>2 DEF Program, WellFormed
<1> QED
  BY <1>1, CompleteOn

(* What runs after a line with a block is in them or in that of the line. *)
LEMMA PushComplete ==
  ASSUME Program, NEW n \in Places, NEW l \in DOMAIN text, n <= l, Quiet(n, l),
         NEW bs \in Seq(Blocks), Complete(bs, n), NEW branch \in {"body", "else"},
         NEW b, b = [of |-> l, branch |-> branch],
         branch = IF KindOf(l) \in Conditions THEN Branch(KindOf(l)) ELSE "body"
  PROVE  Complete(Append(bs, b), l + 1)
<1> DEFINE bs2 == Append(bs, b)
<1>1. /\ \A k \in DOMAIN bs : k \in DOMAIN bs2 /\ bs2[k] = bs[k]
      /\ Len(bs) + 1 \in DOMAIN bs2 /\ bs2[Len(bs) + 1] = b
  OBVIOUS
<1>2. ASSUME NEW m \in DOMAIN text, tree[m].of = l, Reached(m), tree[m].branch # "label"
      PROVE  tree[m] = b
  <2>1. tree[m] # Module
    BY <1>2, TextIs DEF Module, Program
  <2>2. /\ Taken(tree[m]) /\ tree[m].branch \in {"body", "else"}
        /\ tree[m].branch = "else" => KindOf(l) \in Conditions
    BY <1>2, <2>1, BlockIs
  <2>3. tree[m].branch = branch
    BY <1>2, <2>2 DEF Taken
  <2>4. tree[m] \in Entries
    BY LabelIs DEF Program
  <2> QED BY <1>2, <2>3, <2>4 DEF Entries
<1> HIDE DEF bs2
<1>3. Complete(bs2, l + 1)
  BY <1>1, <1>2, CompleteOn
<1> QED
  BY <1>3 DEF bs2

LEMMA RunStatementRuns == CompileInv /\ RunInv /\ RunStatement => RunInv'
<1> SUFFICES ASSUME CompileInv, RunInv, RunStatement PROVE RunInv'
  OBVIOUS
<1>1. /\ phase = "running" /\ frames # <<>> /\ frames[Len(frames)] # <<>>
      /\ UNCHANGED compiling /\ UNCHANGED <<facts, given>>
  BY DEF RunStatement
<1>2. PICK n, fs, bs : RunsAt(n, fs, bs) /\ fs \in Seq(Seq(Nat))
  BY <1>1, RunningIs
<1>3. /\ Program /\ RunTypeOK /\ Followed(events) /\ n \in Places /\ fs = frames
      /\ Entered(fs, bs, n) /\ Complete(bs, n) /\ Behind(n)
      /\ bs \in Seq(Blocks)
  BY <1>2 DEF RunsAt, Entered
<1>4. PICK l : l = Following(fs)
  OBVIOUS
<1>5. /\ l \in DOMAIN text /\ l >= n /\ l \in Places /\ l + 1 \in Places
      /\ Reached(l) /\ tree[l].branch # "label" /\ At(l) = 4 * (Len(bs) - 1)
      /\ Quiet(n, l)
  BY <1>1, <1>2, <1>3, <1>4, NextIs
<1>6. l \in Nat \ {0} /\ n \in Nat /\ n <= l /\ DOMAIN text = 1 .. Len(text) /\ Len(text) \in Nat
  BY <1>3, <1>5, TextIs DEF Program, Places
<1>7. Behind(l)
  BY <1>3, <1>5, <1>6, QuietKeeps
<1>8. PICK rest : rest = [fs EXCEPT ![Len(fs)] = Tail(@)]
  OBVIOUS
<1>9. rest = Rest
  BY <1>3, <1>8 DEF Rest
<1>10. rest \in Seq(Seq(Nat)) /\ Len(rest) = Len(fs) /\ Entered(rest, bs, l + 1)
  BY <1>1, <1>2, <1>3, <1>4, <1>8, RestEntered
<1>11. PICK x \in Words, y \in Words : x = XAt(l) /\ y = YAt(l) /\ variables = [x |-> x, y |-> y]
  <2>1. variables = [x |-> XAt(l), y |-> YAt(l)]
    BY <1>7 DEF Behind
  <2>2. variables.x \in Words /\ variables.y \in Words
    BY <1>3 DEF RunTypeOK
  <2> QED BY <2>1, <2>2
<1>12. PICK ev : ev = events
  OBVIOUS
<1>13. PICK kind : kind = KindOf(l)
  OBVIOUS
<1>14. /\ ev \in Seq(Events) /\ Followed(ev)
       /\ {ev[i].of : i \in DOMAIN ev} = CallsBefore(l)
  BY <1>3, <1>7, <1>12 DEF RunTypeOK, Behind
<1>15. PICK e : e = [of |-> l, saw |-> variables]
  OBVIOUS
<1>16. /\ e \in Events /\ Followed(Append(ev, e)) /\ Append(ev, e) \in Seq(Events)
       /\ {Append(ev, e)[j].of : j \in DOMAIN Append(ev, e)} = CallsBefore(l) \union {l}
  <2>1. e \in Events /\ e.of = l /\ e.saw = [x |-> XAt(l), y |-> YAt(l)]
    BY <1>6, <1>11, <1>15 DEF Events
  <2> QED BY <1>14, <2>1, FollowedOn
<1>17. \/ /\ kind \in {"assign", "copy"}
          /\ variables' = Assigned(l) /\ frames' = rest /\ events' = ev /\ phase' = "running"
       \/ /\ kind = "flow"
          /\ events' = Append(ev, e) /\ frames' = rest /\ variables' = variables /\ phase' = "running"
       \/ /\ kind = "operation"
          /\ events' = Append(ev, e) /\ frames' = Append(rest, Statements(l, "body"))
          /\ variables' = variables /\ phase' = "running"
       \/ /\ kind \in Conditions
          /\ frames' = Append(rest, Statements(l, Branch(kind)))
          /\ variables' = variables /\ events' = ev /\ phase' = "running"
       \/ /\ kind = "unresolved" /\ phase' = "CapabilityResolutionError"
          /\ variables' = variables /\ frames' = frames /\ events' = events
  BY <1>1, <1>3, <1>4, <1>9, <1>12, <1>13, <1>15 DEF RunStatement, Following
<1>18. kind # "unresolved" => \A m \in 1 .. (l + 1) - 1 : ~(KindOf(m) = "unresolved" /\ Reached(m))
  <2>1. \A m \in 1 .. (l + 1) - 1 : m \in 1 .. l - 1 \/ m = l
    BY <1>6
  <2> QED BY <1>7, <1>13, <2>1 DEF Behind
<1>19. KindOf(l) = kind /\ kind \in Conditions => kind \notin {"assign", "copy", "flow", "operation", "unresolved"}
  BY ConditionsAreNew DEF Simple, Operations
<1>20. CASE kind \in {"assign", "copy"} /\ variables' = Assigned(l) /\ frames' = rest /\ events' = ev /\ phase' = "running"
  <2>1. Complete(bs, l + 1)
    BY <1>3, <1>5, <1>6, <1>13, <1>20, RestComplete DEF Simple
  <2>2. CallsBefore(l + 1) = CallsBefore(l)
    BY <1>5, <1>6, <1>13, <1>20, Advances
  <2>3. CASE kind = "assign"
    <3>1. variables' = [x |-> Own(l), y |-> y] /\ Own(l) \in Words
      BY <1>6, <1>11, <1>13, <1>20, <2>3 DEF Assigned, Words
    <3>2. XAt(l + 1) = Own(l) /\ YAt(l + 1) = y
      BY <1>5, <1>6, <1>11, <1>13, <2>3, Advances
    <3> QED BY <1>1, <1>5, <1>10, <1>14, <1>18, <1>20, <2>1, <2>2, <2>3, <3>1, <3>2, RunsOn
  <2>4. CASE kind = "copy"
    <3>1. PICK z : z = IF x = Unset THEN Name ELSE x
      OBVIOUS
    <3>2. variables' = [x |-> x, y |-> z] /\ z \in Words
      <4>1. Assigned(l) = [variables EXCEPT !.y = IF variables.x = Unset THEN Name ELSE variables.x]
        BY <1>13, <2>4 DEF Assigned
      <4> QED BY <1>11, <1>20, <3>1, <4>1 DEF Words
    <3>3. XAt(l + 1) = x /\ YAt(l + 1) = z
      BY <1>5, <1>6, <1>11, <1>13, <2>4, <3>1, Advances
    <3> QED BY <1>1, <1>5, <1>10, <1>14, <1>18, <1>20, <2>1, <2>2, <2>4, <3>2, <3>3, RunsOn
  <2> QED BY <1>20, <2>3, <2>4
<1>21. CASE kind = "flow" /\ events' = Append(ev, e) /\ frames' = rest /\ variables' = variables /\ phase' = "running"
  <2>1. Complete(bs, l + 1)
    BY <1>3, <1>5, <1>6, <1>13, <1>21, RestComplete DEF Simple
  <2>2. CallsBefore(l + 1) = CallsBefore(l) \union {l} /\ XAt(l + 1) = x /\ YAt(l + 1) = y
    BY <1>5, <1>6, <1>11, <1>13, <1>21, Advances
  <2>3. PICK ev2 : ev2 = Append(ev, e)
    OBVIOUS
  <2> QED BY <1>1, <1>5, <1>10, <1>11, <1>16, <1>18, <1>21, <2>1, <2>2, <2>3, RunsOn
<1>22. ASSUME NEW branch \in {"body", "else"}, kind \in Conditions \union {"operation"},
              branch = IF kind \in Conditions THEN Branch(kind) ELSE "body",
              frames' = Append(rest, Statements(l, branch))
       PROVE  \E fs2, bs2 : /\ fs2 = frames' /\ fs2 \in Seq(Seq(Nat))
                            /\ Entered(fs2, bs2, l + 1) /\ Complete(bs2, l + 1)
  <2>1. PICK b : b = [of |-> l, branch |-> branch]
    OBVIOUS
  <2>2. Taken(b)
    BY <1>13, <1>22, <2>1 DEF Taken
  <2>3. /\ Statements(l, branch) \in Seq(Nat)
        /\ Entered(Append(rest, Statements(l, branch)), Append(bs, b), l + 1)
    BY <1>3, <1>5, <1>10, <2>1, <2>2, PushEntered
  <2>4. Complete(Append(bs, b), l + 1)
    BY <1>3, <1>5, <1>6, <1>13, <1>22, <2>1, PushComplete
  <2>5. Append(rest, Statements(l, branch)) \in Seq(Seq(Nat))
    BY <1>10, <2>3
  <2>6. PICK fs2, bs2 : fs2 = Append(rest, Statements(l, branch)) /\ bs2 = Append(bs, b)
    OBVIOUS
  <2> QED BY <1>22, <2>3, <2>4, <2>5, <2>6
<1>23. CASE /\ kind = "operation"
            /\ events' = Append(ev, e) /\ frames' = Append(rest, Statements(l, "body"))
            /\ variables' = variables /\ phase' = "running"
  <2>1. kind \notin Conditions
    BY <1>13, <1>19, <1>23
  <2>2. PICK fs2, bs2 : /\ fs2 = frames' /\ fs2 \in Seq(Seq(Nat))
                        /\ Entered(fs2, bs2, l + 1) /\ Complete(bs2, l + 1)
    BY <1>22, <1>23, <2>1
  <2>3. CallsBefore(l + 1) = CallsBefore(l) \union {l} /\ XAt(l + 1) = x /\ YAt(l + 1) = y
    BY <1>5, <1>6, <1>11, <1>13, <1>23, Advances
  <2>4. PICK ev2 : ev2 = Append(ev, e)
    OBVIOUS
  <2> QED BY <1>1, <1>5, <1>11, <1>16, <1>18, <1>23, <2>2, <2>3, <2>4, RunsOn
<1>24. CASE /\ kind \in Conditions
            /\ frames' = Append(rest, Statements(l, Branch(kind)))
            /\ variables' = variables /\ events' = ev /\ phase' = "running"
  <2>1. Branch(kind) \in {"body", "else"} /\ kind # "unresolved"
    BY <1>13, <1>19, <1>24 DEF Branch
  <2>2. PICK fs2, bs2 : /\ fs2 = frames' /\ fs2 \in Seq(Seq(Nat))
                        /\ Entered(fs2, bs2, l + 1) /\ Complete(bs2, l + 1)
    <3>1. PICK branch : branch = Branch(kind)
      OBVIOUS
    <3> QED BY <1>22, <1>24, <2>1, <3>1
  <2>3. CallsBefore(l + 1) = CallsBefore(l) /\ XAt(l + 1) = x /\ YAt(l + 1) = y
    BY <1>5, <1>6, <1>11, <1>13, <1>24, Advances
  <2> QED BY <1>1, <1>5, <1>11, <1>14, <1>18, <1>24, <2>1, <2>2, <2>3, RunsOn
<1>25. CASE /\ kind = "unresolved" /\ phase' = "CapabilityResolutionError"
            /\ variables' = variables /\ frames' = frames /\ events' = events
  <2>1. l \in Stops
    BY <1>5, <1>13, <1>25 DEF Stops
  <2>2. \A k \in Stops : l <= k
    <3>1. \A k \in DOMAIN text : k \in 1 .. l - 1 \/ l <= k
      BY <1>6
    <3> QED BY <1>7, <3>1 DEF Behind, Stops
  <2>3. Called(l)
    BY <1>7 DEF Behind, Called
  <2>4. UNCHANGED <<text, tree, facts, given>>
    BY <1>1 DEF compiling
  <2>5. Stops' = Stops /\ Called(l)' /\ Followed(events)'
    BY <1>3, <1>25, <2>3, <2>4, SameRun DEF Called
  <2>6. RunTypeOK'
    BY <1>1, <1>3, <1>25 DEF RunTypeOK
  <2> QED BY <1>25, <2>1, <2>2, <2>5, <2>6 DEF RunInv, Ran
<1> QED
  BY <1>17, <1>20, <1>21, <1>23, <1>24, <1>25

LEMMA StepRun == CompileInv /\ RunInv /\ [CltNext]_cltVars => RunInv'
<1> SUFFICES ASSUME CompileInv, RunInv, [CltNext]_cltVars PROVE RunInv'
  OBVIOUS
<1>1. CASE LexLine
  BY <1>1, NotRunning DEF LexLine
<1>2. CASE LexEnd
  BY <1>2, NotRunning DEF LexEnd
<1>3. CASE ParseStatement
  BY <1>3, NotRunning DEF ParseStatement, Fail
<1>4. CASE ParseBlockEnd
  BY <1>4, NotRunning DEF ParseBlockEnd, Fail
<1>5. CASE ParseUnexpectedIndent
  BY <1>5, NotRunning DEF ParseUnexpectedIndent, Fail
<1>6. CASE ParseEnd
  BY <1>6, NotRunning DEF ParseEnd
<1>7. CASE Validate
  BY <1>7, NotRunning DEF Validate
<1>8. CASE StartRun
  BY <1>8, StartRunRuns
<1>9. CASE RunStatement
  BY <1>9, RunStatementRuns
<1>10. CASE RunBlockEnd
  BY <1>10, RunBlockEndRuns
<1>11. CASE Finished \/ UNCHANGED cltVars
  BY <1>11, SameRunInv DEF Finished
<1> QED
  BY <1>1, <1>2, <1>3, <1>4, <1>5, <1>6, <1>7, <1>8, <1>9, <1>10, <1>11 DEF CltNext

LEMMA CltInvariance == CltSpec => [](CompileInv /\ RunInv)
<1>1. CltInit => CompileInv /\ RunInv
  BY InitCompile, InitRun
<1>2. CompileInv /\ RunInv /\ [CltNext]_cltVars => CompileInv' /\ RunInv'
  BY StepCompile, StepRun
<1> QED
  BY <1>1, <1>2, PTL DEF CltSpec

(* A run calls what the source has to run, in the order of its lines, each line
   once, and each call sees the values of its place (CLTRuntime.run). *)
THEOREM RunsFollow == CltSpec => []RunFollowsSource
<1>1. CltSpec => [](CompileInv /\ RunInv)
  BY CltInvariance
<1>2. CompileInv /\ RunInv => RunFollowsSource
  BY RunFollows
<1> QED
  BY <1>1, <1>2, PTL

(* The lexer, the parser and the run keep to their types (clt/). *)
THEOREM CltTypeCorrect == CltSpec => [](CompileTypeOK /\ RunTypeOK)
<1>1. CltSpec => [](CompileInv /\ RunInv)
  BY CltInvariance
<1>2. CompileInv /\ RunInv => CompileTypeOK /\ RunTypeOK
  BY DEF CompileInv, RunInv
<1> QED
  BY <1>1, <1>2, PTL
=============================================================================
