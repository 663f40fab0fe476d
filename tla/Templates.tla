----------------------------- MODULE Templates -----------------------------
(***************************************************************************)
(* The template registry (templates/registry.py, templates/storage.py) as  *)
(* one shell uses it (cli/commands/templates/template_cmd.py): sources     *)
(* are registered, compiled, refreshed before they are listed, used,       *)
(* edited or run, and persisted without their compilations.                *)
(*                                                                         *)
(* The user may change a source at any time, also while the registry reads *)
(* it, which it does twice if it does not compile.  The shell may be left, *)
(* or die, at any time, and writing the registry may fail.  It is written  *)
(* to a temporary file that replaces it, so that all of it is written or   *)
(* nothing is.  No command removes a template.                             *)
(*                                                                         *)
(* A source is its content, which also stands for its hash and for what it *)
(* compiles to.                                                            *)
(***************************************************************************)
EXTENDS Naturals, FiniteSets

CONSTANTS
  Paths,
  NameOf,       \* the name a path stands for
  Valid,        \* contents that compile
  Invalid,      \* contents that do not
  Nothing,      \* no file, no template, no compilation, no report
  MaxEdits,     \* bound: changes of sources
  MaxFailures,  \* bound: failures to write the registry
  MaxStarts     \* bound: shells started

ASSUME NamesOfPaths == NameOf \in [Paths -> {NameOf[p] : p \in Paths}]
ASSUME NothingIsNoContent == Nothing \notin Valid \union Invalid /\ Valid \intersect Invalid = {}
ASSUME BoundsAreNumbers == {MaxEdits, MaxFailures, MaxStarts} \subseteq Nat

Names == {NameOf[p] : p \in Paths}

Contents == Valid \union Invalid \union {Nothing}

\* A RegisteredTemplate.
Records ==
  [path : Paths, hash : Contents, status : {"loaded", "invalid", "missing"},
   compiled : Valid \union {Nothing}, lastValid : Valid]

ASSUME NothingIsNoTemplate == Nothing \notin Records

VARIABLES
  source,    \* the content of each path
  disk,      \* the registrations in registry.json
  memory,    \* TemplateRegistry._templates
  at,        \* what the shell is doing
  command,   \* the command it is doing it for
  todo,      \* templates the command has yet to refresh
  name,      \* the template at hand
  edits, failures, starts,
  recent,    \* history: what the shell last compiled of each template
  loaded,    \* history: the paths of templates whose load was acknowledged
  unsaved,   \* history: the last attempt to write the registry failed
  report     \* history: what the command that just ended said

vars == <<source, disk, memory, at, command, todo, name, edits, failures, starts,
          recent, loaded, unsaved, report>>

Nowhere == [n \in Names |-> Nothing]

Init ==
  /\ source \in [Paths -> Contents]
  /\ disk = Nowhere /\ memory = Nowhere
  /\ at = "down" /\ command = "none" /\ todo = {} /\ name = Nothing
  /\ edits = 0 /\ failures = 0 /\ starts = 0
  /\ recent = Nowhere /\ loaded = Nowhere /\ unsaved = FALSE
  /\ report = Nothing

-----------------------------------------------------------------------------
\* What save writes: all but the compilation.
Stored(template) == IF template = Nothing THEN Nothing ELSE [template EXCEPT !.compiled = Nothing]

\* TemplateRegistry.__init__: what load reads.
Start ==
  /\ at = "down" /\ starts < MaxStarts
  /\ memory' = disk
  /\ starts' = starts + 1
  /\ at' = "prompt"
  /\ UNCHANGED <<source, disk, command, todo, name, edits, failures, recent, loaded,
                 unsaved, report>>

\* The shell is left, or dies: its registry is gone.
Stop ==
  /\ at # "down"
  /\ at' = "down" /\ command' = "none" /\ todo' = {} /\ name' = Nothing
  /\ memory' = Nowhere /\ recent' = Nowhere /\ unsaved' = FALSE /\ report' = Nothing
  /\ UNCHANGED <<source, disk, edits, failures, starts, loaded>>

\* The user, with any program, changes, makes or removes a source.
Edit ==
  /\ edits < MaxEdits
  /\ \E p \in Paths, c \in Contents : c # source[p] /\ source' = [source EXCEPT ![p] = c]
  /\ edits' = edits + 1
  /\ UNCHANGED <<disk, memory, at, command, todo, name, failures, starts, recent, loaded,
                 unsaved, report>>

-----------------------------------------------------------------------------
Registered == {n \in Names : memory[n] # Nothing}

Loaded(p, c) == [path |-> p, hash |-> c, status |-> "loaded", compiled |-> c, lastValid |-> c]

\* load: register, of a source that compiles and whose name is free or its
\* own.  Other loads change nothing.
Load ==
  /\ at = "prompt"
  /\ \E p \in Paths :
       LET n == NameOf[p] IN
       /\ memory[n] # Nothing => memory[n].path = p
       /\ source[p] \in Valid
       /\ memory' = [memory EXCEPT ![n] = Loaded(p, source[p])]
       /\ recent' = [recent EXCEPT ![n] = source[p]]
       /\ name' = n
  /\ command' = "load" /\ at' = "persist"
  /\ report' = Nothing
  /\ UNCHANGED <<source, disk, todo, edits, failures, starts, loaded, unsaved>>

\* list refreshes all templates, in some order, use, edit and run one.
Ask ==
  /\ at = "prompt"
  /\ \/ command' = "list" /\ todo' = Registered
     \/ command' \in {"use", "edit", "run"} /\ \E n \in Registered : todo' = {n}
  /\ at' = "refresh"
  /\ report' = Nothing
  /\ UNCHANGED <<source, disk, memory, name, edits, failures, starts, recent, loaded, unsaved>>

\* Mutant: only the hashes are compared.
UpToDate_ByHash(template, c) == template.hash = c /\ template.compiled # Nothing

UpToDate(template, c) ==
  template.status = "loaded" /\ template.hash = c /\ template.compiled # Nothing

\* refresh, of a source that is missing, is as it was, is new, or does not
\* compile.  Only the first and the third are through with it.
Refresh ==
  /\ at = "refresh" /\ todo # {}
  /\ \E n \in todo :
       LET c == source[memory[n].path] IN
       /\ name' = n
       /\ todo' = todo \ {n}
       /\ recent' = IF c \in Valid THEN [recent EXCEPT ![n] = c] ELSE recent
       /\ \/ /\ c = Nothing
             /\ memory' = [memory EXCEPT ![n].status = "missing"]
             /\ at' = "persist"
          \/ /\ c \in Valid /\ UpToDate(memory[n], c)
             /\ UNCHANGED <<memory, at>>
          \/ /\ c \in Valid /\ ~UpToDate(memory[n], c)
             /\ memory' = [memory EXCEPT ![n] = Loaded(@.path, c)]
             /\ at' = "persist"
          \/ /\ c \in Invalid
             /\ at' = "hash"
             /\ UNCHANGED memory
  /\ UNCHANGED <<source, disk, command, edits, failures, starts, loaded, unsaved, report>>

\* Mutant: the template is replaced in memory only.
Hash_Unsaved ==
  /\ at = "hash"
  /\ memory' = [memory EXCEPT ![name].hash = source[memory[name].path],
                              ![name].status = "invalid"]
  /\ at' = "refresh"
  /\ UNCHANGED <<source, disk, command, todo, name, edits, failures, starts, recent, loaded,
                 unsaved, report>>

\* refresh, of a source that did not compile: it is read again for its hash.
Hash ==
  /\ at = "hash"
  /\ memory' = [memory EXCEPT ![name].hash = source[memory[name].path],
                              ![name].status = "invalid"]
  /\ at' = "persist"
  /\ UNCHANGED <<source, disk, command, todo, name, edits, failures, starts, recent, loaded,
                 unsaved, report>>

\* Mutant: only what is loaded is worth saving.
Persist_LoadedOnly ==
  /\ at = "persist"
  /\ disk' = [n \in Names |-> IF memory[n] # Nothing /\ memory[n].status = "loaded"
                              THEN Stored(memory[n]) ELSE Nothing]
  /\ unsaved' = FALSE
  /\ at' = "refresh"
  /\ UNCHANGED <<source, memory, command, todo, name, edits, failures, starts, recent,
                 loaded, report>>

\* save: the file is replaced.
Persist ==
  /\ at = "persist"
  /\ disk' = [n \in Names |-> Stored(memory[n])]
  /\ unsaved' = FALSE
  /\ at' = "refresh"
  /\ UNCHANGED <<source, memory, command, todo, name, edits, failures, starts, recent,
                 loaded, report>>

\* save raises an OSError.  load catches it; any other command it ends, and
\* the shell with it (Stop).
PersistFails ==
  /\ at = "persist" /\ failures < MaxFailures
  /\ command = "load"
  /\ failures' = failures + 1
  /\ unsaved' = TRUE
  /\ at' = "prompt" /\ command' = "none" /\ name' = Nothing
  /\ UNCHANGED <<source, disk, memory, todo, edits, starts, recent, loaded, report>>

-----------------------------------------------------------------------------
Said(what) == [what |-> what, name |-> name, compiled |-> memory[name].compiled]

Prompt == at' = "prompt" /\ command' = "none" /\ name' = Nothing

EndLoad ==
  /\ command = "load"
  /\ loaded' = [loaded EXCEPT ![name] = memory[name].path]
  /\ report' = Said("loaded")
  /\ Prompt

EndListOrUse ==
  /\ command \in {"list", "use"}
  /\ Prompt
  /\ UNCHANGED <<loaded, report>>

\* edit, before the editor is started, if there is one and the source too.
EndEdit ==
  /\ command = "edit"
  /\ \/ memory[name].status # "missing" /\ at' = "editor" /\ UNCHANGED <<command, name>>
     \/ Prompt
  /\ UNCHANGED <<loaded, report>>

\* edit, after the refresh that follows the editor.
EndEdited ==
  /\ command = "edited"
  /\ report' = IF memory[name].status = "invalid" THEN Said("last valid remains") ELSE Nothing
  /\ Prompt
  /\ UNCHANGED loaded

\* run: executable, and what the runtime is given.
EndRun ==
  /\ command = "run"
  /\ report' = IF memory[name].status # "missing" /\ memory[name].compiled # Nothing
               THEN Said("ran") ELSE Nothing
  /\ Prompt
  /\ UNCHANGED loaded

\* All is refreshed.
End ==
  /\ at = "refresh" /\ todo = {}
  /\ EndLoad \/ EndListOrUse \/ EndEdit \/ EndEdited \/ EndRun
  /\ UNCHANGED <<source, disk, memory, todo, edits, failures, starts, recent, unsaved>>

\* The editor returns.  It may have changed the source (Edit).
LeaveEditor ==
  /\ at = "editor"
  /\ command' = "edited" /\ todo' = {name} /\ at' = "refresh"
  /\ UNCHANGED <<source, disk, memory, name, edits, failures, starts, recent, loaded,
                 unsaved, report>>

Next ==
  \/ Start \/ Stop \/ Edit
  \/ Load \/ Ask \/ Refresh \/ Hash \/ Persist \/ PersistFails \/ End \/ LeaveEditor

Spec == Init /\ [][Next]_vars

-----------------------------------------------------------------------------
TypeOK ==
  /\ source \in [Paths -> Contents]
  /\ disk \in [Names -> Records \union {Nothing}]
  /\ memory \in [Names -> Records \union {Nothing}]
  /\ at \in {"down", "prompt", "refresh", "hash", "persist", "editor"}
  /\ command \in {"none", "load", "list", "use", "edit", "edited", "run"}
  /\ todo \subseteq Registered
  /\ name \in Names \union {Nothing}
  /\ at \in {"hash", "persist", "editor"} => name \in Registered
  /\ edits \in 0 .. MaxEdits /\ failures \in 0 .. MaxFailures /\ starts \in 0 .. MaxStarts
  /\ recent \in [Names -> Valid \union {Nothing}]
  /\ loaded \in [Names -> Paths \union {Nothing}]
  /\ unsaved \in BOOLEAN
  /\ report # Nothing =>
       report \in [what : {"loaded", "ran", "last valid remains"}, name : Names,
                   compiled : Valid \union {Nothing}]

(* run executes the newest content that compiled when the shell looked,
   whatever was edited meanwhile, and however often it did not compile or
   was gone: never a stale compilation (registry.py:94-119). *)
RunIsCurrent ==
  report # Nothing /\ report.what = "ran" => report.compiled = recent[report.name]

(* A template whose load was acknowledged stays registered, for its source,
   through failures to write, crashes and restarts (registry.py:131). *)
RegistrationsSurvive ==
  \A n \in Names : loaded[n] # Nothing => disk[n] # Nothing /\ disk[n].path = loaded[n]

(* At the prompt a restart would find the registry as it is, compilations
   apart, unless the last attempt to write it failed: no refresh changes
   a template behind the back of the file. *)
FileIsCurrent ==
  at = "prompt" /\ ~unsaved => \A n \in Names : disk[n] = Stored(memory[n])

=============================================================================
