-------------------------------- MODULE Clt ---------------------------------
(***************************************************************************)
(* CLT, the language of templates (clt/): a source is lexed, line by line, *)
(* parsed, validated and then run by a runtime that calls the capabilities *)
(* registered for its operations.                                          *)
(*                                                                         *)
(* A line is its indentation and what it says; blank lines and comments,   *)
(* which the lexer drops, are left out.  The words in a line are taken     *)
(* together: they are fit to be lexed, parsed, validated and resolved, or  *)
(* are the first of these they are not.  There are two variables: a line   *)
(* "assign" gives x a value of its own, "copy" gives y that of x.          *)
(***************************************************************************)
EXTENDS Naturals, Sequences, FiniteSets

CONSTANTS
  Conditions,  \* a condition stands for a line "if" with it
  Indents,     \* bound: indentations of lines
  MaxLines     \* bound: lines of a source

ASSUME MaxLinesIsNumber == MaxLines \in Nat
ASSUME IndentsAreNumbers == Indents \subseteq Nat

Simple     == {"assign", "copy", "flow"}                  \* statements without a block
Operations == {"operation", "unresolved", "meaningless"}  \* which may have one

ASSUME ConditionsAreNew == Conditions \intersect (Simple \union Operations \union {"else"}) = {}

Kinds == Conditions \union Simple \union Operations \union {"else", "unlexable", "garbled"}

Lines == [indent : Indents, kind : Kinds]

VARIABLES
  text,       \* the lines read so far
  phase,      \* what is being done, or how it ended
  indents,    \* lexer: the indentations of the open blocks
  tokens,     \* lexer: INDENT, DEDENT, EOF, or the number of a line
  index,      \* parser: the current token
  open,       \* parser: the blocks entered, the innermost last
  tree,       \* parser: the block a line is in
  facts,      \* runtime: the conditions that hold
  given,      \* runtime: the variables given to run
  variables,  \* runtime: the value of x and of y
  frames,     \* runtime: the lines left to run of each block entered
  events      \* runtime: the calls, with the variables they saw

compiling == <<text, indents, tokens, index, open, tree>>
running   == <<facts, given, variables, frames, events>>
cltVars == <<text, phase, indents, tokens, index, open, tree, facts, given, variables,
             frames, events>>

Unset   == <<"unset">>     \* no such variable
Input   == <<"input">>     \* the value given to run
Name    == <<"name">>      \* the word x itself
Own(l)  == <<"line", l>>   \* the word assigned by line l

NoVariables == [x |-> Unset, y |-> Unset]

Module == [of |-> 0, branch |-> "body"]

CltInit ==
  /\ text = <<>> /\ phase = "lexing"
  /\ indents = <<0>> /\ tokens = <<>>
  /\ index = 1 /\ open = <<>> /\ tree = <<>>
  /\ facts = {} /\ given = NoVariables /\ variables = NoVariables /\ frames = <<>> /\ events = <<>>

-----------------------------------------------------------------------------
Indent == [is |-> "indent"]
Dedent == [is |-> "dedent"]
Eof    == [is |-> "eof"]
Line(l) == [is |-> "line", of |-> l]

Top == indents[Len(indents)]

Dedents(n) == [i \in 1 .. n |-> Dedent]

\* The blocks that a line with this indentation leaves open.
LeftOpen(indent) ==
  SubSeq(indents, 1, CHOOSE n \in DOMAIN indents :
                       /\ indents[n] <= indent
                       /\ \A m \in DOMAIN indents : m > n => indents[m] > indent)

\* lex: the next line, with the blocks it enters or leaves.
LexLine ==
  /\ phase = "lexing" /\ Len(text) < MaxLines
  /\ \E line \in Lines :
       LET indent == line.indent
           kept   == LeftOpen(indent)
       IN  /\ text' = Append(text, line)
           /\ IF \/ indent % 4 # 0 \/ line.kind = "unlexable"
                 \/ indent > Top + 4
                 \/ indent <= Top /\ indent # kept[Len(kept)]
              THEN phase' = "LexError" /\ UNCHANGED <<indents, tokens>>
              ELSE /\ indents' = IF indent > Top THEN Append(indents, indent) ELSE kept
                   /\ tokens' = tokens
                        \o (IF indent > Top THEN <<Indent>> ELSE Dedents(Len(indents) - Len(kept)))
                        \o <<Line(Len(text) + 1)>>
                   /\ UNCHANGED phase
  /\ UNCHANGED <<index, open, tree, running>>

\* lex: the end of the source.
LexEnd ==
  /\ phase = "lexing"
  /\ tokens' = tokens \o Dedents(Len(indents) - 1) \o <<Eof>>
  /\ indents' = <<0>>
  /\ phase' = "parsing"
  /\ UNCHANGED <<text, index, open, tree, running>>

-----------------------------------------------------------------------------
Current == tokens[index]

KindOf(l) == text[l].kind

Block == IF open = <<>> THEN Module ELSE open[Len(open)]

Fail == phase' = "ParseError" /\ UNCHANGED <<index, open, tree>>

Enter(l, branch) == open' = Append(open, [of |-> l, branch |-> branch])

\* _statement, _required_block: a line, and the INDENT of its block.  "else" is
\* an operation of that name where no "if" comes before it.
ParseStatement ==
  /\ phase = "parsing" /\ Current.is = "line"
  /\ LET l == Current.of
         kind == KindOf(l)
         indented == tokens[index + 1] = Indent
     IN  IF kind = "garbled" \/ (kind \in Conditions /\ ~indented)
         THEN Fail
         ELSE /\ tree' = Append(tree, Block)
              /\ IF indented /\ kind \notin Simple
                 THEN index' = index + 2 /\ Enter(l, "body")
                 ELSE index' = index + 1 /\ UNCHANGED open
              /\ UNCHANGED phase
  /\ UNCHANGED <<text, indents, tokens, running>>

\* Mutant: an else is taken after the block of any statement.
ParseBlockEnd_ElseAnywhere ==
  /\ phase = "parsing" /\ Current = Dedent
  /\ LET ended == open[Len(open)]
         next == tokens[index + 1]
         outer == SubSeq(open, 1, Len(open) - 1)
     IN  IF ended.branch = "body" /\ next.is = "line" /\ KindOf(next.of) = "else"
         THEN IF tokens[index + 2] # Indent THEN Fail
              ELSE /\ open' = Append(outer, [of |-> ended.of, branch |-> "else"])
                   /\ tree' = Append(tree, [of |-> ended.of, branch |-> "label"])
                   /\ index' = index + 3
                   /\ UNCHANGED phase
         ELSE /\ open' = outer
              /\ index' = index + 1
              /\ UNCHANGED <<phase, tree>>
  /\ UNCHANGED <<text, indents, tokens, running>>

\* The end of a block; an else that follows that of an "if" begins its other one.
ParseBlockEnd ==
  /\ phase = "parsing" /\ Current = Dedent
  /\ LET ended == open[Len(open)]
         next == tokens[index + 1]
         outer == SubSeq(open, 1, Len(open) - 1)
     IN  IF /\ KindOf(ended.of) \in Conditions /\ ended.branch = "body"
            /\ next.is = "line" /\ KindOf(next.of) = "else"
         THEN IF tokens[index + 2] # Indent THEN Fail
              ELSE /\ open' = Append(outer, [of |-> ended.of, branch |-> "else"])
                   /\ tree' = Append(tree, [of |-> ended.of, branch |-> "label"])
                   /\ index' = index + 3
                   /\ UNCHANGED phase
         ELSE /\ open' = outer
              /\ index' = index + 1
              /\ UNCHANGED <<phase, tree>>
  /\ UNCHANGED <<text, indents, tokens, running>>

\* An INDENT that no statement asked for.
ParseUnexpectedIndent ==
  /\ phase = "parsing" /\ Current = Indent
  /\ Fail
  /\ UNCHANGED <<text, indents, tokens, running>>

\* parse: the end of the module.
ParseEnd ==
  /\ phase = "parsing" /\ Current = Eof /\ open = <<>>
  /\ phase' = "validating"
  /\ UNCHANGED <<compiling, running>>

\* normalize_condition, normalize_action: the words make no condition or action.
Meaningless(l) == KindOf(l) = "meaningless"

\* validate, the errors of the normalization included: operations are known by
\* name, so that an else that is one is not.
Validate ==
  /\ phase = "validating"
  /\ phase' = IF \E l \in DOMAIN tree : Meaningless(l) \/ (KindOf(l) = "else" /\ tree[l].branch # "label")
           THEN "ValidationError" ELSE "compiled"
  /\ UNCHANGED <<compiling, running>>

-----------------------------------------------------------------------------
\* The statements of one block, in order.
Statements(l, branch) ==
  LET in == {m \in DOMAIN tree : tree[m] = [of |-> l, branch |-> branch]}
  IN  CHOOSE s \in [1 .. Cardinality(in) -> in] : \A i, j \in DOMAIN s : i < j => s[i] < s[j]

\* run: of a compiled template, with what the caller gives: facts, of which
\* those matter that the source asks for, and both variables or none.
StartRun ==
  /\ phase = "compiled"
  /\ facts' \in SUBSET {KindOf(l) : l \in {l \in DOMAIN text : KindOf(l) \in Conditions}}
  /\ given' \in {NoVariables, [x |-> Input, y |-> Input]}
  /\ variables' = given'
  /\ frames' = <<Statements(0, "body")>>
  /\ phase' = "running"
  /\ UNCHANGED <<compiling, events>>

Rest == [frames EXCEPT ![Len(frames)] = Tail(@)]

\* Mutant: the block of an "if" runs whatever its condition.
Branch_AlwaysBody(c) == "body"

\* _condition_matches.
Branch(c) == IF c \in facts THEN "body" ELSE "else"

\* The assignments of _run_block: a word that names a variable is its value,
\* once.
Assigned(l) ==
  CASE KindOf(l) = "assign" -> [variables EXCEPT !.x = Own(l)]
    [] KindOf(l) = "copy"   -> [variables EXCEPT !.y = IF variables.x = Unset THEN Name ELSE variables.x]

\* _run_block: one statement of the innermost block.
RunStatement ==
  /\ phase = "running" /\ frames # <<>> /\ frames[Len(frames)] # <<>>
  /\ LET l == Head(frames[Len(frames)])
         kind == KindOf(l)
         Call == events' = Append(events, [of |-> l, saw |-> variables])
     IN  \/ /\ kind \in {"assign", "copy"}
            /\ variables' = Assigned(l) /\ frames' = Rest /\ UNCHANGED <<events, phase>>
         \/ /\ kind = "flow"
            /\ Call /\ frames' = Rest /\ UNCHANGED <<variables, phase>>
         \/ /\ kind = "operation"
            /\ Call /\ frames' = Append(Rest, Statements(l, "body")) /\ UNCHANGED <<variables, phase>>
         \/ /\ kind \in Conditions
            /\ frames' = Append(Rest, Statements(l, Branch(kind))) /\ UNCHANGED <<variables, events, phase>>
         \/ /\ kind = "unresolved"
            /\ phase' = "CapabilityResolutionError" /\ UNCHANGED <<variables, frames, events>>
  /\ UNCHANGED <<compiling, facts, given>>

\* A block is done, and with the first of them the run.
RunBlockEnd ==
  /\ phase = "running" /\ frames # <<>> /\ frames[Len(frames)] = <<>>
  /\ frames' = SubSeq(frames, 1, Len(frames) - 1)
  /\ phase' = IF Len(frames) = 1 THEN "done" ELSE "running"
  /\ UNCHANGED <<compiling, facts, given, variables, events>>

Refusals == {"LexError", "ParseError", "ValidationError"}

Ended == phase \in Refusals \union {"CapabilityResolutionError", "done"}

\* Nothing is left to do.  In any other state there is something.
Finished == Ended /\ UNCHANGED cltVars

CltNext ==
  \/ LexLine \/ LexEnd
  \/ ParseStatement \/ ParseBlockEnd \/ ParseUnexpectedIndent \/ ParseEnd
  \/ Validate
  \/ StartRun \/ RunStatement \/ RunBlockEnd
  \/ Finished

CltSpec == CltInit /\ [][CltNext]_cltVars

-----------------------------------------------------------------------------
\* What a source means, by its layout alone.

Within(m, l) == m < l /\ \A k \in m + 1 .. l : text[k].indent > text[m].indent

IndentBefore(l) == IF l = 1 THEN 0 ELSE text[l - 1].indent

Opens(l) == l < Len(text) /\ text[l + 1].indent > text[l].indent

\* m is the "if" whose other branch the else in line l begins.
IsElseOf(l, m) ==
  /\ KindOf(l) = "else" /\ KindOf(m) \in Conditions
  /\ m < l /\ text[m].indent = text[l].indent
  /\ \A k \in m + 1 .. l - 1 : Within(m, k)

IsElse(l) == \E m \in DOMAIN text : IsElseOf(l, m)

WellIndented ==
  \A l \in DOMAIN text :
    /\ text[l].indent % 4 = 0 /\ text[l].indent <= IndentBefore(l) + 4
    /\ KindOf(l) # "unlexable"

WellFormed ==
  \A l \in DOMAIN text :
    /\ l = 1 => text[l].indent = 0
    /\ KindOf(l) # "garbled"
    /\ KindOf(l) \in Simple => ~Opens(l)
    /\ KindOf(l) \in Conditions \/ IsElse(l) => Opens(l)

Meaningful ==
  \A l \in DOMAIN text : KindOf(l) # "meaningless" /\ (KindOf(l) = "else" => IsElse(l))

Verdict ==
  CASE ~WellIndented -> "LexError"
    [] WellIndented /\ ~WellFormed -> "ParseError"
    [] WellIndented /\ WellFormed /\ ~Meaningful -> "ValidationError"
    [] OTHER -> "compiled"

(* The lexer's stack, the parser's descent and the validator together accept
   exactly the sources that are well laid out, and of the others they tell
   what is wrong with them (lex, Parser, validate). *)
VerdictIsRight ==
  /\ phase \in Refusals => phase = Verdict
  /\ phase \in {"compiled", "running", "CapabilityResolutionError", "done"} => Verdict = "compiled"

\* Line l is to run: every condition around it holds, or does not where the
\* line is in the other branch.
Reached(l) ==
  \A m \in DOMAIN text : Within(m, l) =>
    /\ KindOf(m) \in Conditions => KindOf(m) \in facts
    /\ \A i \in DOMAIN text : IsElseOf(m, i) => KindOf(i) \notin facts

\* The last of the lines that are to run before l and are of this kind, or 0.
LastBefore(l, kind) ==
  LET those == {m \in 1 .. l - 1 : KindOf(m) = kind /\ Reached(m)}
  IN  IF those = {} THEN 0 ELSE CHOOSE m \in those : \A k \in those : k <= m

CallsBefore(l) == {m \in 1 .. l - 1 : KindOf(m) \in {"operation", "flow"} /\ Reached(m)}

XAt(l) == LET m == LastBefore(l, "assign") IN IF m = 0 THEN given.x ELSE Own(m)

YAt(l) ==
  LET m == LastBefore(l, "copy")
  IN  IF m = 0 THEN given.y ELSE IF XAt(m) = Unset THEN Name ELSE XAt(m)

(* A run calls the operations and flows whose conditions hold, in the order
   of their lines, each once, until one cannot be resolved, and each sees in a
   variable the last value assigned to it on that way: a copy keeps the value
   of its time (CLTRuntime). *)
RunFollowsSource ==
  LET stops == {l \in DOMAIN text : KindOf(l) = "unresolved" /\ Reached(l)}
      end   == IF stops = {} THEN Len(text) + 1 ELSE CHOOSE l \in stops : \A k \in stops : l <= k
      called(n) == {events[i].of : i \in 1 .. n}
  IN  /\ phase = "done" => stops = {}
      /\ phase \in {"done", "CapabilityResolutionError"} => called(Len(events)) = CallsBefore(end)
      /\ \A i \in DOMAIN events :
           LET l == events[i].of
           IN  /\ called(i - 1) = CallsBefore(l)
               /\ events[i].saw = [x |-> XAt(l), y |-> YAt(l)]
=============================================================================
