--------------------------- MODULE RunRecordsProofs --------------------------
(***************************************************************************)
(* What is kept of recon runs, whatever the runs, how often writes fail    *)
(* and wherever the program ends: replay loses little, and the evidence    *)
(* graph names the sources there are, and no others.                       *)
(*                                                                         *)
(* Of the journal, the invariant (Lines) says which line each write went   *)
(* to: writes go to lines in their order, a whole one is the last of its   *)
(* line, and a line holds what was written to it, nothing twice, since no  *)
(* event is emitted twice (Fresh).  Of the graph it says (Graph) that the  *)
(* claims so far are those of the places the loops have been at (Behind).  *)
(***************************************************************************)
EXTENDS RunRecords, FiniteSetTheorems, SequenceTheorems, TLAPS

Whole(i) == written[i].write = "whole"

Wrote(i) == written[i].write # "nothing"

Entry(i) == Piece(written[i].event, written[i].write)

\* Events are those of this run's completed steps, and of runs before it.
Fresh ==
  /\ \A i \in DOMAIN written :
       \/ written[i].event[1] < run
       \/ written[i].event[1] = run /\ written[i].event[2] \in completed
  /\ \A i, j \in DOMAIN written : written[i].event = written[j].event => i = j

\* Of L, the lines the writes went to: writes go to them in their order, and
\* a whole one is the last of its line.
Ordered(L) ==
  \A i, j \in DOMAIN written : i < j => L[i] <= L[j] /\ (Whole(i) => L[i] < L[j])

Ended(L) == \A i \in DOMAIN written : Whole(i) => L[i] < Len(file)

\* What was written is there.
Kept(L) ==
  \A i \in DOMAIN written : Wrote(i) => \E m \in DOMAIN file[L[i]] : file[L[i]][m] = Entry(i)

\* What is there was written there.
Sourced(L) ==
  \A k \in DOMAIN file : \A m \in DOMAIN file[k] :
    \E i \in DOMAIN written : L[i] = k /\ Wrote(i) /\ file[k][m] = Entry(i)

\* No line has an event twice.
Once ==
  \A k \in DOMAIN file : \A m, n \in DOMAIN file[k] : file[k][m].of = file[k][n].of => m = n

Lines(L) == Ordered(L) /\ Ended(L) /\ Kept(L) /\ Sourced(L) /\ Once

Journal == file # <<>> /\ \E L \in [DOMAIN written -> DOMAIN file] : Lines(L)

\* Of the tools of the first n results, the last result of each.
Gathered(n) ==
  /\ DOMAIN payloads = {steps[s].tool : s \in 1 .. n}
  /\ \A t \in DOMAIN payloads : \E s \in 1 .. n :
       /\ steps[s].tool = t /\ payloads[t] = steps[s].payload
       /\ \A u \in 1 .. n : steps[u].tool = t => u <= s

\* The places the loops have been at.
Behind == {p \in Places(payloads) : ~ Before(place, p)}

\* Of the places B in the payloads P, those that support a claim, and those
\* that do with a source.
Support(P, B, c) == {p \in B : SameFact(c, ClaimAt(Target, P, p))}

SupportBy(P, B, c, x) == {p \in Support(P, B, c) : x \in ToSet(ClaimAt(Target, P, p).sources)}

SourcesAt(P, B) == UNION {ToSet(ClaimAt(Target, P, p).sources) : p \in B}

\* Its sources come in the order of the tools that have them.
ByTools(P, B, c) ==
  \A m, n \in DOMAIN c.sources : m < n =>
    \A q \in SupportBy(P, B, c, c.sources[n]) :
      \E p \in SupportBy(P, B, c, c.sources[m]) : p[1] <= q[1]

\* It has none twice, unless one of its places has.
NoneTwice(P, B, c) ==
  IsInjective(c.sources) \/ \E p \in Support(P, B, c) : c.sources = ClaimAt(Target, P, p).sources

\* A claim has the sources of its places, in this order.
Supported(P, B, c) ==
  /\ Support(P, B, c) # {}
  /\ ToSet(c.sources) = SourcesAt(P, Support(P, B, c))
  /\ ByTools(P, B, c)
  /\ NoneTwice(P, B, c)

\* The claims are those of these places, none twice.
GraphOf(P, B, cs) ==
  /\ \A i, j \in DOMAIN cs : SameFact(cs[i], cs[j]) => i = j
  /\ \A p \in B : \E i \in DOMAIN cs : SameFact(cs[i], ClaimAt(Target, P, p))
  /\ \A i \in DOMAIN cs : Supported(P, B, cs[i])

Graph == GraphOf(payloads, Behind, claims)

Progress ==
  /\ at = "running" => index = 1 /\ payloads = NoPayloads
  /\ at \in {"running", "collecting"} => place = Start /\ claims = <<>>
  /\ at = "collecting" => index <= Len(steps) + 1 /\ Gathered(index - 1)
  /\ at \in {"correlating", "correlated"} => Gathered(Len(steps)) /\ Graph
  /\ at = "correlated" => Ahead = {}

IInv == TypeOK /\ Fresh /\ Journal /\ Progress

-----------------------------------------------------------------------------

(* A set of numbers that is not empty has a least one. *)
LEMMA LeastExists ==
  ASSUME NEW S \in SUBSET Nat, S # {}
  PROVE  \E s \in S : \A t \in S : s <= t
<1> DEFINE T == {0 .. s : s \in S}
           R == StrictSubsetOrdering(Nat)
<1>1. T # {} /\ T \subseteq FiniteSubsetsOf(Nat)
  <2>1. \A s \in S : IsFiniteSet(0 .. s) /\ 0 .. s \subseteq Nat
    BY FS_Interval
  <2> QED BY <2>1 DEF FiniteSubsetsOf
<1>2. PICK I \in T : \A J \in T : <<J, I>> \notin R
  <2>1. IsWellFoundedOn(R, FiniteSubsetsOf(Nat))
    BY FS_StrictSubsetOrderingWellFounded
  <2> HIDE DEF T, R
  <2> QED BY <1>1, <2>1, WFMin
<1>3. PICK s \in S : I = 0 .. s
  OBVIOUS
<1>4. ASSUME NEW t \in S PROVE s <= t
  <2> SUFFICES ASSUME t < s PROVE FALSE
    OBVIOUS
  <2>1. 0 .. t \subseteq 0 .. s /\ s \in 0 .. s /\ s \notin 0 .. t
    OBVIOUS
  <2>2. 0 .. t \in T /\ 0 .. t \in SUBSET Nat /\ 0 .. s \in SUBSET Nat
    OBVIOUS
  <2> QED BY <1>2, <1>3, <2>1, <2>2 DEF StrictSubsetOrdering
<1> QED
  BY <1>4

\* f lists the places in order, and what is at them is selected.
Selects(f, seq, P) ==
  /\ f \in [1 .. Cardinality(P) -> P]
  /\ \A m, n \in 1 .. Cardinality(P) : m < n => f[m] < f[n]
  /\ \A i \in P : \E n \in 1 .. Cardinality(P) : f[n] = i
  /\ \A n \in 1 .. Cardinality(P) : AtPlaces(seq, P)[n] = seq[f[n]]

(* What is selected is selected in order, all of it and nothing else: the
   places selected are those of an increasing list. *)
LEMMA Selected ==
  ASSUME NEW R, NEW seq \in Seq(R), NEW P \in SUBSET DOMAIN seq
  PROVE  /\ AtPlaces(seq, P) \in Seq(R) /\ Len(AtPlaces(seq, P)) = Cardinality(P)
         /\ Cardinality(P) \in Nat
         /\ \E f : Selects(f, seq, P)
<1> DEFINE N       == Len(seq)
           upTo(i) == {j \in P : j <= i}
           rank(i) == Cardinality(upTo(i))
           C       == Cardinality(P)
           ranks   == [i \in P |-> rank(i)]
           f       == [n \in 1 .. C |-> CHOOSE i \in P : rank(i) = n]
<1>1. IsFiniteSet(P) /\ C \in Nat
  <2>1. IsFiniteSet(1 .. N)
    BY FS_Interval
  <2>2. IsFiniteSet(P)
    BY <2>1, FS_Subset
  <2> QED BY <2>2, FS_CardinalityType
<1>0. \A i \in P : i \in Nat
  BY DOMAIN seq = 1 .. Len(seq)
<1>2. ASSUME NEW i \in P
      PROVE  rank(i) \in 1 .. C
  <2>1. upTo(i) \in SUBSET P /\ i \in upTo(i)
    OBVIOUS
  <2>2. IsFiniteSet(upTo(i)) /\ rank(i) <= C
    BY <1>1, <2>1, FS_Subset
  <2>3. rank(i) \in Nat /\ rank(i) # 0
    BY <2>1, <2>2, FS_CardinalityType, FS_EmptySet
  <2> QED BY <1>1, <2>2, <2>3
<1>3. ASSUME NEW i \in P, NEW k \in P, i < k
      PROVE  rank(i) < rank(k)
  <2>1. upTo(i) \in SUBSET upTo(k) /\ k \in upTo(k) /\ k \notin upTo(i)
    BY <1>0, <1>3
  <2>2. rank(i) <= rank(k) /\ rank(i) # rank(k)
    <3>1. IsFiniteSet(upTo(k))
      BY <1>1, FS_Subset, upTo(k) \in SUBSET P
    <3> QED BY <2>1, <3>1, FS_Subset
  <2> HIDE DEF rank, C
  <2> QED BY <1>1, <1>2, <2>2
<1>4. ASSUME NEW i \in P, NEW k \in P, rank(i) = rank(k)
      PROVE  i = k
  <2>1. i < k \/ i = k \/ k < i
    BY <1>0
  <2> HIDE DEF rank, C
  <2> QED BY <1>1, <1>2, <1>3, <1>4, <2>1
<1>5. ranks \in Surjection(P, 1 .. C)
  <2>1. ranks \in Injection(P, 1 .. C)
    BY <1>2, <1>4 DEF Injection, IsInjective
  <2>2. IsFiniteSet(1 .. C) /\ Cardinality(1 .. C) = C
    BY <1>1, FS_Interval
  <2> QED BY <1>1, <2>1, <2>2, FS_Injection
<1> HIDE DEF rank
<1>6. ASSUME NEW n \in 1 .. C
      PROVE  f[n] \in P /\ rank(f[n]) = n
  <2>1. \E i \in P : rank(i) = n
    BY <1>5 DEF Surjection
  <2> QED BY <2>1
<1>7. f \in [1 .. C -> P]
  BY <1>6
<1>8. AtPlaces(seq, P) = [n \in 1 .. C |-> seq[f[n]]]
  BY DEF AtPlaces, rank
<1> HIDE DEF f
<1>9. ASSUME NEW m \in 1 .. C, NEW n \in 1 .. C, m < n
      PROVE  f[m] < f[n]
  <2>1. f[m] \in Nat /\ f[n] \in Nat /\ f[m] \in P /\ f[n] \in P
    BY <1>0, <1>6
  <2>2. f[n] < f[m] => n < m
    BY <1>3, <1>6, <2>1
  <2>3. f[n] # f[m]
    BY <1>6, <1>9
  <2> QED BY <1>9, <2>1, <2>2, <2>3
<1>10. ASSUME NEW i \in P PROVE \E n \in 1 .. C : f[n] = i
  BY <1>2, <1>4, <1>6
<1> HIDE DEF C
<1>11. \A n \in 1 .. C : seq[f[n]] \in R
  BY <1>7
<1>12. AtPlaces(seq, P) \in Seq(R) /\ Len(AtPlaces(seq, P)) = C
  BY <1>1, <1>8, <1>11
<1>13. \A n \in 1 .. C : AtPlaces(seq, P)[n] = seq[f[n]]
  BY <1>8
<1>14. Selects(f, seq, P)
  BY <1>7, <1>9, <1>10, <1>13 DEF C, Selects
<1> QED BY <1>1, <1>12, <1>14 DEF C

(* dict.fromkeys keeps what there is in a list, once, in the order in which
   it first occurs (_add_claim). *)
LEMMA DistinctKeeps ==
  ASSUME NEW R, NEW s \in Seq(R)
  PROVE  /\ Distinct(s) \in Seq(R)
         /\ ToSet(Distinct(s)) = ToSet(s)
         /\ IsInjective(Distinct(s))
         /\ \A m, n \in DOMAIN Distinct(s) : m < n =>
              \E a, b \in DOMAIN s : /\ a < b /\ s[a] = Distinct(s)[m] /\ s[b] = Distinct(s)[n]
                                     /\ \A c \in DOMAIN s : s[c] = s[b] => b <= c
<1> DEFINE P == {i \in DOMAIN s : \A j \in 1 .. i - 1 : s[j] # s[i]}
           C == Cardinality(P)
<1>1. DOMAIN s = 1 .. Len(s) /\ Len(s) \in Nat /\ P \in SUBSET DOMAIN s
  OBVIOUS
<1>2. Distinct(s) = AtPlaces(s, P)
  BY DEF Distinct
<1> HIDE DEF P
<1>3. /\ Distinct(s) \in Seq(R) /\ Len(Distinct(s)) = C /\ C \in Nat
      /\ DOMAIN Distinct(s) = 1 .. C
  BY <1>1, <1>2, Selected
<1>s. PICK f : Selects(f, s, P)
  BY <1>1, Selected
<1>4. /\ f \in [1 .. C -> P]
      /\ \A m, n \in 1 .. C : m < n => f[m] < f[n]
      /\ \A i \in P : \E n \in 1 .. C : f[n] = i
      /\ \A n \in 1 .. C : AtPlaces(s, P)[n] = s[f[n]]
  BY <1>s DEF Selects
<1> HIDE DEF C
<1>5. ASSUME NEW i \in DOMAIN s
      PROVE  \E k \in P : s[k] = s[i]
  <2> DEFINE E == {k \in DOMAIN s : s[k] = s[i]}
  <2>1. PICK k \in E : \A j \in E : k <= j
    <3>1. E \in SUBSET Nat /\ E # {}
      BY <1>1
    <3> QED BY <3>1, LeastExists
  <2>2. k \in P /\ s[k] = s[i]
    <3>1. ASSUME NEW j \in 1 .. k - 1, s[j] = s[k] PROVE FALSE
      BY <1>1, <2>1, <3>1
    <3> QED BY <2>1, <3>1 DEF P
  <2> QED BY <2>2
<1>6. ToSet(Distinct(s)) = ToSet(s)
  <2>1. \A n \in 1 .. C : f[n] \in DOMAIN s
    BY <1>1, <1>4
  <2>2. \A i \in DOMAIN s : \E n \in 1 .. C : s[f[n]] = s[i]
    BY <1>4, <1>5
  <2>3. \A n \in DOMAIN Distinct(s) : \E i \in DOMAIN s : Distinct(s)[n] = s[i]
    BY <1>2, <1>3, <1>4, <2>1
  <2>4. \A i \in DOMAIN s : \E n \in DOMAIN Distinct(s) : Distinct(s)[n] = s[i]
    <3>1. \A n \in 1 .. C : Distinct(s)[n] = s[f[n]]
      BY <1>2, <1>4
    <3> QED BY <1>3, <2>2, <3>1
  <2> QED BY <2>3, <2>4 DEF ToSet
<1>7. ASSUME NEW m \in 1 .. C, NEW n \in 1 .. C, m < n
      PROVE  \E a, b \in DOMAIN s : /\ a < b /\ s[a] = Distinct(s)[m] /\ s[b] = Distinct(s)[n]
                                    /\ \A c \in DOMAIN s : s[c] = s[b] => b <= c
  <2>1. f[m] < f[n] /\ f[m] \in P /\ f[n] \in P
    BY <1>4, <1>7
  <2>2. ASSUME NEW c \in DOMAIN s, s[c] = s[f[n]] PROVE f[n] <= c
    <3>1. c \notin 1 .. f[n] - 1
      BY <2>1, <2>2 DEF P
    <3> QED BY <1>1, <2>1, <3>1
  <2> QED BY <1>1, <1>2, <1>4, <2>1, <2>2
<1>8. ASSUME NEW m \in 1 .. C, NEW n \in 1 .. C, m < n
      PROVE  Distinct(s)[m] # Distinct(s)[n]
  <2>1. f[m] < f[n] /\ f[m] \in P /\ f[n] \in P
    BY <1>4, <1>8
  <2>2. f[m] \in 1 .. f[n] - 1
    BY <1>1, <2>1
  <2>3. s[f[m]] # s[f[n]]
    BY <2>1, <2>2 DEF P
  <2> QED BY <1>2, <1>4, <2>3
<1>9. IsInjective(Distinct(s))
  <2>1. ASSUME NEW m \in 1 .. C, NEW n \in 1 .. C, Distinct(s)[m] = Distinct(s)[n]
        PROVE  m = n
    <3>1. m \in Nat /\ n \in Nat
      BY <1>3
    <3> QED BY <1>8, <2>1, <3>1
  <2> QED BY <1>3, <2>1 DEF IsInjective
<1> QED BY <1>3, <1>6, <1>7, <1>9

-----------------------------------------------------------------------------
\* g is f with one more write: the last line is longer, or a new one follows.
Rewritten(T, f, g, event, write) ==
  /\ g \in Seq(Seq(T))
  /\ Len(g) = IF write = "whole" THEN Len(f) + 1 ELSE Len(f)
  /\ \A k \in 1 .. Len(f) - 1 : g[k] = f[k]
  /\ g[Len(f)] = IF write = "nothing" THEN f[Len(f)] ELSE Append(f[Len(f)], Piece(event, write))
  /\ write = "whole" => g[Len(f) + 1] = <<>>

(* A write changes the last line, and a whole one begins another
   (JsonlEventJournal.append). *)
LEMMA AppendedLines ==
  ASSUME NEW T, NEW f \in Seq(Seq(T)), f # <<>>,
         NEW event, NEW write \in Writes, Piece(event, write) \in T
  PROVE  Rewritten(T, f, AppendEvent(f, event, write), event, write)
<1> DEFINE g      == AppendEvent(f, event, write)
           K      == Len(f)
           e      == Piece(event, write)
           longer == Append(f[K], e)
           early  == SubSeq(f, 1, K - 1)
           pair   == <<longer, <<>>>>
<1>1. K \in Nat /\ K # 0 /\ DOMAIN f = 1 .. K /\ f[K] \in Seq(T)
  OBVIOUS
<1>2. longer \in Seq(T)
  <2> HIDE DEF e
  <2> QED BY <1>1 DEF e
<1>3. /\ early \in Seq(Seq(T)) /\ Len(early) = K - 1
      /\ \A k \in 1 .. K - 1 : early[k] = f[k]
  BY <1>1, SubSeqProperties
<1> SUFFICES /\ g \in Seq(Seq(T))
             /\ Len(g) = IF write = "whole" THEN K + 1 ELSE K
             /\ \A k \in 1 .. K - 1 : g[k] = f[k]
             /\ g[K] = IF write = "nothing" THEN f[K] ELSE longer
             /\ write = "whole" => g[K + 1] = <<>>
  BY DEF Rewritten
<1>4. CASE write = "nothing"
  <2>1. g = f
    BY <1>4 DEF AppendEvent
  <2> HIDE DEF g
  <2> QED BY <1>4, <2>1 DEF g
<1>5. CASE write = "whole"
  <2>1. g = early \o pair
    BY <1>5 DEF AppendEvent, Front, Last
  <2>2. pair \in Seq(Seq(T)) /\ Len(pair) = 2 /\ pair[1] = longer /\ pair[2] = <<>>
    <3> HIDE DEF longer
    <3> QED BY <1>2
  <2> HIDE DEF pair, early, g
  <2>3. /\ g \in Seq(Seq(T)) /\ Len(g) = (K - 1) + 2
        /\ \A k \in 1 .. (K - 1) + 2 : g[k] = IF k <= K - 1 THEN early[k] ELSE pair[k - (K - 1)]
    <3>1. /\ g \in Seq(Seq(T)) /\ Len(g) = Len(early) + Len(pair)
          /\ \A k \in 1 .. Len(early) + Len(pair) :
               g[k] = IF k <= Len(early) THEN early[k] ELSE pair[k - Len(early)]
      BY <1>3, <2>1, <2>2, ConcatProperties
    <3> QED BY <1>3, <2>2, <3>1
  <2> HIDE DEF K
  <2>4. g[K] = pair[1]
    <3>1. K \in 1 .. (K - 1) + 2 /\ ~(K <= K - 1) /\ K - (K - 1) = 1
      BY <1>1
    <3> QED BY <2>3, <3>1
  <2>5. g[K + 1] = pair[2]
    <3>1. K + 1 \in 1 .. (K - 1) + 2 /\ ~(K + 1 <= K - 1) /\ (K + 1) - (K - 1) = 2
      BY <1>1
    <3> QED BY <2>3, <3>1
  <2>6. ASSUME NEW k \in 1 .. K - 1 PROVE g[k] = f[k]
    <3>1. k \in 1 .. (K - 1) + 2 /\ k <= K - 1
      BY <1>1
    <3> QED BY <1>3, <2>3, <3>1
  <2>7. (K - 1) + 2 = K + 1
    BY <1>1
  <2> QED BY <1>5, <2>2, <2>3, <2>4, <2>5, <2>6, <2>7 DEF g, K
<1>6. CASE write \in {"torn", "unterminated"}
  <2>1. g = Append(early, longer)
    BY <1>6 DEF AppendEvent, Front, Last
  <2> HIDE DEF longer, early, g
  <2>2. /\ g \in Seq(Seq(T)) /\ Len(g) = (K - 1) + 1 /\ g[(K - 1) + 1] = longer
        /\ \A k \in 1 .. K - 1 : g[k] = early[k]
    BY <1>2, <1>3, <2>1, AppendProperties
  <2> HIDE DEF K
  <2>3. (K - 1) + 1 = K
    BY <1>1
  <2>4. \A k \in 1 .. K - 1 : g[k] = f[k]
    BY <1>3, <2>2
  <2> QED BY <1>6, <2>2, <2>3, <2>4 DEF g, K, longer
<1> QED BY <1>4, <1>5, <1>6 DEF Writes

(* What an emission adds to the history (EventEmitter.emit). *)
LEMMA EmitWritten ==
  ASSUME TypeOK, NEW s \in DOMAIN steps \ completed, NEW write \in Writes, Emit(s, write)
  PROVE  /\ written \in Seq([event : Nat \X Nat, write : Writes])
         /\ written' \in Seq([event : Nat \X Nat, write : Writes])
         /\ Len(written) \in Nat /\ DOMAIN written = 1 .. Len(written)
         /\ DOMAIN written' = 1 .. Len(written) + 1
         /\ \A i \in DOMAIN written : written'[i] = written[i]
         /\ written'[Len(written) + 1] = [event |-> <<run, s>>, write |-> write]
         /\ <<run, s>> \in Nat \X Nat
<1> DEFINE W == [event : Nat \X Nat, write : Writes]
           w == [event |-> <<run, s>>, write |-> write]
<1>1. s \in Nat /\ run \in Nat
  <2>1. DOMAIN steps = 1 .. Len(steps)
    BY RunsAreSequences DEF TypeOK
  <2> QED BY <2>1 DEF TypeOK
<1>2. w \in W /\ written \in Seq(W)
  BY <1>1 DEF TypeOK
<1>3. written' = Append(written, w)
  BY DEF Emit
<1>4. <<run, s>> \in Nat \X Nat
  BY <1>1
<1> HIDE DEF W, w
<1>5. /\ written' \in Seq(W) /\ Len(written) \in Nat /\ DOMAIN written = 1 .. Len(written)
      /\ DOMAIN written' = 1 .. Len(written) + 1
      /\ \A i \in DOMAIN written : written'[i] = written[i]
      /\ written'[Len(written) + 1] = w
  BY <1>2, <1>3
<1> QED BY <1>2, <1>4, <1>5 DEF W, w

(* No event is emitted twice: of this run only those of completed steps have
   been (EventEmitter.emit). *)
LEMMA EmitFresh ==
  ASSUME TypeOK, Fresh, NEW s \in DOMAIN steps \ completed, NEW write \in Writes, Emit(s, write)
  PROVE  /\ \A i \in DOMAIN written' :
              \/ written'[i].event[1] < run
              \/ written'[i].event[1] = run /\ written'[i].event[2] \in completed \union {s}
         /\ \A i, j \in DOMAIN written' : written'[i].event = written'[j].event => i = j
<1>0. PICK n \in Nat : n = Len(written)
  BY EmitWritten
<1>w. /\ DOMAIN written = 1 .. n /\ DOMAIN written' = 1 .. n + 1
      /\ \A i \in DOMAIN written : written'[i] = written[i]
      /\ written'[n + 1] = [event |-> <<run, s>>, write |-> write]
  BY <1>0, EmitWritten
<1>1. /\ n \in Nat /\ DOMAIN written = 1 .. n /\ DOMAIN written' = 1 .. n + 1
      /\ \A i \in 1 .. n : written'[i].event = written[i].event
      /\ written'[n + 1].event = <<run, s>>
      /\ run \in Nat
  <2>1. run \in Nat
    BY DEF TypeOK
  <2> QED BY <1>0, <1>w, <2>1
<1>2. \A i \in 1 .. n + 1 : i \in 1 .. n \/ i = n + 1
  BY <1>1
<1>3. \A i \in 1 .. n : \/ written[i].event[1] < run
                        \/ written[i].event[1] = run /\ written[i].event[2] \in completed
  BY <1>1 DEF Fresh
<1>4. \A i \in 1 .. n : written[i].event # <<run, s>>
  <2>1. s \notin completed
    OBVIOUS
  <2> QED BY <1>1, <1>3, <2>1
<1>5. \A i, j \in 1 .. n : written[i].event = written[j].event => i = j
  BY <1>1 DEF Fresh
<1>6. \A i \in 1 .. n + 1 :
        \/ written'[i].event[1] < run
        \/ written'[i].event[1] = run /\ written'[i].event[2] \in completed \union {s}
  BY <1>1, <1>2, <1>3
<1>7. \A i, j \in 1 .. n + 1 : written'[i].event = written'[j].event => i = j
  BY <1>1, <1>2, <1>4, <1>5
<1> QED BY <1>1, <1>6, <1>7

(* After an emission the lines still hold what was written to them
   (JsonlEventJournal.append). *)
LEMMA EmitLines ==
  ASSUME TypeOK, Fresh, Journal, NEW s \in DOMAIN steps \ completed, NEW write \in Writes,
         Emit(s, write)
  PROVE  file' \in Seq(Seq([of : Nat \X Nat, torn : BOOLEAN])) /\ Journal'
<1> DEFINE T == [of : Nat \X Nat, torn : BOOLEAN]
           e == Piece(<<run, s>>, write)
<1>k. PICK K \in Nat : K = Len(file)
  BY DEF TypeOK
<1>n. PICK n \in Nat : n = Len(written)
  BY EmitWritten
<1>1. e \in T /\ file \in Seq(Seq(T)) /\ file # <<>> /\ file' = AppendEvent(file, <<run, s>>, write)
  <2>1. e \in T
    BY EmitWritten DEF Piece
  <2> QED BY <2>1 DEF TypeOK, Journal, Emit
<1>2. PICK L \in [DOMAIN written -> DOMAIN file] :
        Ordered(L) /\ Ended(L) /\ Kept(L) /\ Sourced(L) /\ Once
  BY DEF Journal, Lines
<1>3. /\ n \in Nat /\ DOMAIN written = 1 .. n /\ DOMAIN written' = 1 .. n + 1
      /\ \A i \in 1 .. n : written'[i] = written[i]
      /\ written'[n + 1].event = <<run, s>> /\ written'[n + 1].write = write
  <2>1. /\ DOMAIN written = 1 .. n /\ DOMAIN written' = 1 .. n + 1
        /\ \A i \in DOMAIN written : written'[i] = written[i]
        /\ written'[n + 1] = [event |-> <<run, s>>, write |-> write]
    BY <1>n, EmitWritten
  <2> QED BY <1>n, <2>1
<1> DEFINE M == [i \in 1 .. n + 1 |-> IF i = n + 1 THEN K ELSE L[i]]
<1>4. Entry(n + 1)' = e /\ \A i \in 1 .. n : Entry(i)' = Entry(i) /\ (Whole(i)' <=> Whole(i)) /\ (Wrote(i)' <=> Wrote(i))
  BY <1>3 DEF Entry, Whole, Wrote
<1> HIDE DEF T, e
<1>5. /\ file' \in Seq(Seq(T)) /\ K \in Nat /\ K # 0 /\ DOMAIN file = 1 .. K
      /\ Len(file') = IF write = "whole" THEN K + 1 ELSE K
      /\ DOMAIN file' = 1 .. Len(file')
      /\ \A k \in 1 .. K - 1 : file'[k] = file[k]
      /\ file'[K] = IF write = "nothing" THEN file[K] ELSE Append(file[K], e)
      /\ write = "whole" => file'[K + 1] = <<>>
      /\ \A k \in 1 .. K : file[k] \in Seq(T)
  <2>1. K \in Nat /\ K # 0 /\ DOMAIN file = 1 .. K /\ \A k \in 1 .. K : file[k] \in Seq(T)
    BY <1>1, <1>k
  <2>2. Piece(<<run, s>>, write) \in T
    BY <1>1 DEF e
  <2>3. /\ file' \in Seq(Seq(T))
        /\ Len(file') = IF write = "whole" THEN K + 1 ELSE K
        /\ \A k \in 1 .. K - 1 : file'[k] = file[k]
        /\ file'[K] = IF write = "nothing" THEN file[K] ELSE Append(file[K], e)
        /\ write = "whole" => file'[K + 1] = <<>>
    <3>1. Rewritten(T, file, file', <<run, s>>, write)
      BY <1>1, <2>2, AppendedLines
    <3> QED BY <1>k, <3>1 DEF Rewritten, e
  <2>4. DOMAIN file' = 1 .. Len(file')
    BY <2>3
  <2> QED BY <2>1, <2>3, <2>4
<1>6. /\ M \in [1 .. n + 1 -> 1 .. K] /\ M[n + 1] = K
      /\ \A i \in 1 .. n : M[i] = L[i] /\ L[i] \in 1 .. K
  BY <1>2, <1>3, <1>5
<1> HIDE DEF M
<1>7. \A i \in 1 .. n + 1 : i \in 1 .. n \/ i = n + 1
  BY <1>3
<1>8. M \in [DOMAIN written' -> DOMAIN file']
  BY <1>3, <1>5, <1>6
<1>9. ASSUME NEW i \in 1 .. n + 1, NEW j \in 1 .. n + 1, i < j
      PROVE  M[i] <= M[j] /\ (Whole(i)' => M[i] < M[j])
  <2>1. i \in 1 .. n
    BY <1>3, <1>9
  <2>2. CASE j \in 1 .. n
    BY <1>2, <1>3, <1>4, <1>6, <1>9, <2>1, <2>2 DEF Ordered, Ended, Kept, Sourced, Once
  <2>3. CASE j = n + 1
    <3>1. Whole(i) => L[i] < K
      BY <1>2, <1>3, <1>k, <2>1 DEF Ordered, Ended, Kept, Sourced, Once
    <3> QED BY <1>4, <1>5, <1>6, <2>1, <2>3, <3>1
  <2> QED BY <1>7, <2>2, <2>3
<1>10. ASSUME NEW i \in 1 .. n + 1, Whole(i)' PROVE M[i] < Len(file')
  <2>1. CASE i \in 1 .. n
    <3>1. Whole(i) /\ L[i] < K
      BY <1>2, <1>3, <1>4, <1>10, <1>k, <2>1 DEF Ordered, Ended, Kept, Sourced, Once
    <3> QED BY <1>5, <1>6, <2>1, <3>1
  <2>2. CASE i = n + 1
    <3>1. write = "whole"
      BY <1>3, <1>10, <2>2 DEF Whole
    <3> QED BY <1>5, <1>6, <2>2, <3>1
  <2> QED BY <1>7, <2>1, <2>2
<1> DEFINE c == Len(file[K])
<1>11. /\ c \in Nat /\ DOMAIN file[K] = 1 .. c
       /\ write # "nothing" => /\ DOMAIN file'[K] = 1 .. c + 1 /\ file'[K][c + 1] = e
                               /\ \A m \in 1 .. c : file'[K][m] = file[K][m]
       /\ write = "nothing" => file'[K] = file[K]
  <2>1. file[K] \in Seq(T) /\ e \in T
    BY <1>1, <1>5
  <2> QED BY <1>5, <2>1
<1> HIDE DEF c
<1>12. ASSUME NEW k \in 1 .. K, NEW m \in DOMAIN file[k]
       PROVE  m \in DOMAIN file'[k] /\ file'[k][m] = file[k][m]
  <2>1. k \in 1 .. K - 1 \/ k = K
    BY <1>5
  <2>2. CASE k = K
    BY <1>11, <1>12, <2>2
  <2> QED BY <1>5, <1>12, <2>1, <2>2
<1>13. ASSUME NEW i \in 1 .. n + 1, Wrote(i)'
       PROVE  \E m \in DOMAIN file'[M[i]] : file'[M[i]][m] = Entry(i)'
  <2>1. CASE i \in 1 .. n
    <3>1. PICK m \in DOMAIN file[L[i]] : file[L[i]][m] = Entry(i)
      BY <1>2, <1>3, <1>4, <1>13, <2>1 DEF Ordered, Ended, Kept, Sourced, Once
    <3>2. L[i] \in 1 .. K /\ M[i] = L[i] /\ Entry(i)' = Entry(i)
      BY <1>4, <1>6, <2>1
    <3> QED BY <1>12, <3>1, <3>2
  <2>2. CASE i = n + 1
    <3>1. write # "nothing"
      BY <1>3, <1>13, <2>2 DEF Wrote
    <3>2. c + 1 \in DOMAIN file'[K] /\ file'[K][c + 1] = Entry(i)' /\ M[i] = K
      BY <1>4, <1>6, <1>11, <2>2, <3>1
    <3> QED BY <3>2
  <2> QED BY <1>7, <2>1, <2>2
<1>14. ASSUME NEW k \in DOMAIN file', NEW m \in DOMAIN file'[k]
       PROVE  \/ k \in 1 .. K /\ m \in DOMAIN file[k] /\ file'[k][m] = file[k][m]
              \/ k = K /\ write # "nothing" /\ m = c + 1 /\ file'[k][m] = e
  <2>1. k \in 1 .. K - 1 \/ k = K \/ (k = K + 1 /\ write = "whole")
    BY <1>5
  <2>2. CASE k \in 1 .. K - 1
    BY <1>5, <1>14, <2>2
  <2>3. CASE k = K
    <3>1. CASE write = "nothing"
      BY <1>5, <1>11, <1>14, <2>3, <3>1
    <3>2. CASE write # "nothing"
      <4>1. m \in 1 .. c \/ m = c + 1
        BY <1>11, <1>14, <2>3, <3>2
      <4> QED BY <1>5, <1>11, <2>3, <3>2, <4>1
    <3> QED BY <3>1, <3>2
  <2>4. CASE k = K + 1 /\ write = "whole"
    BY <1>5, <1>14, <2>4
  <2> QED BY <2>1, <2>2, <2>3, <2>4
<1>15. ASSUME NEW k \in DOMAIN file', NEW m \in DOMAIN file'[k]
       PROVE  \E i \in 1 .. n + 1 : M[i] = k /\ Wrote(i)' /\ file'[k][m] = Entry(i)'
  <2>1. CASE k \in 1 .. K /\ m \in DOMAIN file[k] /\ file'[k][m] = file[k][m]
    <3>1. PICK i \in 1 .. n : L[i] = k /\ Wrote(i) /\ file[k][m] = Entry(i)
      BY <1>2, <1>3, <1>5, <2>1 DEF Ordered, Ended, Kept, Sourced, Once
    <3>2. i \in 1 .. n + 1 /\ M[i] = k /\ Entry(i)' = Entry(i) /\ Wrote(i)'
      BY <1>3, <1>4, <1>6, <3>1
    <3> QED BY <2>1, <3>1, <3>2
  <2>2. CASE k = K /\ write # "nothing" /\ m = c + 1 /\ file'[k][m] = e
    <3>1. n + 1 \in 1 .. n + 1 /\ M[n + 1] = k /\ file'[k][m] = Entry(n + 1)'
      BY <1>3, <1>4, <1>6, <2>2
    <3>2. Wrote(n + 1)'
      BY <1>3, <2>2 DEF Wrote
    <3> QED BY <3>1, <3>2
  <2> QED BY <1>14, <1>15, <2>1, <2>2
<1>16. ASSUME NEW k \in 1 .. K, NEW m \in DOMAIN file[k] PROVE file[k][m].of # <<run, s>>
  <2>0. k \in DOMAIN file
    BY <1>5
  <2>1. PICK i \in 1 .. n : file[k][m] = Entry(i)
    BY <1>2, <1>3, <1>16, <2>0 DEF Sourced
  <2>2. file[k][m].of = written'[i].event /\ i \in DOMAIN written' /\ n + 1 \in DOMAIN written' /\ i # n + 1
    BY <1>3, <2>1 DEF Entry, Piece
  <2> QED BY <1>3, <2>2, EmitFresh
<1>17. e.of = <<run, s>>
  BY DEF e, Piece
<1>18. ASSUME NEW k \in DOMAIN file', NEW m \in DOMAIN file'[k], NEW o \in DOMAIN file'[k],
              file'[k][m].of = file'[k][o].of
       PROVE  m = o
  <2>1. k \in 1 .. K => \A x, y \in DOMAIN file[k] : file[k][x].of = file[k][y].of => x = y
    BY <1>2, <1>5 DEF Ordered, Ended, Kept, Sourced, Once
  <2> QED BY <1>14, <1>16, <1>17, <1>18, <2>1
<1>19. Lines(M)'
  <2>1. Ordered(M)'
    BY <1>3, <1>9 DEF Ordered
  <2>2. Ended(M)'
    BY <1>3, <1>10 DEF Ended
  <2>3. Kept(M)'
    BY <1>3, <1>13 DEF Kept
  <2>4. Sourced(M)'
    BY <1>3, <1>15 DEF Sourced
  <2>5. Once'
    BY <1>18 DEF Once
  <2> QED BY <2>1, <2>2, <2>3, <2>4, <2>5 DEF Lines
<1>20. file' # <<>>
  BY <1>5
<1> QED BY <1>5, <1>8, <1>19, <1>20 DEF T, Journal

-----------------------------------------------------------------------------
(* A set of numbers up to a bound that is not empty has a greatest one. *)
LEMMA GreatestExists ==
  ASSUME NEW N \in Nat, NEW S \in SUBSET (1 .. N), S # {}
  PROVE  \E s \in S : \A t \in S : t <= s
<1> DEFINE D == {N - s : s \in S}
<1>1. D \in SUBSET Nat /\ D # {}
  <2>1. \A s \in S : N - s \in Nat
    OBVIOUS
  <2>2. PICK s \in S : TRUE
    OBVIOUS
  <2>3. N - s \in D
    OBVIOUS
  <2> QED BY <2>1, <2>3
<1>2. PICK d \in D : \A e \in D : d <= e
  BY <1>1, LeastExists
<1>3. PICK s \in S : d = N - s
  OBVIOUS
<1>4. ASSUME NEW t \in S PROVE t <= s
  <2>1. N - t \in D /\ t \in Nat /\ s \in Nat
    OBVIOUS
  <2>2. N - s <= N - t
    BY <1>2, <1>3, <2>1
  <2> HIDE DEF D
  <2> QED BY <2>1, <2>2
<1> QED BY <1>4

(* In the state of the journal that Lines describes, replay loses little. *)
LEMMA LinesReplay ==
  ASSUME TypeOK, Fresh, Journal
  PROVE  ReplayLosesLittle
<1> DEFINE good     == {k \in DOMAIN file : Decodes(file[k])}
           C        == Cardinality(good)
           replayed == Load(file)
           At(event) == CHOOSE i \in DOMAIN written : written[i].event = event
           some(i)  == {j \in 1 .. i - 1 : written[j].write # "nothing"}
           Safe(i)  == /\ written[i].write = "whole"
                       /\ some(i) # {} =>
                            written[CHOOSE j \in some(i) : \A k \in some(i) : k <= j].write = "whole"
           T == [of : Nat \X Nat, torn : BOOLEAN]
<1>1. PICK L \in [DOMAIN written -> DOMAIN file] :
        Ordered(L) /\ Ended(L) /\ Kept(L) /\ Sourced(L) /\ Once
  BY DEF Journal, Lines
<1>2. file \in Seq(Seq(T)) /\ good \in SUBSET DOMAIN file /\ DOMAIN file \in SUBSET Nat
  BY DEF TypeOK
<1>3. DOMAIN written = 1 .. Len(written) /\ Len(written) \in Nat
  BY DEF TypeOK
<1>4. \A i, j \in DOMAIN written : written[i].event = written[j].event => i = j
  BY DEF Fresh
<1>5. replayed = EventsOf(AtPlaces(file, good))
  BY DEF Load
<1> HIDE DEF good, T
<1>6. C \in Nat /\ AtPlaces(file, good) \in Seq(Seq(T)) /\ Len(AtPlaces(file, good)) = C
  BY <1>2, Selected
<1>s. PICK f : Selects(f, file, good)
  BY <1>2, Selected
<1>7. /\ f \in [1 .. C -> good]
      /\ \A m, n \in 1 .. C : m < n => f[m] < f[n]
      /\ \A k \in good : \E n \in 1 .. C : f[n] = k
      /\ \A n \in 1 .. C : AtPlaces(file, good)[n] = file[f[n]]
  BY <1>s DEF Selects
<1> HIDE DEF C
<1>8. DOMAIN replayed = 1 .. C /\ \A n \in 1 .. C : replayed[n] = file[f[n]][1].of
  <2>1. DOMAIN AtPlaces(file, good) = 1 .. C
    BY <1>6
  <2> QED BY <1>5, <1>7, <2>1 DEF EventsOf
<1> HIDE DEF replayed
<1>9. ASSUME NEW n \in 1 .. C
      PROVE  \E i \in DOMAIN written : L[i] = f[n] /\ written[i].event = replayed[n]
  <2>1. f[n] \in DOMAIN file /\ Len(file[f[n]]) = 1
    BY <1>2, <1>7 DEF good, Decodes
  <2>2. 1 \in DOMAIN file[f[n]]
    <3>1. file[f[n]] \in Seq(T)
      BY <1>2, <2>1
    <3> QED BY <2>1, <3>1
  <2>3. PICK i \in DOMAIN written : L[i] = f[n] /\ file[f[n]][1] = Entry(i)
    BY <1>1, <2>1, <2>2 DEF Sourced
  <2> QED BY <1>8, <2>3 DEF Entry, Piece
<1>10. ASSUME NEW i \in DOMAIN written PROVE At(written[i].event) = i
  BY <1>4
<1> HIDE DEF At
<1>11. ToSet(replayed) \subseteq {written[i].event : i \in DOMAIN written}
  BY <1>8, <1>9 DEF ToSet
<1>12. ASSUME NEW n \in DOMAIN replayed, NEW m \in DOMAIN replayed, n < m
       PROVE  At(replayed[n]) < At(replayed[m])
  <2>1. PICK i \in DOMAIN written : L[i] = f[n] /\ At(replayed[n]) = i
    BY <1>8, <1>9, <1>10
  <2>2. PICK j \in DOMAIN written : L[j] = f[m] /\ At(replayed[m]) = j
    BY <1>8, <1>9, <1>10
  <2>3. L[i] < L[j] /\ L[i] \in Nat /\ L[j] \in Nat
    BY <1>2, <1>7, <1>8, <1>12, <2>1, <2>2
  <2>4. j < i => L[j] <= L[i]
    BY <1>1 DEF Ordered
  <2>5. i < j
    BY <1>3, <2>3, <2>4
  <2> QED BY <2>1, <2>2, <2>5
<1>13. ASSUME NEW i \in DOMAIN written, Safe(i)
       PROVE  written[i].event \in ToSet(replayed)
  <2>1. Whole(i) /\ Wrote(i) /\ L[i] \in DOMAIN file /\ i \in Nat
    BY <1>3, <1>13 DEF Whole, Wrote
  <2>2. PICK m \in DOMAIN file[L[i]] : file[L[i]][m] = Entry(i)
    BY <1>1, <2>1 DEF Kept
  <2>3. ASSUME NEW j \in DOMAIN written, Wrote(j), L[j] = L[i], j < i PROVE FALSE
    <3>1. j \in some(i) /\ some(i) \in SUBSET (1 .. i)
      BY <1>3, <2>1, <2>3 DEF Wrote
    <3>2. PICK c \in some(i) : \A k \in some(i) : k <= c
      BY <2>1, <3>1, GreatestExists
    <3>3. \A d \in some(i) : (\A k \in some(i) : k <= d) => d = c
      BY <1>3, <3>1, <3>2
    <3>4. (CHOOSE d \in some(i) : \A k \in some(i) : k <= d) = c
      BY <3>2, <3>3
    <3>5. written[c].write = "whole"
      BY <1>13, <3>1, <3>4
    <3>6. c \in DOMAIN written /\ c < i /\ j <= c /\ Whole(c) /\ j \in Nat /\ c \in Nat
      BY <1>3, <2>1, <3>1, <3>2, <3>5 DEF Whole
    <3>7. L[c] < L[i] /\ (j < c => L[j] <= L[c])
      BY <1>1, <3>6 DEF Ordered
    <3>8. L[c] \in Nat /\ L[i] \in Nat /\ L[j] \in Nat
      BY <1>2, <3>6
    <3> QED BY <2>3, <3>6, <3>7, <3>8
  <2>4. ASSUME NEW j \in DOMAIN written, L[j] = L[i], i < j PROVE FALSE
    <3>1. L[i] < L[j] /\ L[i] \in Nat
      BY <1>1, <1>2, <2>1, <2>4 DEF Ordered
    <3> QED BY <2>4, <3>1
  <2>5. ASSUME NEW x \in DOMAIN file[L[i]] PROVE x = m
    <3>1. PICK j \in DOMAIN written : L[j] = L[i] /\ Wrote(j) /\ file[L[i]][x] = Entry(j)
      BY <1>1, <2>1 DEF Sourced
    <3>2. j = i
      BY <1>3, <2>3, <2>4, <3>1
    <3> QED BY <1>1, <2>1, <2>2, <3>1, <3>2 DEF Once
  <2>6. file[L[i]] \in Seq(T)
    BY <1>2, <2>1
  <2>7. Len(file[L[i]]) = 1 /\ m = 1
    <3>1. DOMAIN file[L[i]] = 1 .. Len(file[L[i]]) /\ Len(file[L[i]]) \in Nat
      BY <2>6
    <3>2. 1 \in DOMAIN file[L[i]] /\ Len(file[L[i]]) \in DOMAIN file[L[i]]
      BY <3>1, m \in 1 .. Len(file[L[i]])
    <3>3. 1 = m
      BY <2>5, <3>2
    <3>4. Len(file[L[i]]) = m
      BY <2>5, <3>2
    <3> QED BY <3>3, <3>4
  <2>8. Decodes(file[L[i]])
    <3>1. file[L[i]][1] = Entry(i) /\ Entry(i).torn = FALSE
      BY <2>1, <2>2, <2>7 DEF Entry, Piece, Whole
    <3> QED BY <2>7, <3>1 DEF Decodes
  <2>9. PICK n \in 1 .. C : f[n] = L[i]
    BY <1>7, <2>1, <2>8 DEF good
  <2>10. replayed[n] = written[i].event
    BY <1>8, <2>2, <2>7, <2>9 DEF Entry, Piece
  <2> QED BY <1>8, <2>10 DEF ToSet
<1> QED BY <1>11, <1>12, <1>13 DEF ReplayLosesLittle, replayed, At

-----------------------------------------------------------------------------
(* The tools are correlated in an order without repetition
   (build_evidence_graph). *)
LEMMA OrderRanks ==
  /\ DOMAIN Order = 1 .. 13
  /\ \A i, j \in DOMAIN Order : Order[i] = Order[j] => i = j
<1>1. DOMAIN Order = 1 .. 13
  BY DEF Order
<1>2. ASSUME NEW i \in 1 .. 13, NEW j \in 1 .. 13, Order[i] = Order[j]
      PROVE  i = j
  BY <1>2 DEF Order
<1> QED BY <1>1, <1>2

(* The order of the loops is a strict order, by tools first
   (build_evidence_graph). *)
LEMMA BeforeOrder ==
  ASSUME NEW p \in Nat \X Nat \X Nat \X Nat, NEW q \in Nat \X Nat \X Nat \X Nat,
         NEW r \in Nat \X Nat \X Nat \X Nat
  PROVE  /\ Before(p, q) /\ Before(q, r) => Before(p, r)
         /\ ~ Before(p, p)
         /\ Before(p, q) => p[1] <= q[1]
         /\ p[1] < q[1] => Before(p, q)
<1>1. /\ p[1] \in Nat /\ p[2] \in Nat /\ p[3] \in Nat /\ p[4] \in Nat
      /\ q[1] \in Nat /\ q[2] \in Nat /\ q[3] \in Nat /\ q[4] \in Nat
      /\ r[1] \in Nat /\ r[2] \in Nat /\ r[3] \in Nat /\ r[4] \in Nat
  OBVIOUS
<1>2. \A x, y : Before(x, y) <=>
        \/ x[1] < y[1]
        \/ x[1] = y[1] /\ x[2] < y[2]
        \/ x[1] = y[1] /\ x[2] = y[2] /\ x[3] < y[3]
        \/ x[1] = y[1] /\ x[2] = y[2] /\ x[3] = y[3] /\ x[4] < y[4]
  BY DEF Before
<1>3. /\ Before(p, q) /\ Before(q, r) => Before(p, r)
      /\ ~ Before(p, p)
      /\ Before(p, q) => p[1] <= q[1]
      /\ p[1] < q[1] => Before(p, q)
  BY <1>1, <1>2
<1> QED BY <1>3

(* What values a finding has are texts (the adapters). *)
LEMMA ValuesAreTexts ==
  ASSUME NEW payload, PayloadOK(payload), NEW f \in DOMAIN payload.findings, NEW field
  PROVE  Values(payload.findings[f], field) \in Seq(STRING)
<1>1. CASE field \in DOMAIN payload.findings[f]
  BY <1>1 DEF PayloadOK, Values
<1>2. CASE field \notin DOMAIN payload.findings[f]
  BY <1>2 DEF Values
<1> QED BY <1>1, <1>2

(* Lists with elements from a set, for sources that are names. *)
LEMMA ListsOf ==
  ASSUME NEW A, NEW B, A \subseteq B
  PROVE  /\ \A s \in Seq(A) : s \in Seq(B)
         /\ \A x \in B : <<x>> \in Seq(B)
         /\ \A x : ToSet(<<x>>) = {x}
<1>1. ASSUME NEW s \in Seq(A) PROVE s \in Seq(B)
  <2>1. DOMAIN s = 1 .. Len(s) /\ Len(s) \in Nat /\ \A i \in 1 .. Len(s) : s[i] \in B
    OBVIOUS
  <2>2. s \in [1 .. Len(s) -> B]
    <3>1. s = [i \in 1 .. Len(s) |-> s[i]]
      OBVIOUS
    <3> QED BY <2>1, <3>1
  <2> QED BY <2>1, <2>2, SeqDef
<1>2. \A x \in B : <<x>> \in Seq(B)
  OBVIOUS
<1>3. ASSUME NEW x PROVE ToSet(<<x>>) = {x}
  BY DEF ToSet
<1> QED BY <1>1, <1>2, <1>3

(* A claim has a list of sources, also without a provider (_sources). *)
LEMMA SourcesAreNames ==
  ASSUME NEW payload, PayloadOK(payload), NEW f \in DOMAIN payload.findings,
         NEW tool \in ToSet(Order)
  PROVE  Sources(tool, payload, payload.findings[f]) \in Seq(SourceNames)
<1> DEFINE named  == IF payload.provider = "" THEN Fallback(tool) ELSE <<payload.provider>>
           parser == IF payload.parser = "" \/ payload.parser \in ToSet(named) THEN <<>> ELSE <<payload.parser>>
<1>0. STRING \subseteq SourceNames /\ ToSet(Fallback(tool)) \subseteq SourceNames
  BY DEF SourceNames
<1>1. payload.provider \in SourceNames /\ payload.parser \in SourceNames
  BY <1>0 DEF PayloadOK
<1>2. Fallback(tool) \in Seq(SourceNames)
  <2>1. Fallback(tool) = <<>> \/ \E x : Fallback(tool) = <<x>>
    BY DEF Fallback
  <2>2. ASSUME NEW x, Fallback(tool) = <<x>> PROVE Fallback(tool) \in Seq(SourceNames)
    <3>1. x \in SourceNames
      BY <1>0, <2>2, ListsOf
    <3> HIDE DEF SourceNames
    <3> QED BY <2>2, <3>1, ListsOf
  <2>3. <<>> \in Seq(SourceNames)
    OBVIOUS
  <2> QED BY <2>1, <2>2, <2>3
<1>3. named \in Seq(SourceNames)
  <2>1. <<payload.provider>> \in Seq(SourceNames)
    BY <1>1, ListsOf
  <2> QED BY <1>2, <2>1
<1> HIDE DEF named
<1>4. parser \in Seq(SourceNames)
  <2>1. <<payload.parser>> \in Seq(SourceNames)
    BY <1>1, ListsOf
  <2>2. <<>> \in Seq(SourceNames)
    OBVIOUS
  <2>3. parser \in {<<>>, <<payload.parser>>}
    OBVIOUS
  <2> HIDE DEF parser
  <2> QED BY <2>1, <2>2, <2>3
<1>5. CASE tool = "subfinder" /\ Values(payload.findings[f], "sources") # <<>>
  <2>1. "sources" \in DOMAIN payload.findings[f]
    BY <1>5 DEF Values
  <2>2. payload.findings[f].sources \in Seq(STRING)
    BY <2>1 DEF PayloadOK
  <2>4. payload.findings[f].sources \in Seq(SourceNames)
    BY <1>0, <2>2, ListsOf
  <2>3. Sources(tool, payload, payload.findings[f]) = payload.findings[f].sources
    BY <1>5 DEF Sources
  <2> QED BY <2>3, <2>4
<1>6. CASE tool = "tls"
  <2>1. Sources(tool, payload, payload.findings[f]) = named \o parser
    BY <1>6 DEF Sources, named
  <2> HIDE DEF named, parser
  <2> QED BY <1>3, <1>4, <2>1
<1>7. CASE tool # "tls" /\ ~ (tool = "subfinder" /\ Values(payload.findings[f], "sources") # <<>>)
  <2>1. Sources(tool, payload, payload.findings[f]) = named
    BY <1>7 DEF Sources, named
  <2> QED BY <1>3, <2>1
<1> QED BY <1>5, <1>6, <1>7

(* The places of a payload are among its findings, rows and values
   (build_evidence_graph). *)
LEMMA MentionsAre ==
  ASSUME NEW tool, NEW payload, NEW m \in Mentions(tool, payload)
  PROVE  \E f \in DOMAIN payload.findings, r \in DOMAIN Rows[tool] :
           \E v \in Said(payload.findings[f], Rows[tool][r]) : m = <<f, r, v>>
BY DEF Mentions

(* Whom a claim is about is the target, or named in the finding
   (build_evidence_graph). *)
LEMMA SubjectIsText ==
  ASSUME NEW payload, PayloadOK(payload), NEW f \in DOMAIN payload.findings, NEW row
  PROVE  Subject(Target, payload.findings[f], row) \in STRING
<1> DEFINE values == Values(payload.findings[f], row.subject)
           named  == {i \in DOMAIN values : values[i] # ""}
<1>1. values \in Seq(STRING)
  BY ValuesAreTexts
<1> HIDE DEF values
<1>2. Subject(Target, payload.findings[f], row) =
        IF named = {} THEN Target ELSE values[CHOOSE i \in named : \A j \in named : i <= j]
  BY DEF Subject, values
<1>3. CASE named = {}
  BY <1>2, <1>3, TargetIsText
<1>4. CASE named # {}
  <2>1. named \in SUBSET Nat /\ named \subseteq DOMAIN values
    <3>1. DOMAIN values \in SUBSET Nat
      BY <1>1
    <3> QED BY <3>1
  <2>2. \E i \in named : \A j \in named : i <= j
    BY <1>4, <2>1, LeastExists
  <2> HIDE DEF named
  <2>3. (CHOOSE i \in named : \A j \in named : i <= j) \in named
    BY <2>2
  <2>4. \A i \in DOMAIN values : values[i] \in STRING
    BY <1>1
  <2> QED BY <1>2, <1>4, <2>1, <2>3, <2>4
<1> QED BY <1>3, <1>4

(* What is claimed is a claim (EvidenceClaim). *)
LEMMA ClaimType ==
  ASSUME NEW tool \in ToSet(Order), NEW payload, PayloadOK(payload),
         NEW m \in Mentions(tool, payload)
  PROVE  Claim(Target, tool, payload, m) \in Claims
<1> DEFINE finding(f) == payload.findings[f]
           Preds == UNION {{Rows[t][r].predicate : r \in DOMAIN Rows[t]} : t \in ToSet(Order)}
<1>1. PICK f \in DOMAIN payload.findings, r \in DOMAIN Rows[tool] :
        \E v \in Said(payload.findings[f], Rows[tool][r]) : m = <<f, r, v>>
  BY MentionsAre
<1>2. PICK v \in Said(payload.findings[f], Rows[tool][r]) : m = <<f, r, v>>
  BY <1>1
<1> DEFINE row == Rows[tool][r]
<1>3. Claim(Target, tool, payload, m) =
        [subject   |-> Subject(Target, payload.findings[f], row),
         predicate |-> row.predicate,
         value     |-> Values(payload.findings[f], row.field)[v],
         sources   |-> Sources(tool, payload, payload.findings[f])]
  BY <1>2 DEF Claim
<1>4. Subject(Target, payload.findings[f], row) \in STRING
  BY SubjectIsText
<1>5. row.predicate \in Preds
  BY <1>1
<1>6. Values(payload.findings[f], row.field)[v] \in STRING
  <2>1. v \in DOMAIN Values(payload.findings[f], row.field)
    BY <1>2 DEF Said
  <2>2. Values(payload.findings[f], row.field) \in Seq(STRING)
    BY ValuesAreTexts
  <2> QED BY <2>1, <2>2
<1>7. Sources(tool, payload, payload.findings[f]) \in Seq(SourceNames)
  BY SourcesAreNames
<1>8. Claims = [subject : STRING, value : STRING, sources : Seq(SourceNames), predicate : Preds]
  BY DEF Claims
<1> HIDE DEF Preds, row
<1> QED BY <1>3, <1>4, <1>5, <1>6, <1>7, <1>8

-----------------------------------------------------------------------------
\* A claim with the sources of another with the same fact.
Joined(c, d) == [c EXCEPT !.sources = Distinct(c.sources \o d.sources)]

IsNew(cs, c, new) == (\A i \in DOMAIN cs : ~ SameFact(cs[i], c)) /\ new = Append(cs, c)

IsJoined(cs, c, new, k) ==
  /\ SameFact(cs[k], c) /\ DOMAIN new = DOMAIN cs
  /\ new[k] = Joined(cs[k], c)
  /\ \A i \in DOMAIN cs \ {k} : new[i] = cs[i]

(* What becomes of a claim: one with the same fact gets its sources, or it
   is a new one (_add_claim). *)
LEMMA AddClaimDoes ==
  ASSUME NEW cs \in Seq(Claims), NEW c \in Claims,
         \A i, j \in DOMAIN cs : SameFact(cs[i], cs[j]) => i = j
  PROVE  /\ AddClaim(cs, c) \in Seq(Claims)
         /\ \/ IsNew(cs, c, AddClaim(cs, c))
            \/ \E k \in DOMAIN cs : IsJoined(cs, c, AddClaim(cs, c), k)
<1> DEFINE more(i) == Joined(cs[i], c)
           same(i) == SameFact(cs[i], c)
           new == AddClaim(cs, c)
<1>1. DOMAIN cs = 1 .. Len(cs) /\ Len(cs) \in Nat /\ \A i \in DOMAIN cs : cs[i] \in Claims
  OBVIOUS
<1>2. ASSUME NEW i \in DOMAIN cs PROVE more(i) \in Claims
  <2>1. cs[i].sources \in Seq(SourceNames) /\ c.sources \in Seq(SourceNames)
    BY <1>1 DEF Claims
  <2>2. cs[i].sources \o c.sources \in Seq(SourceNames)
    <3> HIDE DEF SourceNames
    <3> QED BY <2>1, ConcatProperties
  <2>3. Distinct(cs[i].sources \o c.sources) \in Seq(SourceNames)
    <3> HIDE DEF SourceNames
    <3> QED BY <2>2, DistinctKeeps
  <2> HIDE DEF SourceNames
  <2> QED BY <1>1, <2>3 DEF Claims, Joined
<1> HIDE DEF more
<1>3. CASE \A i \in DOMAIN cs : ~ same(i)
  <2>1. new = Append(cs, c)
    BY <1>3 DEF AddClaim
  <2>2. Append(cs, c) \in Seq(Claims)
    BY AppendProperties
  <2> QED BY <1>3, <2>1, <2>2 DEF IsNew
<1>4. CASE \E i \in DOMAIN cs : same(i)
  <2>1. PICK k \in DOMAIN cs : same(k)
    BY <1>4
  <2>2. new = [i \in DOMAIN cs |-> IF same(i) THEN more(i) ELSE cs[i]]
    BY <1>4 DEF AddClaim, more, Joined
  <2> HIDE DEF new
  <2>3. \A i \in DOMAIN cs : new[i] \in Claims
    BY <1>1, <1>2, <2>2
  <2>4. new \in Seq(Claims)
    BY <1>1, <2>2, <2>3
  <2>5. \A i \in DOMAIN cs : same(i) => i = k
    BY <2>1 DEF SameFact
  <2>6. DOMAIN new = DOMAIN cs /\ new[k] = more(k) /\ \A i \in DOMAIN cs \ {k} : new[i] = cs[i]
    BY <2>1, <2>2, <2>5
  <2> QED BY <2>1, <2>4, <2>6 DEF more, new, IsJoined
<1> QED BY <1>3, <1>4

(* The fact of one claim is that of another, whatever their sources
   (_add_claim). *)
LEMMA FactsCompare ==
  ASSUME NEW c, NEW d, NEW e
  PROVE  /\ SameFact(c, c)
         /\ SameFact(c, d) => SameFact(d, c)
         /\ SameFact(c, d) /\ SameFact(d, e) => SameFact(c, e)
BY DEF SameFact

(* A place with another fact changes nothing of a claim (_add_claim). *)
LEMMA OtherFact ==
  ASSUME NEW P, NEW B, NEW p, NEW c, ~ SameFact(c, ClaimAt(Target, P, p)), Supported(P, B, c)
  PROVE  Supported(P, B \union {p}, c)
<1>1. Support(P, B \union {p}, c) = Support(P, B, c)
  BY DEF Support
<1>2. \A x : SupportBy(P, B \union {p}, c, x) = SupportBy(P, B, c, x)
  BY <1>1 DEF SupportBy
<1>3. ASSUME NEW m \in DOMAIN c.sources, NEW n \in DOMAIN c.sources, m < n,
             NEW q \in SupportBy(P, B \union {p}, c, c.sources[n])
      PROVE  \E w \in SupportBy(P, B \union {p}, c, c.sources[m]) : w[1] <= q[1]
  <2>1. q \in SupportBy(P, B, c, c.sources[n])
    BY <1>2
  <2>2. PICK w \in SupportBy(P, B, c, c.sources[m]) : w[1] <= q[1]
    BY <1>3, <2>1 DEF Supported, ByTools
  <2> QED BY <1>2, <2>2
<1>4. ByTools(P, B \union {p}, c)
  BY <1>3 DEF ByTools
<1> QED BY <1>1, <1>4 DEF Supported, NoneTwice

(* A claim to which the sources of one more place are added is supported by
   its places and that one, as no place before it is of a later tool
   (_add_claim). *)
LEMMA MoreSources ==
  ASSUME NEW P, NEW B, NEW p, NEW c \in Claims, NEW d,
         ClaimAt(Target, P, p) \in Claims,
         \A q \in B \union {p} : q[1] \in Nat /\ q[1] <= p[1],
         SameFact(c, ClaimAt(Target, P, p)), Supported(P, B, c),
         d = Joined(c, ClaimAt(Target, P, p))
  PROVE  Supported(P, B \union {p}, d)
<1> DEFINE BP  == B \union {p}
           old == c.sources
           add == ClaimAt(Target, P, p).sources
           s   == old \o add
           D   == Distinct(s)
<1>1. old \in Seq(SourceNames) /\ add \in Seq(SourceNames)
  BY DEF Claims
<1>2. d.sources = D /\ \A e : SameFact(d, e) <=> SameFact(c, e)
  BY DEF Claims, SameFact, Joined
<1>3. Support(P, BP, d) = Support(P, B, c) \union {p}
  BY <1>2 DEF Support
<1>4. /\ s \in Seq(SourceNames) /\ Len(s) = Len(old) + Len(add)
      /\ \A i \in 1 .. Len(old) + Len(add) :
           s[i] = IF i <= Len(old) THEN old[i] ELSE add[i - Len(old)]
  <2> HIDE DEF SourceNames, old, add
  <2> QED BY <1>1, ConcatProperties
<1>5. /\ D \in Seq(SourceNames) /\ ToSet(D) = ToSet(s) /\ IsInjective(D)
      /\ \A m, n \in DOMAIN D : m < n =>
           \E a, b \in DOMAIN s : /\ a < b /\ s[a] = D[m] /\ s[b] = D[n]
                                  /\ \A i \in DOMAIN s : s[i] = s[b] => b <= i
  <2> HIDE DEF SourceNames, s
  <2> QED BY <1>4, DistinctKeeps
<1>6. /\ DOMAIN s = 1 .. Len(old) + Len(add) /\ DOMAIN old = 1 .. Len(old)
      /\ DOMAIN add = 1 .. Len(add) /\ Len(old) \in Nat /\ Len(add) \in Nat
  <2> HIDE DEF SourceNames, old, add, s
  <2> QED BY <1>1, <1>4
<1> HIDE DEF s, D
<1>7. ToSet(s) = ToSet(old) \union ToSet(add)
  <2> HIDE DEF old, add
  <2>1. ASSUME NEW i \in DOMAIN add
        PROVE  Len(old) + i \in DOMAIN s /\ s[Len(old) + i] = add[i]
    BY <1>4, <1>6
  <2>2. \A i \in DOMAIN old : i \in DOMAIN s /\ s[i] = old[i]
    BY <1>4, <1>6
  <2>3. ASSUME NEW i \in DOMAIN s
        PROVE  (\E j \in DOMAIN old : s[i] = old[j]) \/ (\E j \in DOMAIN add : s[i] = add[j])
    <3>1. CASE i <= Len(old)
      BY <1>4, <1>6, <3>1
    <3>2. CASE ~ (i <= Len(old))
      <4>1. i - Len(old) \in DOMAIN add /\ s[i] = add[i - Len(old)]
        BY <1>4, <1>6, <3>2
      <4> QED BY <4>1
    <3> QED BY <3>1, <3>2
  <2> QED BY <2>1, <2>2, <2>3 DEF ToSet
<1>8. ToSet(old) = SourcesAt(P, Support(P, B, c))
  BY DEF Supported
<1>9. ToSet(d.sources) = SourcesAt(P, Support(P, BP, d))
  <2>1. SourcesAt(P, Support(P, BP, d)) = SourcesAt(P, Support(P, B, c)) \union ToSet(add)
    BY <1>3 DEF SourcesAt
  <2> HIDE DEF old, add
  <2> QED BY <1>2, <1>5, <1>7, <1>8, <2>1
<1>10. ASSUME NEW m \in DOMAIN D, NEW n \in DOMAIN D, m < n,
              NEW q \in SupportBy(P, BP, d, D[n])
       PROVE  \E w \in SupportBy(P, BP, d, D[m]) : w[1] <= q[1]
  <2>1. q \in Support(P, BP, d) /\ D[n] \in ToSet(ClaimAt(Target, P, q).sources)
    BY DEF SupportBy
  <2>2. PICK v \in Support(P, BP, d) : D[m] \in ToSet(ClaimAt(Target, P, v).sources)
    <3>1. D[m] \in ToSet(d.sources)
      BY <1>2 DEF ToSet
    <3> QED BY <1>9, <3>1 DEF SourcesAt
  <2>3. CASE q = p
    <3>1. v \in BP /\ v \in SupportBy(P, BP, d, D[m])
      BY <2>2 DEF Support, SupportBy
    <3> QED BY <2>3, <3>1
  <2>4. CASE q # p
    <3> HIDE DEF old, add
    <3>1. q \in Support(P, B, c)
      BY <1>3, <2>1, <2>4
    <3>2. D[n] \in ToSet(old)
      BY <1>8, <2>1, <3>1 DEF SourcesAt
    <3>3. PICK i \in DOMAIN old : old[i] = D[n]
      BY <3>2 DEF ToSet
    <3>4. PICK a \in DOMAIN s, b \in DOMAIN s :
            /\ a < b /\ s[a] = D[m] /\ s[b] = D[n]
            /\ \A j \in DOMAIN s : s[j] = s[b] => b <= j
      BY <1>5, <1>10
    <3>5. i \in DOMAIN s /\ s[i] = s[b]
      BY <1>4, <1>6, <3>3, <3>4
    <3>6. a \in DOMAIN old /\ b \in DOMAIN old /\ s[a] = old[a] /\ s[b] = old[b]
      <4>1. b <= i /\ i <= Len(old)
        BY <1>6, <3>3, <3>4, <3>5
      <4>2. a \in 1 .. Len(old) /\ b \in 1 .. Len(old)
        BY <1>6, <3>3, <3>4, <4>1
      <4> QED BY <1>4, <1>6, <4>2
    <3>7. q \in SupportBy(P, B, c, old[b])
      BY <2>1, <3>1, <3>4, <3>6 DEF SupportBy
    <3>8. PICK w \in SupportBy(P, B, c, old[a]) : w[1] <= q[1]
      BY <3>4, <3>6, <3>7 DEF Supported, ByTools, old
    <3>9. w \in SupportBy(P, BP, d, D[m])
      BY <1>3, <3>4, <3>6, <3>8 DEF SupportBy
    <3> QED BY <3>8, <3>9
  <2> QED BY <2>3, <2>4
<1>11. ByTools(P, BP, d)
  <2> HIDE DEF BP
  <2> QED BY <1>2, <1>10 DEF ByTools
<1>12. NoneTwice(P, BP, d)
  BY <1>2, <1>5 DEF NoneTwice
<1> QED BY <1>3, <1>9, <1>11, <1>12 DEF Supported

(* The graph of some places, and the claim of the next, make the graph of
   them all (build_evidence_graph, _add_claim). *)
LEMMA GraphStep ==
  ASSUME NEW P, NEW B, NEW p, NEW cs \in Seq(Claims),
         ClaimAt(Target, P, p) \in Claims,
         \A q \in B \union {p} : q[1] \in Nat /\ q[1] <= p[1],
         GraphOf(P, B, cs)
  PROVE  LET new == AddClaim(cs, ClaimAt(Target, P, p))
         IN  new \in Seq(Claims) /\ GraphOf(P, B \union {p}, new)
<1> DEFINE c   == ClaimAt(Target, P, p)
           new == AddClaim(cs, c)
           BP  == B \union {p}
<1>1. /\ \A i, j \in DOMAIN cs : SameFact(cs[i], cs[j]) => i = j
      /\ \A q \in B : \E i \in DOMAIN cs : SameFact(cs[i], ClaimAt(Target, P, q))
      /\ \A i \in DOMAIN cs : Supported(P, B, cs[i])
  BY DEF GraphOf
<1>2. \A i \in DOMAIN cs : cs[i] \in Claims
  OBVIOUS
<1>3. c \in Claims
  OBVIOUS
<1> HIDE DEF c
<1>4. /\ new \in Seq(Claims)
      /\ \/ IsNew(cs, c, new)
         \/ \E k \in DOMAIN cs : IsJoined(cs, c, new, k)
  BY <1>1, <1>3, AddClaimDoes
<1> HIDE DEF new
<1>5. ASSUME NEW k \in DOMAIN cs, IsJoined(cs, c, new, k)
      PROVE  GraphOf(P, BP, new)
  <2>0. /\ SameFact(cs[k], c) /\ DOMAIN new = DOMAIN cs
        /\ new[k] = Joined(cs[k], c)
        /\ \A i \in DOMAIN cs \ {k} : new[i] = cs[i]
    BY <1>5 DEF IsJoined
  <2>1. \A i \in DOMAIN cs : \A e : SameFact(new[i], e) <=> SameFact(cs[i], e)
    BY <1>2, <2>0 DEF SameFact, Claims, Joined
  <2>2. \A i, j \in DOMAIN new : SameFact(new[i], new[j]) => i = j
    BY <1>1, <2>0, <2>1, FactsCompare
  <2>3. ASSUME NEW q \in BP PROVE \E i \in DOMAIN new : SameFact(new[i], ClaimAt(Target, P, q))
    BY <1>1, <2>0, <2>1 DEF c
  <2>4. ASSUME NEW i \in DOMAIN new PROVE Supported(P, BP, new[i])
    <3>1. CASE i = k
      <4>1. new[k] = Joined(cs[k], ClaimAt(Target, P, p))
        BY <2>0 DEF c
      <4>2. SameFact(cs[k], ClaimAt(Target, P, p)) /\ cs[k] \in Claims /\ Supported(P, B, cs[k])
        BY <1>1, <1>2, <2>0 DEF c
      <4>3. Supported(P, B \union {p}, new[k])
        BY <4>1, <4>2, MoreSources
      <4> QED BY <3>1, <4>3
    <3>2. CASE i # k
      <4>1. new[i] = cs[i] /\ i \in DOMAIN cs
        BY <2>0, <3>2
      <4>2. ~ SameFact(cs[i], ClaimAt(Target, P, p))
        BY <1>1, <2>0, <3>2, <4>1, FactsCompare DEF c
      <4> QED BY <1>1, <4>1, <4>2, OtherFact
    <3> QED BY <3>1, <3>2
  <2> QED BY <2>2, <2>3, <2>4 DEF GraphOf
<1>6. ASSUME IsNew(cs, c, new)
      PROVE  GraphOf(P, BP, new)
  <2>0. (\A i \in DOMAIN cs : ~ SameFact(cs[i], c)) /\ new = Append(cs, c)
    BY <1>6 DEF IsNew
  <2> DEFINE n == Len(cs)
  <2>1. n \in Nat /\ DOMAIN cs = 1 .. n
    OBVIOUS
  <2>2. DOMAIN new = 1 .. n + 1 /\ new[n + 1] = c /\ \A i \in 1 .. n : new[i] = cs[i]
    <3>1. Len(new) = n + 1 /\ new[n + 1] = c /\ \A i \in 1 .. n : new[i] = cs[i]
      BY <1>3, <2>0, AppendProperties
    <3> QED BY <1>4, <3>1
  <2> HIDE DEF n
  <2>3. ASSUME NEW i \in DOMAIN new PROVE i \in DOMAIN cs \/ i = n + 1
    BY <2>1, <2>2
  <2>4. ASSUME NEW i \in DOMAIN new, NEW j \in DOMAIN new, SameFact(new[i], new[j]) PROVE i = j
    BY <1>1, <2>0, <2>1, <2>2, <2>3, <2>4, FactsCompare
  <2>5. ASSUME NEW q \in BP PROVE \E i \in DOMAIN new : SameFact(new[i], ClaimAt(Target, P, q))
    <3>1. CASE q = p
      <4>1. n + 1 \in DOMAIN new /\ new[n + 1] = ClaimAt(Target, P, q)
        BY <2>1, <2>2, <3>1 DEF c
      <4> QED BY <4>1, FactsCompare
    <3>2. CASE q \in B
      <4>1. PICK i \in DOMAIN cs : SameFact(cs[i], ClaimAt(Target, P, q))
        BY <1>1, <3>2
      <4>2. i \in DOMAIN new /\ new[i] = cs[i]
        BY <2>1, <2>2
      <4> QED BY <4>1, <4>2
    <3> QED BY <3>1, <3>2
  <2>6. ASSUME NEW i \in DOMAIN new PROVE Supported(P, BP, new[i])
    <3>1. CASE i \in DOMAIN cs
      <4>1. new[i] = cs[i]
        BY <2>1, <2>2, <3>1
      <4>2. ~ SameFact(cs[i], ClaimAt(Target, P, p)) /\ Supported(P, B, cs[i])
        BY <1>1, <2>0, <3>1 DEF c
      <4> QED BY <4>1, <4>2, OtherFact
    <3>2. CASE i = n + 1
      <4>1. Support(P, BP, c) = {p}
        <5>1. ASSUME NEW q \in B, SameFact(c, ClaimAt(Target, P, q)) PROVE FALSE
          BY <1>1, <2>0, <5>1, FactsCompare
        <5>2. SameFact(c, ClaimAt(Target, P, p))
          BY FactsCompare DEF c
        <5> QED BY <5>1, <5>2 DEF Support
      <4>2. ToSet(c.sources) = SourcesAt(P, Support(P, BP, c))
        BY <4>1 DEF c, SourcesAt
      <4>3. ASSUME NEW m \in DOMAIN c.sources, NEW o \in DOMAIN c.sources,
                   NEW q \in SupportBy(P, BP, c, c.sources[o])
            PROVE  \E w \in SupportBy(P, BP, c, c.sources[m]) : w[1] <= q[1]
        <5>1. q = p /\ p[1] <= p[1]
          BY <4>1, <4>3 DEF SupportBy
        <5>2. p \in SupportBy(P, BP, c, c.sources[m])
          BY <4>1 DEF SupportBy, c, ToSet
        <5> QED BY <5>1, <5>2
      <4>4. ByTools(P, BP, c)
        BY <4>3 DEF ByTools
      <4>5. NoneTwice(P, BP, c)
        BY <4>1 DEF c, NoneTwice
      <4> QED BY <2>2, <3>2, <4>1, <4>2, <4>4, <4>5 DEF Supported
    <3> QED BY <2>3, <3>1, <3>2
  <2> QED BY <2>4, <2>5, <2>6 DEF GraphOf
<1> QED BY <1>4, <1>5, <1>6 DEF new, c

-----------------------------------------------------------------------------
(* Rows are numbered, whatever the tool (build_evidence_graph). *)
LEMMA RowNumbers ==
  ASSUME NEW i \in DOMAIN Order
  PROVE  DOMAIN Rows[Order[i]] \subseteq Nat
<1>1. i \in 1 .. 13
  BY OrderRanks
<1>2. Order[i] \in {"dns", "subfinder", "rdap", "ipintel", "fingerprint", "httpx", "whatweb",
                   "katana", "rpcinfo", "smbclient", "naabu", "sslyze", "tls"}
  BY <1>1 DEF Order
<1>3. /\ DOMAIN Rows.dns = 1 .. 2         /\ DOMAIN Rows.subfinder = 1 .. 1
      /\ DOMAIN Rows.rdap = 1 .. 5        /\ DOMAIN Rows.ipintel = 1 .. 3
      /\ DOMAIN Rows.fingerprint = 1 .. 2 /\ DOMAIN Rows.httpx = 1 .. 2
      /\ DOMAIN Rows.whatweb = 1 .. 2     /\ DOMAIN Rows.katana = 1 .. 2
      /\ DOMAIN Rows.rpcinfo = 1 .. 1     /\ DOMAIN Rows.smbclient = 1 .. 1
      /\ DOMAIN Rows.naabu = 1 .. 1       /\ DOMAIN Rows.sslyze = 1 .. 2
      /\ DOMAIN Rows.tls = 1 .. 1
  BY DEF Rows, WebServer
<1> QED BY <1>2, <1>3

(* A place is four numbers, that of a tool first, and there a claim is made
   (build_evidence_graph). *)
LEMMA PlacesAre ==
  ASSUME NEW P, \A t \in DOMAIN P : PayloadOK(P[t]), NEW p \in Places(P)
  PROVE  /\ p \in Nat \X Nat \X Nat \X Nat
         /\ p[1] \in DOMAIN Order /\ Order[p[1]] \in DOMAIN P
         /\ <<p[2], p[3], p[4]>> \in Mentions(Order[p[1]], P[Order[p[1]]])
         /\ ClaimAt(Target, P, p) \in Claims
<1>1. PICK i \in DOMAIN Order : /\ Order[i] \in DOMAIN P
                                /\ \E m \in Mentions(Order[i], P[Order[i]]) : p = <<i, m[1], m[2], m[3]>>
  BY DEF Places
<1>2. PICK m \in Mentions(Order[i], P[Order[i]]) : p = <<i, m[1], m[2], m[3]>>
  BY <1>1
<1> DEFINE payload == P[Order[i]]
           tool    == Order[i]
<1>3. PICK f \in DOMAIN payload.findings, r \in DOMAIN Rows[tool] :
        \E v \in Said(payload.findings[f], Rows[tool][r]) : m = <<f, r, v>>
  BY MentionsAre
<1>4. PICK v \in Said(payload.findings[f], Rows[tool][r]) : m = <<f, r, v>>
  BY <1>3
<1>5. p = <<i, f, r, v>>
  BY <1>2, <1>4
<1>6. PayloadOK(payload)
  BY <1>1
<1>7. i \in Nat /\ f \in Nat /\ r \in Nat /\ v \in Nat
  <2>1. i \in Nat
    BY OrderRanks
  <2>2. f \in Nat
    BY <1>6 DEF PayloadOK
  <2>3. r \in Nat
    BY RowNumbers
  <2>4. v \in DOMAIN Values(payload.findings[f], Rows[tool][r].field)
    BY DEF Said
  <2>5. Values(payload.findings[f], Rows[tool][r].field) \in Seq(STRING)
    BY <1>6, ValuesAreTexts
  <2>6. v \in Nat
    BY <2>4, <2>5
  <2> QED BY <2>1, <2>2, <2>3, <2>6
<1>8. tool \in ToSet(Order)
  BY DEF ToSet
<1>9. ClaimAt(Target, P, p) = Claim(Target, tool, payload, m)
  BY <1>4, <1>5 DEF ClaimAt
<1>10. Claim(Target, tool, payload, m) \in Claims
  BY <1>6, <1>8, ClaimType
<1>11. p[1] = i /\ <<p[2], p[3], p[4]>> = m
  BY <1>4, <1>5
<1>12. p \in Nat \X Nat \X Nat \X Nat
  BY <1>5, <1>7
<1> QED BY <1>1, <1>9, <1>10, <1>11, <1>12

(* What has been gathered is what adapters answer (handle_recon). *)
LEMMA GatheredPayloads ==
  ASSUME TypeOK, NEW n \in 0 .. Len(steps), Gathered(n)
  PROVE  \A t \in DOMAIN payloads : PayloadOK(payloads[t])
<1>1. Len(steps) \in Nat /\ DOMAIN steps = 1 .. Len(steps) /\ \A s \in DOMAIN steps : PayloadOK(steps[s].payload)
  BY RunsAreSequences DEF TypeOK
<1>2. 1 .. n \subseteq DOMAIN steps
  BY <1>1
<1> QED BY <1>1, <1>2 DEF Gathered

(* The next result of a tool takes the place of the one before it
   (handle_recon). *)
LEMMA CollectGathers ==
  ASSUME TypeOK, Progress, CollectResult
  PROVE  /\ Gathered(index - 1)'
         /\ DOMAIN payloads' \subseteq {steps[s].tool : s \in DOMAIN steps}
<1> DEFINE n == index
           t == steps[n].tool
<1>1. /\ n \in Nat \ {0} /\ n <= Len(steps) /\ Len(steps) \in Nat /\ DOMAIN steps = 1 .. Len(steps)
      /\ steps' = steps /\ index' = n + 1
  BY RunsAreSequences DEF TypeOK, CollectResult
<1>2. /\ DOMAIN payloads = {steps[s].tool : s \in 1 .. n - 1}
      /\ \A u \in DOMAIN payloads : \E s \in 1 .. n - 1 :
           /\ steps[s].tool = u /\ payloads[u] = steps[s].payload
           /\ \A v \in 1 .. n - 1 : steps[v].tool = u => v <= s
  BY DEF CollectResult, Progress, Gathered
<1>3. /\ DOMAIN payloads' = DOMAIN payloads \union {t}
      /\ payloads'[t] = steps[n].payload
      /\ \A u \in DOMAIN payloads \ {t} : payloads'[u] = payloads[u]
  BY DEF CollectResult
<1> HIDE DEF n
<1>4. 1 .. n = (1 .. n - 1) \union {n} /\ 1 .. n \subseteq DOMAIN steps
  BY <1>1
<1>5. DOMAIN payloads' = {steps[s].tool : s \in 1 .. n}
  BY <1>2, <1>3, <1>4
<1>6. ASSUME NEW u \in DOMAIN payloads'
      PROVE  \E s \in 1 .. n : /\ steps[s].tool = u /\ payloads'[u] = steps[s].payload
                               /\ \A v \in 1 .. n : steps[v].tool = u => v <= s
  <2>1. CASE u = t
    <3>1. n \in 1 .. n /\ \A v \in 1 .. n : v <= n
      BY <1>1
    <3> QED BY <1>3, <2>1, <3>1
  <2>2. CASE u # t
    <3>1. u \in DOMAIN payloads /\ payloads'[u] = payloads[u]
      BY <1>3, <2>2
    <3>2. PICK s \in 1 .. n - 1 :
            /\ steps[s].tool = u /\ payloads[u] = steps[s].payload
            /\ \A v \in 1 .. n - 1 : steps[v].tool = u => v <= s
      BY <1>2, <3>1
    <3> QED BY <1>4, <2>2, <3>1, <3>2
  <2> QED BY <2>1, <2>2
<1>7. DOMAIN payloads' \subseteq {steps[s].tool : s \in DOMAIN steps}
  BY <1>4, <1>5
<1>8. index' - 1 = n
  BY <1>1
<1> QED BY <1>1, <1>5, <1>6, <1>7, <1>8 DEF Gathered, n

(* At the start nothing is claimed, as no place has been come to
   (build_evidence_graph). *)
LEMMA StartGraph ==
  ASSUME TypeOK, place = Start, claims = <<>>, Gathered(Len(steps))
  PROVE  Graph
<1>1. Len(steps) \in 0 .. Len(steps)
  BY RunsAreSequences DEF TypeOK
<1>2. \A t \in DOMAIN payloads : PayloadOK(payloads[t])
  BY <1>1, GatheredPayloads
<1>3. ASSUME NEW p \in Places(payloads) PROVE Before(place, p)
  <2>1. p \in Nat \X Nat \X Nat \X Nat /\ p[1] \in 1 .. 13
    BY <1>2, PlacesAre, OrderRanks
  <2>2. Start \in Nat \X Nat \X Nat \X Nat /\ Start[1] < p[1]
    BY <2>1 DEF Start
  <2> QED BY <2>1, <2>2, BeforeOrder
<1>4. Behind = {}
  BY <1>3 DEF Behind
<1>5. DOMAIN claims = {}
  OBVIOUS
<1> QED BY <1>4, <1>5 DEF Graph, GraphOf

(* The claim of the next place is added to the graph of those before it
   (build_evidence_graph). *)
LEMMA NextClaim ==
  ASSUME TypeOK, Progress, AddNextClaim
  PROVE  place' \in Nat \X Nat \X Nat \X Nat /\ claims' \in Seq(Claims) /\ Graph'
<1> DEFINE Nat4 == Nat \X Nat \X Nat \X Nat
<1>1. PICK p \in Ahead : /\ \A q \in Ahead \ {p} : Before(p, q)
                         /\ claims' = AddClaim(claims, ClaimAt(Target, payloads, p))
                         /\ place' = p
  BY DEF AddNextClaim
<1>2. Gathered(Len(steps)) /\ Graph /\ payloads' = payloads
  BY DEF Progress, AddNextClaim
<1>3. \A t \in DOMAIN payloads : PayloadOK(payloads[t])
  <2>1. Len(steps) \in 0 .. Len(steps)
    BY RunsAreSequences DEF TypeOK
  <2> QED BY <1>2, <2>1, GatheredPayloads
<1>4. ASSUME NEW q \in Places(payloads)
      PROVE  q \in Nat4 /\ q[1] \in Nat /\ ClaimAt(Target, payloads, q) \in Claims
  BY <1>3, PlacesAre, OrderRanks
<1>5. place \in Nat4 /\ p \in Nat4 /\ p \in Places(payloads) /\ Before(place, p) /\ p[1] \in Nat
  BY <1>4 DEF TypeOK, Ahead
<1>6. ASSUME NEW q \in Places(payloads)
      PROVE  ~ Before(p, q) <=> ~ Before(place, q) \/ q = p
  <2>1. q \in Nat4
    BY <1>4
  <2>2. Before(p, q) => Before(place, q) /\ q # p
    <3> HIDE DEF Nat4
    <3>1. Before(place, p) /\ Before(p, q) => Before(place, q)
      BY <1>5, <2>1, BeforeOrder DEF Nat4
    <3>2. ~ Before(p, p)
      BY <1>5, BeforeOrder DEF Nat4
    <3> QED BY <1>5, <3>1, <3>2
  <2>3. Before(place, q) /\ q # p => Before(p, q)
    BY <1>1 DEF Ahead
  <2> QED BY <2>2, <2>3
<1>7. Behind' = Behind \union {p}
  BY <1>1, <1>2, <1>5, <1>6 DEF Behind
<1>8. ASSUME NEW q \in Behind \union {p} PROVE q[1] \in Nat /\ q[1] <= p[1]
  <2>1. CASE q = p
    BY <1>5, <2>1
  <2>2. CASE q \in Behind
    <3>1. q \in Nat4 /\ q[1] \in Nat /\ ~ Before(place, q)
      BY <1>4, <2>2 DEF Behind
    <3>2. ~ Before(p, q)
      BY <1>6, <2>2, <3>1 DEF Behind
    <3>3. ~ (p[1] < q[1])
      BY <1>5, <3>1, <3>2, BeforeOrder
    <3> QED BY <1>5, <3>1, <3>3
  <2> QED BY <2>1, <2>2
<1>9. claims \in Seq(Claims) /\ GraphOf(payloads, Behind, claims) /\ ClaimAt(Target, payloads, p) \in Claims
  BY <1>2, <1>4, <1>5 DEF TypeOK, Graph
<1> DEFINE new == AddClaim(claims, ClaimAt(Target, payloads, p))
<1>10. new \in Seq(Claims) /\ GraphOf(payloads, Behind \union {p}, new)
  <2> HIDE DEF new
  <2> QED BY <1>8, <1>9, GraphStep DEF new
<1> HIDE DEF new
<1>11. claims' = new
  BY <1>1 DEF new
<1>12. Graph'
  BY <1>2, <1>7, <1>10, <1>11 DEF Graph
<1> QED BY <1>1, <1>5, <1>10, <1>11, <1>12

-----------------------------------------------------------------------------
(* The journal is as it was if nothing is written. *)
LEMMA SameJournal ==
  ASSUME Journal, UNCHANGED <<file, written>>
  PROVE  Journal'
<1>1. PICK L \in [DOMAIN written -> DOMAIN file] :
        Ordered(L) /\ Ended(L) /\ Kept(L) /\ Sourced(L) /\ Once
  BY DEF Journal, Lines
<1>2. Ordered(L)' /\ Ended(L)' /\ Kept(L)' /\ Sourced(L)' /\ Once'
  BY <1>1 DEF Ordered, Ended, Kept, Sourced, Once, Whole, Wrote, Entry
<1> QED BY <1>1, <1>2 DEF Journal, Lines

(* Events are of runs with a number (ExecutionEvent). *)
LEMMA EventRuns ==
  ASSUME NEW w \in Seq([event : Nat \X Nat, write : Writes]), NEW i \in DOMAIN w
  PROVE  w[i].event[1] \in Nat
<1>1. w[i] \in [event : Nat \X Nat, write : Writes]
  <2> DEFINE W == [event : Nat \X Nat, write : Writes]
  <2>1. w \in Seq(W)
    OBVIOUS
  <2> HIDE DEF W
  <2>2. w[i] \in W
    BY <2>1
  <2> QED BY <2>2 DEF W
<1> QED BY <1>1

(* The next run starts with nothing, but the journal and its history. *)
LEMMA RestartInv ==
  ASSUME TypeOK, Restart, Journal',
         file' \in Seq(Seq([of : Nat \X Nat, torn : BOOLEAN])),
         written' \in Seq([event : Nat \X Nat, write : Writes]),
         \A i \in DOMAIN written' : written'[i].event[1] <= run,
         \A i, j \in DOMAIN written' : written'[i].event = written'[j].event => i = j
  PROVE  IInv'
<1>1. /\ run \in Nat /\ run' = run + 1 /\ completed' = {} /\ steps' \in Runs
      /\ at' = "running" /\ index' = 1
      /\ payloads' = NoPayloads /\ place' = Start /\ claims' = <<>>
  BY DEF TypeOK, Restart
<1>2. TypeOK'
  BY <1>1 DEF TypeOK, NoPayloads, Start
<1>3. Fresh'
  <2>1. ASSUME NEW i \in DOMAIN written' PROVE written'[i].event[1] < run'
    <3>1. written'[i].event[1] \in Nat
      BY EventRuns
    <3> QED BY <1>1, <3>1
  <2> QED BY <2>1 DEF Fresh
<1>4. Progress'
  BY <1>1 DEF Progress
<1> QED BY <1>2, <1>3, <1>4 DEF IInv

(* IInv holds at first: the file is empty, and nothing has been written. *)
LEMMA InitInv ==
  ASSUME Init
  PROVE  IInv
<1>1. TypeOK
  BY DEF Init, TypeOK, NoFile, NoPayloads, Start
<1>2. Fresh
  BY DEF Init, Fresh
<1>3. Journal
  <2> DEFINE L == [i \in {} |-> 1]
  <2>1. file = << <<>> >> /\ written = <<>> /\ DOMAIN written = {} /\ DOMAIN file = {1} /\ DOMAIN file[1] = {}
    BY DEF Init, NoFile
  <2>2. L \in [DOMAIN written -> DOMAIN file]
    BY <2>1
  <2>3. Lines(L)
    BY <2>1 DEF Lines, Ordered, Ended, Kept, Sourced, Once
  <2> QED BY <2>1, <2>2, <2>3 DEF Journal
<1>4. Progress
  BY DEF Init, Progress
<1> QED BY <1>1, <1>2, <1>3, <1>4 DEF IInv

(* An emission and what follows from it for the next state: either the step
   has completed, or the program has ended. *)
LEMMA EmitKeeps ==
  ASSUME TypeOK, Fresh, Journal, NEW s \in DOMAIN steps \ completed, NEW write \in Writes,
         Emit(s, write)
  PROVE  /\ file' \in Seq(Seq([of : Nat \X Nat, torn : BOOLEAN])) /\ Journal'
         /\ written' \in Seq([event : Nat \X Nat, write : Writes])
         /\ \A i \in DOMAIN written' : written'[i].event[1] <= run
         /\ \A i, j \in DOMAIN written' : written'[i].event = written'[j].event => i = j
<1>1. run \in Nat
  BY DEF TypeOK
<1>2. /\ \A i \in DOMAIN written' :
           \/ written'[i].event[1] < run
           \/ written'[i].event[1] = run /\ written'[i].event[2] \in completed \union {s}
      /\ \A i, j \in DOMAIN written' : written'[i].event = written'[j].event => i = j
  BY EmitFresh
<1>3. written' \in Seq([event : Nat \X Nat, write : Writes])
  BY EmitWritten
<1>4. ASSUME NEW i \in DOMAIN written' PROVE written'[i].event[1] <= run
  <2>1. written'[i].event[1] \in Nat
    BY <1>3, EventRuns
  <2>2. written'[i].event[1] < run \/ written'[i].event[1] = run
    BY <1>2
  <2> QED BY <1>1, <2>1, <2>2
<1> QED BY <1>2, <1>3, <1>4, EmitLines

(* Nothing is written before the next run: what was, still is. *)
LEMMA IdleRestart ==
  ASSUME TypeOK, Fresh, Journal, UNCHANGED <<file, written>>, Restart
  PROVE  IInv'
<1>1. /\ file' \in Seq(Seq([of : Nat \X Nat, torn : BOOLEAN]))
      /\ written' \in Seq([event : Nat \X Nat, write : Writes])
  BY DEF TypeOK
<1>2. Journal'
  BY SameJournal
<1>3. run \in Nat /\ written' = written
  BY DEF TypeOK
<1>4. ASSUME NEW i \in DOMAIN written' PROVE written'[i].event[1] <= run
  <2>1. written'[i].event[1] \in Nat
    BY <1>1, EventRuns
  <2>2. written'[i].event[1] < run \/ written'[i].event[1] = run
    BY <1>3 DEF Fresh
  <2> QED BY <1>3, <2>1, <2>2
<1>5. \A i, j \in DOMAIN written' : written'[i].event = written'[j].event => i = j
  BY <1>3 DEF Fresh
<1> QED BY <1>1, <1>2, <1>4, <1>5, RestartInv

(* Every step preserves IInv. *)
LEMMA StepInv ==
  ASSUME IInv, [Next]_vars
  PROVE  IInv'
<1> USE DEF IInv
<1>1. CASE CompleteStep
  <2>1. PICK s \in DOMAIN steps \ completed, write \in Writes :
          Emit(s, write) /\ completed' = completed \union {s}
    BY <1>1 DEF CompleteStep
  <2>2. at = "running" /\ UNCHANGED <<run, steps, at, index, payloads, place, claims>>
    BY <1>1 DEF CompleteStep
  <2>3. /\ file' \in Seq(Seq([of : Nat \X Nat, torn : BOOLEAN])) /\ Journal'
        /\ written' \in Seq([event : Nat \X Nat, write : Writes])
    BY <2>1, EmitKeeps
  <2>4. TypeOK'
    BY <2>1, <2>2, <2>3 DEF TypeOK
  <2>5. Fresh'
    BY <2>1, <2>2, EmitFresh DEF Fresh
  <2>6. Progress'
    BY <2>2 DEF Progress
  <2> QED BY <2>3, <2>4, <2>5, <2>6
<1>2. CASE Crash
  <2>1. Restart
    BY <1>2 DEF Crash
  <2>2. CASE UNCHANGED <<file, written>>
    BY <2>1, <2>2, IdleRestart
  <2>3. CASE \E s \in DOMAIN steps \ completed, write \in Writes : Emit(s, write)
    <3>1. PICK s \in DOMAIN steps \ completed, write \in Writes : Emit(s, write)
      BY <2>3
    <3> QED BY <2>1, <3>1, EmitKeeps, RestartInv
  <2> QED BY <1>2, <2>2, <2>3 DEF Crash
<1>3. CASE Cancel
  <2>1. /\ at' = "ended"
        /\ UNCHANGED <<run, steps, completed, file, written, index, payloads, place, claims>>
    BY <1>3 DEF Cancel
  <2>2. TypeOK' /\ Fresh' /\ Progress'
    BY <2>1 DEF TypeOK, Fresh, Progress
  <2> QED BY <2>1, <2>2, SameJournal
<1>4. CASE Collected
  <2>1. /\ at = "running" /\ at' = "collecting"
        /\ UNCHANGED <<run, steps, completed, file, written, index, payloads, place, claims>>
    BY <1>4 DEF Collected
  <2>2. TypeOK' /\ Fresh'
    BY <2>1 DEF TypeOK, Fresh
  <2>3. index = 1 /\ payloads = NoPayloads /\ place = Start /\ claims = <<>> /\ Len(steps) \in Nat
    BY <2>1, RunsAreSequences DEF TypeOK, Progress
  <2>4. Gathered(index - 1)'
    <3>1. index' - 1 = 0 /\ 1 .. 0 = {} /\ DOMAIN payloads' = {}
      BY <2>1, <2>3 DEF NoPayloads
    <3> QED BY <3>1 DEF Gathered
  <2>5. Progress'
    BY <2>1, <2>3, <2>4 DEF Progress
  <2> QED BY <2>1, <2>2, <2>5, SameJournal
<1>5. CASE CollectResult
  <2>1. /\ at = "collecting" /\ index <= Len(steps) /\ index' = index + 1
        /\ UNCHANGED <<run, steps, completed, file, written, at, place, claims>>
    BY <1>5 DEF CollectResult
  <2>2. Gathered(index - 1)' /\ DOMAIN payloads' \subseteq {steps[s].tool : s \in DOMAIN steps}
    BY <1>5, CollectGathers
  <2>3. TypeOK'
    BY <2>1, <2>2 DEF TypeOK
  <2>4. Fresh'
    BY <2>1 DEF Fresh
  <2>5. Progress'
    <3>1. index' <= Len(steps') + 1
      BY <2>1, RunsAreSequences DEF TypeOK
    <3> QED BY <2>1, <2>2, <3>1 DEF Progress
  <2> QED BY <2>1, <2>3, <2>4, <2>5, SameJournal
<1>6. CASE EndCollect
  <2>1. /\ at = "collecting" /\ index > Len(steps)
        /\ at' \in {"ended", "correlating"}
        /\ UNCHANGED <<run, steps, completed, file, written, index, payloads, place, claims>>
    BY <1>6 DEF EndCollect
  <2>2. TypeOK' /\ Fresh'
    BY <2>1 DEF TypeOK, Fresh
  <2>3. place = Start /\ claims = <<>> /\ Gathered(Len(steps))
    <3>1. index \in Nat /\ Len(steps) \in Nat /\ index <= Len(steps) + 1 /\ Gathered(index - 1)
      BY <2>1, RunsAreSequences DEF TypeOK, Progress
    <3>2. index - 1 = Len(steps)
      BY <2>1, <3>1
    <3> QED BY <2>1, <3>1, <3>2 DEF Progress
  <2>4. Graph
    BY <2>3, StartGraph
  <2>5. Gathered(Len(steps))' /\ Graph'
    BY <2>1, <2>3, <2>4 DEF Gathered, Graph, Behind
  <2>6. Progress'
    BY <2>1, <2>3, <2>5 DEF Progress
  <2> QED BY <2>1, <2>2, <2>6, SameJournal
<1>7. CASE AddNextClaim
  <2>1. /\ at = "correlating"
        /\ UNCHANGED <<run, steps, completed, file, written, at, index, payloads>>
    BY <1>7 DEF AddNextClaim
  <2>2. place' \in Nat \X Nat \X Nat \X Nat /\ claims' \in Seq(Claims) /\ Graph'
    BY <1>7, NextClaim
  <2>3. TypeOK' /\ Fresh'
    BY <2>1, <2>2 DEF TypeOK, Fresh
  <2>4. Gathered(Len(steps))'
    BY <2>1 DEF Progress, Gathered
  <2>5. Progress'
    BY <2>1, <2>2, <2>4 DEF Progress
  <2> QED BY <2>1, <2>3, <2>5, SameJournal
<1>8. CASE EndCorrelate
  <2>1. /\ at = "correlating" /\ at' = "correlated" /\ Ahead = {}
        /\ UNCHANGED <<run, steps, completed, file, written, index, payloads, place, claims>>
    BY <1>8 DEF EndCorrelate
  <2>2. TypeOK' /\ Fresh'
    BY <2>1 DEF TypeOK, Fresh
  <2>3. Gathered(Len(steps))' /\ Graph' /\ Ahead' = {}
    BY <2>1 DEF Progress, Gathered, Graph, Behind, Ahead
  <2>4. Progress'
    BY <2>1, <2>3 DEF Progress
  <2> QED BY <2>1, <2>2, <2>4, SameJournal
<1>9. CASE NextRun
  BY <1>9, IdleRestart DEF NextRun
<1>10. CASE UNCHANGED vars
  <2>1. UNCHANGED <<run, steps, completed, file, written, at, index, payloads, place, claims>>
    BY <1>10 DEF vars
  <2>2. TypeOK' /\ Fresh'
    BY <2>1 DEF TypeOK, Fresh
  <2>3. Progress'
    BY <2>1 DEF Progress, Gathered, Graph, Behind, Ahead
  <2> QED BY <2>1, <2>2, <2>3, SameJournal
<1> QED
  BY <1>1, <1>2, <1>3, <1>4, <1>5, <1>6, <1>7, <1>8, <1>9, <1>10 DEF Next

-----------------------------------------------------------------------------
\* The last step of a tool, in the order of the plan.
LastOf(tool) ==
  LET of == {s \in DOMAIN steps : steps[s].tool = tool}
  IN  CHOOSE s \in of : \A t \in of : t <= s

\* What the code makes of a run: exactly the sources there are in the last
\* step of each tool, in the order of the tools.
SaidLast ==
  at = "correlated" =>
    LET tools == {steps[s].tool : s \in DOMAIN steps} \intersect ToSet(Order)
        rank(t) == CHOOSE i \in DOMAIN Order : Order[i] = t
        stated(t) == Statements(Target, t, steps[LastOf(t)].payload)
        supports(t, c) == {d \in stated(t) : SameFact(c, d)}
        sourcesOf(t, c) == UNION {ToSet(d.sources) : d \in supports(t, c)}
        from(x, c) == {rank(t) : t \in {u \in tools : x \in sourcesOf(u, c)}}
        first(x, c) == Min(from(x, c))
    IN  /\ \A i, j \in DOMAIN claims : SameFact(claims[i], claims[j]) => i = j
        /\ \A t \in tools : \A d \in stated(t) : \E i \in DOMAIN claims : SameFact(claims[i], d)
        /\ \A i \in DOMAIN claims :
             LET c == claims[i]
             IN  /\ \E t \in tools : supports(t, c) # {}
                 /\ ToSet(c.sources) = UNION {sourcesOf(t, c) : t \in tools}
                 /\ IsInjective(c.sources) \/ \E t \in tools : \E d \in supports(t, c) : c.sources = d.sources
                 /\ \A m, n \in DOMAIN c.sources : m < n => first(c.sources[m], c) <= first(c.sources[n], c)

(* What was gathered of a tool is what its last step answered
   (handle_recon). *)
LEMMA LastGathered ==
  ASSUME TypeOK, Gathered(Len(steps)), NEW t \in DOMAIN payloads
  PROVE  payloads[t] = steps[LastOf(t)].payload
<1> DEFINE of == {s \in DOMAIN steps : steps[s].tool = t}
<1>1. Len(steps) \in Nat /\ DOMAIN steps = 1 .. Len(steps)
  BY RunsAreSequences DEF TypeOK
<1>2. PICK s \in 1 .. Len(steps) :
        /\ steps[s].tool = t /\ payloads[t] = steps[s].payload
        /\ \A u \in 1 .. Len(steps) : steps[u].tool = t => u <= s
  BY DEF Gathered
<1>3. s \in of /\ \A u \in of : u <= s
  BY <1>1, <1>2
<1>4. \A x \in of : (\A u \in of : u <= x) => x = s
  BY <1>1, <1>3
<1>5. LastOf(t) = CHOOSE x \in of : \A u \in of : u <= x
  BY DEF LastOf
<1> HIDE DEF of
<1>6. LastOf(t) = s
  BY <1>3, <1>4, <1>5
<1> QED BY <1>2, <1>6

(* When the loops have been at every place, the graph carries the sources
   there are in the last step of each tool (build_evidence_graph). *)
LEMMA GraphCarries ==
  ASSUME TypeOK, Progress
  PROVE  SaidLast
<1> SUFFICES ASSUME at = "correlated" PROVE SaidLast
  BY DEF SaidLast
<1> DEFINE tools == {steps[s].tool : s \in DOMAIN steps} \intersect ToSet(Order)
           rank(t) == CHOOSE i \in DOMAIN Order : Order[i] = t
           stated(t) == Statements(Target, t, steps[LastOf(t)].payload)
           supports(t, c) == {d \in stated(t) : SameFact(c, d)}
           sourcesOf(t, c) == UNION {ToSet(d.sources) : d \in supports(t, c)}
           from(x, c) == {rank(t) : t \in {u \in tools : x \in sourcesOf(u, c)}}
           first(x, c) == Min(from(x, c))
           B == Places(payloads)
           C(p) == ClaimAt(Target, payloads, p)
<1>1. Gathered(Len(steps)) /\ GraphOf(payloads, B, claims)
  <2>1. Behind = B
    BY DEF Progress, Ahead, Behind
  <2> QED BY <2>1 DEF Progress, Graph
<1>2. DOMAIN payloads = {steps[s].tool : s \in DOMAIN steps}
  <2>1. DOMAIN steps = 1 .. Len(steps)
    BY RunsAreSequences DEF TypeOK
  <2> QED BY <1>1, <2>1 DEF Gathered
<1>3. \A t \in DOMAIN payloads : PayloadOK(payloads[t])
  <2>1. Len(steps) \in 0 .. Len(steps)
    BY RunsAreSequences DEF TypeOK
  <2> QED BY <1>1, <2>1, GatheredPayloads
<1>4. ASSUME NEW i \in DOMAIN Order PROVE rank(Order[i]) = i
  BY OrderRanks
<1>5. ASSUME NEW t \in tools PROVE t \in DOMAIN payloads /\ stated(t) = Statements(Target, t, payloads[t])
  BY <1>1, <1>2, LastGathered
<1> HIDE DEF rank, stated
<1>6. ASSUME NEW t \in tools, NEW d \in stated(t)
      PROVE  \E p \in B : Order[p[1]] = t /\ p[1] = rank(t) /\ C(p) = d
  <2>1. PICK m \in Mentions(t, payloads[t]) : d = Claim(Target, t, payloads[t], m)
    BY <1>5, <1>6 DEF Statements
  <2>2. PICK i \in DOMAIN Order : Order[i] = t
    BY DEF ToSet
  <2>3. <<i, m[1], m[2], m[3]>> \in B
    BY <1>5, <2>1, <2>2 DEF Places
  <2>4. m = <<m[1], m[2], m[3]>>
    BY <2>1, MentionsAre
  <2>5. C(<<i, m[1], m[2], m[3]>>) = d
    BY <2>1, <2>2, <2>4 DEF ClaimAt
  <2> QED BY <1>4, <2>2, <2>3, <2>5
<1>7. ASSUME NEW p \in B
      PROVE  Order[p[1]] \in tools /\ rank(Order[p[1]]) = p[1] /\ C(p) \in stated(Order[p[1]])
  <2>1. /\ p[1] \in DOMAIN Order /\ Order[p[1]] \in DOMAIN payloads
        /\ <<p[2], p[3], p[4]>> \in Mentions(Order[p[1]], payloads[Order[p[1]]])
    BY <1>3, PlacesAre
  <2>2. Order[p[1]] \in tools
    BY <1>2, <2>1 DEF ToSet
  <2> QED BY <1>4, <1>5, <2>1, <2>2 DEF Statements, ClaimAt
<1> HIDE DEF tools, B
<1>8. ASSUME NEW c, NEW x
      PROVE  /\ from(x, c) = {p[1] : p \in SupportBy(payloads, B, c, x)}
             /\ x \in UNION {sourcesOf(t, c) : t \in tools} <=> x \in SourcesAt(payloads, Support(payloads, B, c))
  <2>1. ASSUME NEW p \in SupportBy(payloads, B, c, x)
        PROVE  Order[p[1]] \in tools /\ rank(Order[p[1]]) = p[1] /\ x \in sourcesOf(Order[p[1]], c)
    <3>1. p \in B /\ SameFact(c, C(p)) /\ x \in ToSet(C(p).sources)
      BY DEF SupportBy, Support
    <3>2. C(p) \in supports(Order[p[1]], c)
      BY <1>7, <3>1
    <3> QED BY <1>7, <3>1, <3>2
  <2>2. ASSUME NEW t \in tools, x \in sourcesOf(t, c)
        PROVE  \E p \in SupportBy(payloads, B, c, x) : p[1] = rank(t)
    <3>1. PICK d \in stated(t) : SameFact(c, d) /\ x \in ToSet(d.sources)
      BY <2>2
    <3>2. PICK p \in B : p[1] = rank(t) /\ C(p) = d
      BY <1>6, <3>1
    <3> QED BY <3>1, <3>2 DEF SupportBy, Support
  <2> HIDE DEF sourcesOf
  <2>3. from(x, c) = {p[1] : p \in SupportBy(payloads, B, c, x)}
    BY <2>1, <2>2
  <2>4. x \in SourcesAt(payloads, Support(payloads, B, c)) <=> SupportBy(payloads, B, c, x) # {}
    BY DEF SourcesAt, SupportBy
  <2>5. x \in UNION {sourcesOf(t, c) : t \in tools} <=> \E t \in tools : x \in sourcesOf(t, c)
    OBVIOUS
  <2> QED BY <2>1, <2>2, <2>3, <2>4, <2>5
<1>9. ASSUME NEW i \in DOMAIN claims
      PROVE  /\ Support(payloads, B, claims[i]) # {}
             /\ ToSet(claims[i].sources) = SourcesAt(payloads, Support(payloads, B, claims[i]))
             /\ ByTools(payloads, B, claims[i])
             /\ NoneTwice(payloads, B, claims[i])
  BY <1>1 DEF GraphOf, Supported
<1>10. ASSUME NEW i \in DOMAIN claims
       PROVE  \E t \in tools : supports(t, claims[i]) # {}
  <2>1. PICK p \in B : SameFact(claims[i], C(p))
    BY <1>9 DEF Support
  <2> QED BY <1>7, <2>1
<1>11. ASSUME NEW i \in DOMAIN claims
       PROVE  ToSet(claims[i].sources) = UNION {sourcesOf(t, claims[i]) : t \in tools}
  <2> HIDE DEF sourcesOf, from
  <2> QED BY <1>8, <1>9
<1>12. ASSUME NEW i \in DOMAIN claims, NEW m \in DOMAIN claims[i].sources,
              NEW n \in DOMAIN claims[i].sources, m < n
       PROVE  first(claims[i].sources[m], claims[i]) <= first(claims[i].sources[n], claims[i])
  <2> DEFINE c == claims[i]
             x == c.sources[m]
             y == c.sources[n]
  <2>1. ASSUME NEW z \in ToSet(c.sources)
        PROVE  /\ from(z, c) \subseteq Nat
               /\ first(z, c) \in from(z, c) /\ \A q \in from(z, c) : first(z, c) <= q
    <3>1. from(z, c) = {p[1] : p \in SupportBy(payloads, B, c, z)}
      BY <1>8
    <3>2. from(z, c) \subseteq Nat
      <4>1. \A p \in B : p[1] \in Nat
        BY <1>3, PlacesAre, OrderRanks DEF B
      <4> HIDE DEF from
      <4> QED BY <3>1, <4>1 DEF SupportBy, Support
    <3>3. from(z, c) # {}
      <4>1. z \in SourcesAt(payloads, Support(payloads, B, c))
        BY <1>9
      <4> HIDE DEF from
      <4> QED BY <3>1, <4>1 DEF SourcesAt, SupportBy
    <3> HIDE DEF from
    <3>4. \E r \in from(z, c) : \A q \in from(z, c) : r <= q
      BY <3>2, <3>3, LeastExists
    <3> QED BY <3>2, <3>4 DEF Min
  <2>2. x \in ToSet(c.sources) /\ y \in ToSet(c.sources)
    BY DEF ToSet
  <2>3. first(y, c) \in from(y, c) /\ first(y, c) \in Nat
    BY <2>1, <2>2
  <2> HIDE DEF first
  <2>4. PICK q \in SupportBy(payloads, B, c, y) : q[1] = first(y, c)
    BY <1>8, <2>3
  <2>5. PICK p \in SupportBy(payloads, B, c, x) : p[1] <= q[1]
    BY <1>9, <1>12, <2>4 DEF ByTools
  <2>6. p[1] \in from(x, c) /\ p[1] \in Nat /\ first(x, c) <= p[1] /\ first(x, c) \in Nat
    <3>1. p[1] \in from(x, c)
      BY <1>8
    <3> HIDE DEF from
    <3> QED BY <2>1, <2>2, <3>1
  <2> QED BY <2>3, <2>4, <2>5, <2>6
<1>13. \A i, j \in DOMAIN claims : SameFact(claims[i], claims[j]) => i = j
  BY <1>1 DEF GraphOf
<1>14. ASSUME NEW t \in tools, NEW d \in stated(t)
       PROVE  \E i \in DOMAIN claims : SameFact(claims[i], d)
  <2>1. PICK p \in B : C(p) = d
    BY <1>6
  <2> QED BY <1>1, <2>1 DEF GraphOf
<1>15. ASSUME NEW i \in DOMAIN claims, ~ IsInjective(claims[i].sources)
       PROVE  \E t \in tools : \E d \in supports(t, claims[i]) : claims[i].sources = d.sources
  <2>1. PICK p \in B : SameFact(claims[i], C(p)) /\ claims[i].sources = C(p).sources
    BY <1>9, <1>15 DEF NoneTwice, Support
  <2>2. Order[p[1]] \in tools /\ C(p) \in supports(Order[p[1]], claims[i])
    BY <1>7, <2>1
  <2> QED BY <2>1, <2>2
<1> HIDE DEF supports, sourcesOf, from, first
<1> QED
  BY <1>10, <1>11, <1>12, <1>13, <1>14, <1>15
  DEF SaidLast, tools, stated, supports, sourcesOf, from, first, rank

(* Of the steps of a tool that has any there is a last one (handle_recon). *)
LEMMA LastIs ==
  ASSUME TypeOK, NEW s \in DOMAIN steps
  PROVE  /\ LastOf(steps[s].tool) \in DOMAIN steps
         /\ steps[LastOf(steps[s].tool)].tool = steps[s].tool
         /\ \A t \in DOMAIN steps : steps[t].tool = steps[s].tool => t <= LastOf(steps[s].tool)
<1> DEFINE of == {t \in DOMAIN steps : steps[t].tool = steps[s].tool}
           S  == {Len(steps) - t : t \in of}
<1>1. Len(steps) \in Nat /\ DOMAIN steps = 1 .. Len(steps)
  BY RunsAreSequences DEF TypeOK
<1>2. S \in SUBSET Nat /\ S # {}
  BY <1>1
<1>3. PICK r \in S : \A q \in S : r <= q
  BY <1>2, LeastExists
<1>4. PICK t \in of : r = Len(steps) - t
  BY <1>3
<1>5. ASSUME NEW u \in of PROVE u <= t
  <2>1. Len(steps) - u \in S
    OBVIOUS
  <2>2. Len(steps) - t <= Len(steps) - u
    BY <1>3, <1>4, <2>1
  <2>3. t \in Nat /\ u \in Nat
    BY <1>1
  <2> QED BY <1>1, <2>2, <2>3
<1>6. LastOf(steps[s].tool) = CHOOSE v \in of : \A u \in of : u <= v
  BY DEF LastOf
<1> HIDE DEF of
<1>7. LastOf(steps[s].tool) \in of /\ \A u \in of : u <= LastOf(steps[s].tool)
  BY <1>4, <1>5, <1>6
<1> QED BY <1>7 DEF of

(* What is so of the last step of each tool makes the property
   (handle_recon, build_evidence_graph). *)
LEMMA LastSuffices ==
  ASSUME TypeOK, SaidLast
  PROVE  ClaimsCarryTheirSources
<1> SUFFICES ASSUME at = "correlated" PROVE ClaimsCarryTheirSources
  BY DEF ClaimsCarryTheirSources
<1> DEFINE tools == {steps[s].tool : s \in DOMAIN steps} \intersect ToSet(Order)
           rankT(t) == CHOOSE i \in DOMAIN Order : Order[i] = t
           statedT(t) == Statements(Target, t, steps[LastOf(t)].payload)
           supportsT(t, c) == {d \in statedT(t) : SameFact(c, d)}
           sourcesOf(t, c) == UNION {ToSet(d.sources) : d \in supportsT(t, c)}
           fromT(x, c) == {rankT(t) : t \in {u \in tools : x \in sourcesOf(u, c)}}
           firstT(x, c) == Min(fromT(x, c))
           heard == {s \in DOMAIN steps : steps[s].tool \in ToSet(Order)}
           last == {s \in heard : \A t \in heard : steps[t].tool = steps[s].tool => t <= s}
           stated(s) == Statements(Target, steps[s].tool, steps[s].payload)
           supports(s, c) == {d \in stated(s) : SameFact(c, d)}
           names(s, c) == UNION {ToSet(d.sources) : d \in supports(s, c)}
           rank(s) == CHOOSE i \in DOMAIN Order : Order[i] = steps[s].tool
           from(x, c) == {rank(s) : s \in {t \in heard : x \in names(t, c)}}
           first(x, c) == Min(from(x, c))
<1>1. /\ \A i, j \in DOMAIN claims : SameFact(claims[i], claims[j]) => i = j
      /\ \A t \in tools : \A d \in statedT(t) : \E i \in DOMAIN claims : SameFact(claims[i], d)
      /\ \A i \in DOMAIN claims :
           LET c == claims[i]
           IN  /\ \E t \in tools : supportsT(t, c) # {}
               /\ ToSet(c.sources) = UNION {sourcesOf(t, c) : t \in tools}
               /\ IsInjective(c.sources) \/ \E t \in tools : \E d \in supportsT(t, c) : c.sources = d.sources
               /\ \A m, n \in DOMAIN c.sources : m < n => firstT(c.sources[m], c) <= firstT(c.sources[n], c)
  BY DEF SaidLast
<1>2. ASSUME NEW t \in tools
      PROVE  LastOf(t) \in last /\ steps[LastOf(t)].tool = t
  BY LastIs
<1>3. ASSUME NEW s \in last
      PROVE  steps[s].tool \in tools /\ LastOf(steps[s].tool) = s
  <2>1. s \in DOMAIN steps /\ steps[s].tool \in tools
    OBVIOUS
  <2>2. LastOf(steps[s].tool) <= s /\ s <= LastOf(steps[s].tool) /\ LastOf(steps[s].tool) \in DOMAIN steps
    BY <2>1, LastIs
  <2>3. \A k \in DOMAIN steps : k \in Nat
    BY RunsAreSequences DEF TypeOK
  <2> QED BY <2>1, <2>2, <2>3
<1>4. \A t \in tools : LastOf(t) \in heard /\ stated(LastOf(t)) = statedT(t)
  BY <1>2
<1>5. \A s \in last : stated(s) = statedT(steps[s].tool)
  BY <1>3
<1>6. \A s \in heard : rank(s) = rankT(steps[s].tool)
  OBVIOUS
<1> HIDE DEF heard, tools, stated, statedT, rank, rankT
<1>7. \A t \in tools : \A c : supports(LastOf(t), c) = supportsT(t, c) /\ names(LastOf(t), c) = sourcesOf(t, c)
  BY <1>4
<1>8. \A s \in last : \A c : supports(s, c) = supportsT(steps[s].tool, c) /\ names(s, c) = sourcesOf(steps[s].tool, c)
  BY <1>5
<1>9. ASSUME NEW s \in last, NEW d \in stated(s)
      PROVE  \E i \in DOMAIN claims :
               SameFact(claims[i], d) /\ ToSet(d.sources) \subseteq ToSet(claims[i].sources)
  <2>1. steps[s].tool \in tools /\ d \in statedT(steps[s].tool)
    BY <1>3, <1>5
  <2>2. PICK i \in DOMAIN claims : SameFact(claims[i], d)
    BY <1>1, <2>1
  <2>3. ToSet(d.sources) \subseteq sourcesOf(steps[s].tool, claims[i])
    BY <2>1, <2>2
  <2> HIDE DEF sourcesOf
  <2>4. ToSet(claims[i].sources) = UNION {sourcesOf(t, claims[i]) : t \in tools}
    BY <1>1
  <2> QED BY <2>1, <2>2, <2>3, <2>4
<1>10. ASSUME NEW i \in DOMAIN claims
       PROVE  /\ \E s \in heard : supports(s, claims[i]) # {}
              /\ \A x \in ToSet(claims[i].sources) : \E s \in heard : x \in names(s, claims[i])
              /\ \/ IsInjective(claims[i].sources)
                 \/ \E s \in heard : \E d \in supports(s, claims[i]) : claims[i].sources = d.sources
  <2> HIDE DEF supports, supportsT, sourcesOf, names
  <2> QED BY <1>1, <1>4, <1>7
<1>11. ASSUME last = heard, NEW i \in DOMAIN claims, NEW m \in DOMAIN claims[i].sources,
              NEW n \in DOMAIN claims[i].sources, m < n
       PROVE  first(claims[i].sources[m], claims[i]) <= first(claims[i].sources[n], claims[i])
  <2> HIDE DEF last
  <2>1. ASSUME NEW c, NEW x PROVE from(x, c) = fromT(x, c)
    <3> HIDE DEF names, sourcesOf
    <3>1. ASSUME NEW s \in heard, x \in names(s, c)
          PROVE  /\ steps[s].tool \in tools /\ x \in sourcesOf(steps[s].tool, c)
                 /\ rank(s) = rankT(steps[s].tool)
      BY <1>3, <1>6, <1>8, <1>11, <3>1
    <3>2. ASSUME NEW t \in tools, x \in sourcesOf(t, c)
          PROVE  \E s \in heard : x \in names(s, c) /\ rank(s) = rankT(t)
      BY <1>2, <1>4, <1>6, <1>7, <3>2
    <3> QED BY <3>1, <3>2
  <2> HIDE DEF from, fromT
  <2>2. \A c, x : first(x, c) = firstT(x, c)
    BY <2>1
  <2> HIDE DEF first, firstT
  <2>3. firstT(claims[i].sources[m], claims[i]) <= firstT(claims[i].sources[n], claims[i])
    <3> HIDE DEF supportsT, sourcesOf
    <3> QED BY <1>1, <1>11
  <2> QED BY <2>2, <2>3
<1>12. \A i, j \in DOMAIN claims : SameFact(claims[i], claims[j]) => i = j
  BY <1>1
<1> HIDE DEF supports, names, from, first
<1> QED
  BY <1>9, <1>10, <1>11, <1>12
  DEF ClaimsCarryTheirSources, heard, last, stated, supports, names, rank, from, first

-----------------------------------------------------------------------------
(* IInv holds in every state of every behaviour. *)
LEMMA Invariance == Spec => []IInv
<1>1. Init => IInv
  BY InitInv
<1>2. IInv /\ [Next]_vars => IInv'
  BY StepInv
<1> QED BY <1>1, <1>2, PTL DEF Spec

(* Every variable keeps its type: lines hold events, whole or torn, results
   are of tools of the plan, and the graph is a list of claims. *)
THEOREM Typed == Spec => []TypeOK
BY Invariance, PTL DEF IInv

(* Whatever writes fail and wherever the program ends, replay gives events
   that were emitted, in their order, each once, and loses no event that was
   written whole after one that was (JsonlEventJournal). *)
THEOREM JournalReplays == Spec => []ReplayLosesLittle
<1>1. IInv => ReplayLosesLittle
  BY LinesReplay DEF IInv
<1> QED BY <1>1, Invariance, PTL

(* Whatever the order in which steps complete, the graph has each fact once,
   and of it the sources of all the tools whose last step states it, and no
   other, in the order of the tools (build_evidence_graph). *)
THEOREM GraphIsSourced == Spec => []ClaimsCarryTheirSources
<1>1. IInv => ClaimsCarryTheirSources
  BY GraphCarries, LastSuffices DEF IInv
<1> QED BY <1>1, Invariance, PTL
=============================================================================
