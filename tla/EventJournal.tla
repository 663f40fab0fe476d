---------------------------- MODULE EventJournal ----------------------------
(***************************************************************************)
(* The journal of execution events (storage/event_journal.py): a file of   *)
(* lines, to which an event is appended, and read back line by line.       *)
(*                                                                         *)
(* A line is what was written between two line ends: a sequence of events, *)
(* each whole or torn.  The last line of a file has no end yet.  A write   *)
(* that fails, or is cut off by a crash, may have written nothing, a part  *)
(* of the event, or the event without the end of the line.                 *)
(***************************************************************************)
EXTENDS Selection, Sequences, SequencesExt

Writes == {"whole", "unterminated", "torn", "nothing"}

NoFile == << <<>> >>

\* What is there of an event after a write of it.
Piece(event, write) == [of |-> event, torn |-> write = "torn"]

\* JsonlEventJournal.append.
AppendEvent(file, event, write) ==
  LET last    == Last(file)
      longer  == Append(last, Piece(event, write))
      earlier == Front(file)
  IN  CASE write = "nothing" -> file
        [] write = "whole" -> earlier \o <<longer, <<>>>>
        [] write \in {"torn", "unterminated"} -> Append(earlier, longer)

\* _decode_event: what was written into one line by two writes is not JSON,
\* nor is a part of an event.
Decodes(line) == Len(line) = 1 /\ ~line[1].torn

EventsOf(lines) == [i \in DOMAIN lines |-> lines[i][1].of]

\* Mutant: replay stops at the first line that cannot be decoded.
Load_UntilBroken(file) ==
  EventsOf(AtPlaces(file, {k \in DOMAIN file : \A i \in 1 .. k : Decodes(file[i])}))

\* JsonlEventJournal.load.
Load(file) == EventsOf(AtPlaces(file, {k \in DOMAIN file : Decodes(file[k])}))
=============================================================================
