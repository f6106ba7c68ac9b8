------------------------------ MODULE LineFile ------------------------------
(***************************************************************************)
(* A JSON Lines file on LittleFS, as its readers and writers meet it: the  *)
(* event log and the notification logs.  The file system and the JSON      *)
(* library are external.                                                   *)
(*                                                                         *)
(* A line is a record that parses, or Torn.  LittleFS may take less than   *)
(* what is printed; the rest of the line is then missing, its newline too, *)
(* and what is appended next ends up in the same line.  JSON is read up to *)
(* the end of its first object, so a line that starts with a whole object  *)
(* still parses.                                                           *)
(***************************************************************************)
EXTENDS Naturals, SequencesExt

CONSTANTS
  Torn,      \* a line that does not parse
  Time,      \* values of the clock: it may be corrected either way
  MaxLines,  \* bound: nothing more is written to a longer file
  Faults     \* disturbances the run lets happen

FaultKinds == {"open", "short", "crash", "reset", "close", "load", "rename"}

ASSUME FileAssumption ==
  /\ Time \subseteq Nat \ {0}
  /\ MaxLines \in Nat
  /\ Faults \subseteq FaultKinds

VARIABLES
  lines,        \* the file
  unterminated  \* its last line has no newline

file == <<lines, unterminated>>

Room == Len(lines) < MaxLines

\* The lines of ls that parse, by number.
Parsed(ls) == {i \in DOMAIN ls : ls[i] # Torn}

Readable(ls) == {ls[i] : i \in Parsed(ls)}

\* The lines of ls with the numbers in keep, in the order of ls.
LinesAt(ls, keep) ==
  LET Rank(i) == Cardinality({j \in keep : j <= i})
  IN  [r \in 1..Cardinality(keep) |-> ls[CHOOSE i \in keep : Rank(i) = r]]

\* The file f after rec and a newline were printed to its end: nothing was
\* taken, a part of the object, all of it but not the newline, or all.
Printed(f, rec, outcome) ==
  [lines |-> IF outcome = "none" \/ f.unterminated THEN f.lines
             ELSE Append(f.lines, IF outcome = "part" THEN Torn ELSE rec),
   unterminated |-> IF outcome = "none" THEN f.unterminated ELSE outcome # "all"]

\* What can go wrong, given the faults of the run.
ShortOutcomes ==
  (IF "open" \in Faults THEN {"none"} ELSE {})
    \cup (IF "short" \in Faults THEN {"part", "object"} ELSE {})

\* Printed, and once more if that came short: the file, and what the writer
\* is told.
PrintedWithRetry(f, rec, short) ==
  {[file |-> Printed(f, rec, "all"), ok |-> TRUE]}
    \cup {[file |-> Printed(Printed(f, rec, a), rec, b), ok |-> b = "all"] :
            a \in short, b \in short \cup {"all"}}

\* How rec can be appended to the file.
Appends(rec) ==
  PrintedWithRetry([lines |-> lines, unterminated |-> unterminated], rec, ShortOutcomes)
=============================================================================
