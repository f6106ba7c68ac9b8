----------------------------- MODULE LogProofs ------------------------------
(***************************************************************************)
(* Proofs about the two files of lines and about Notifier, for every value *)
(* of their constants: EventLog first, then what /log shows, then          *)
(* NotificationLog, then the event log and the engine together.  The files *)
(* share the lemmas about LineFile: what is printed, once or twice         *)
(* (RetryOutcome), and what a rotation copies, in its order (RanksListed). *)
(*                                                                         *)
(* EventLog: the rows are Coherent, each id one event with its START       *)
(* before its END; what was notified of agrees with them, and a type is    *)
(* open in the log exactly if its last transition that was written is.     *)
(* /log: after each line the ring holds the last of the events begun, by   *)
(* induction on the number of lines read.                                  *)
(* NotificationLog: whole is read off the file as the last row of each     *)
(* key (HoldsLast), and a step does to it what RowStore allows.            *)
(* Notifier: a key that is notified is accounted for by a row of the log,  *)
(* or by what took the row (Accounted); what the engine holds is about     *)
(* such a key (Notified); and what NotificationEngineProofs has proved of  *)
(* the engine is cited of its instance EP here, once the steps of the two  *)
(* are seen to be steps that the engine allows for.                        *)
(***************************************************************************)
EXTENDS Notifier, NotificationLog, SequenceTheorems, FiniteSetTheorems,
        WellFoundedInduction, TLAPS

-----------------------------------------------------------------------------
(* The inductive invariant.                                                *)

\* The rows of ls that are open events, by number.
OpenLines(ls) ==
  {i \in Parsed(ls) :
    /\ ls[i].status = "START"
    /\ \A h \in Parsed(ls) : h > i /\ ls[h].id = ls[i].id => ls[h].status # "END"}

HasOpen(ls, type) == \E i \in OpenLines(ls) : ls[i].type = type

\* Only a type with a duration starts and ends.
Kinds(ls) ==
  \A i \in Parsed(ls) :
    IF ls[i].status = "INSTANT" THEN ls[i].type \in Instant ELSE ls[i].type \in Duration

\* Two rows have an id in common only as START and END of one event.
Pairs(ls) ==
  \A i, j \in Parsed(ls) : i < j /\ ls[i].id = ls[j].id =>
    ls[i].status = "START" /\ ls[j].status = "END" /\ ls[i].type = ls[j].type

Begun(ls) ==
  \A j \in Parsed(ls) : ls[j].status = "END" =>
    \E i \in Parsed(ls) : i < j /\ ls[i].id = ls[j].id

OneOpen(ls) == \A i, j \in OpenLines(ls) : ls[i].type = ls[j].type => i = j

Coherent(ls) == Kinds(ls) /\ Pairs(ls) /\ Begun(ls) /\ OneOpen(ls)

Monotone(ls) == \A i, j \in Parsed(ls) : i < j => ls[i].ts <= ls[j].ts

\* The baseline of the clamp is no row's future.
Clamped ==
  ~blind /\ misreported = {} =>
    Monotone(lines) /\ \A i \in Parsed(lines) : lines[i].ts <= lastWritten

Agreement ==
  \A type \in Duration \ astray : said[type] = "START" <=> HasOpen(lines, type)

\* What the rows in the log say of their notifications.
RowsNotified ==
  \A i \in Parsed(lines) : KeyOf(lines[i]) \notin misreported =>
    (KeyOf(lines[i]) \in notified
       <=> (lines[i].status = "START" => lines[i].type \notin OnlyEnd))

\* The END of an open event has not been notified.
EndsToCome ==
  \A i \in OpenLines(lines) :
    <<lines[i].id, "END">> \in notified => <<lines[i].id, "END">> \in misreported

IdsUsed == \A key \in notified : key[1] < nextId

BootsWithId == ~up => nextId \in Id

IInv ==
  /\ TypeOK
  /\ BootsWithId
  /\ Coherent(lines)
  /\ Agreement
  /\ Clamped
  /\ RowsNotified
  /\ EndsToCome
  /\ IdsUsed
  /\ repeated \subseteq misreported

-----------------------------------------------------------------------------
(* Induction on a number, for what a recursive function computes.  As a     *)
(* set of numbers, the hypothesis needs no operator for a parameter.       *)

\* A set of naturals has a least member.
LEMMA LeastNumber ==
  ASSUME NEW S, S \subseteq Nat, S # {}
  PROVE  \E m \in S : \A k \in S : m <= k
<1> DEFINE R == OpToRel(<, Nat)
<1>1. IsWellFoundedOn(R, Nat)
  BY NatLessThanWellFounded
<1>2. \A k, m \in Nat : k < m => <<k, m>> \in R
  BY DEF OpToRel
<1> HIDE DEF R
<1>3. PICK m \in S : \A k \in S : ~(<<k, m>> \in R)
  BY <1>1, WFMin
<1>4. ASSUME NEW k \in S PROVE m <= k
  <2>1. k \in Nat /\ m \in Nat
    OBVIOUS
  <2>2. ~(k < m)
    BY <1>2, <1>3, <2>1
  <2> QED
    BY <2>1, <2>2
<1> QED
  BY <1>4

\* T holds the numbers up to n for which something is so.
LEMMA Induction ==
  ASSUME NEW T, NEW n \in Nat, 0 \in T, \A k \in 0..(n - 1) : k \in T => k + 1 \in T
  PROVE  \A k \in 0..n : k \in T
<1> DEFINE Out == {k \in 0..n : k \notin T}
<1> SUFFICES ASSUME Out # {} PROVE FALSE
  OBVIOUS
<1>1. Out \subseteq Nat
  OBVIOUS
<1> HIDE DEF Out
<1>2. PICK m \in Out : \A k \in Out : m <= k
  BY <1>1, LeastNumber
<1>3. m \in 0..n /\ m \notin T /\ m # 0
  BY DEF Out
<1>4. m - 1 \in 0..(n - 1) /\ m - 1 \in 0..n /\ ~(m <= m - 1) /\ (m - 1) + 1 = m
  BY <1>3
<1>5. m - 1 \in T
  BY <1>2, <1>4 DEF Out
<1> QED
  BY <1>3, <1>4, <1>5

-----------------------------------------------------------------------------
(* LineFile: the lines at some numbers, in order.                          *)

\* at lists the numbers in keep, the least first.
Lists(at, keep) ==
  /\ at \in [1..Cardinality(keep) -> keep]
  /\ \A q, r \in 1..Cardinality(keep) : q < r => at[q] < at[r]
  /\ \A i \in keep : \E r \in 1..Cardinality(keep) : at[r] = i

TakenAt(ls, at, n) == [r \in 1..n |-> ls[at[r]]]

\* Every number in keep has a rank of its own.
LEMMA RanksListed ==
  ASSUME NEW keep, keep \subseteq Nat, IsFiniteSet(keep), NEW ls
  PROVE  /\ Cardinality(keep) \in Nat
         /\ \E at : Lists(at, keep) /\ LinesAt(ls, keep) = TakenAt(ls, at, Cardinality(keep))
<1> DEFINE n == Cardinality(keep)
           Upto(i) == {j \in keep : j <= i}
           Rank(i) == Cardinality(Upto(i))
           at == [r \in 1..n |-> CHOOSE i \in keep : Rank(i) = r]
           rank == [i \in keep |-> Rank(i)]
<1>1. n \in Nat
  BY FS_CardinalityType
<1>2. \A i \in keep : /\ Upto(i) \subseteq keep /\ i \in Upto(i) /\ IsFiniteSet(Upto(i))
                      /\ Rank(i) \in 1..n
  <2> SUFFICES ASSUME NEW i \in keep
               PROVE  /\ Upto(i) \subseteq keep /\ i \in Upto(i) /\ IsFiniteSet(Upto(i))
                      /\ Rank(i) \in 1..n
    OBVIOUS
  <2>1. Upto(i) \subseteq keep /\ i \in Upto(i)
    <3>1. i \in Nat /\ i <= i
      OBVIOUS
    <3> QED
      BY <3>1
  <2> HIDE DEF Upto
  <2>2. IsFiniteSet(Upto(i)) /\ Cardinality(Upto(i)) <= n
    BY <2>1, FS_Subset
  <2>3. Cardinality(Upto(i)) \in Nat /\ Cardinality(Upto(i)) # 0
    BY <2>1, <2>2, FS_CardinalityType, FS_EmptySet
  <2> QED
    BY <1>1, <2>1, <2>2, <2>3
<1>3. \A i, j \in keep : i < j => Rank(i) < Rank(j)
  <2> SUFFICES ASSUME NEW i \in keep, NEW j \in keep, i < j
               PROVE  Rank(i) < Rank(j)
    OBVIOUS
  <2>1. Upto(i) \subseteq Upto(j) /\ j \notin Upto(i)
    <3>1. i \in Nat /\ j \in Nat /\ ~(j <= i)
      OBVIOUS
    <3>2. \A h \in keep : h \in Nat /\ (h <= i => h <= j)
      BY <3>1
    <3> QED
      BY <3>1, <3>2
  <2>2. IsFiniteSet(Upto(j)) /\ j \in Upto(j) /\ Rank(i) \in Nat /\ Rank(j) \in Nat
    BY <1>1, <1>2
  <2> HIDE DEF Upto
  <2>3. Cardinality(Upto(i)) <= Cardinality(Upto(j))
        /\ Cardinality(Upto(i)) # Cardinality(Upto(j))
    BY <2>1, <2>2, FS_Subset
  <2> QED
    BY <2>2, <2>3
<1> HIDE DEF Rank, Upto
<1>4. rank \in Injection(keep, 1..n)
  <2>1. rank \in [keep -> 1..n]
    <3>1. \A i \in keep : Rank(i) \in 1..n
      BY <1>2
    <3> QED
      BY <3>1
  <2>2. \A i, j \in keep : rank[i] = rank[j] => i = j
    BY <1>1, <1>2, <1>3
  <2> QED
    BY <2>1, <2>2 DEF Injection, IsInjective
<1>5. IsFiniteSet(1..n) /\ Cardinality(1..n) = n
  BY <1>1, FS_Interval
<1>6. rank \in Surjection(keep, 1..n)
  BY <1>4, <1>5, FS_Injection
<1>7. \A r \in 1..n : \E i \in keep : Rank(i) = r
  BY <1>6 DEF Surjection
<1>8. \A r \in 1..n : at[r] \in keep /\ Rank(at[r]) = r
  BY <1>7
<1>9. at \in [1..n -> keep]
  BY <1>8
<1>10. \A q, r \in 1..n : q < r => at[q] < at[r]
  <2> SUFFICES ASSUME NEW q \in 1..n, NEW r \in 1..n, q < r
               PROVE  at[q] < at[r]
    OBVIOUS
  <2>1. at[q] \in keep /\ at[r] \in keep /\ Rank(at[q]) = q /\ Rank(at[r]) = r
    BY <1>8
  <2> HIDE DEF at
  <2>2. at[q] \in Nat /\ at[r] \in Nat
    BY <2>1
  <2>3. at[q] # at[r] /\ ~(at[r] < at[q])
    BY <1>3, <2>1, <2>2
  <2> QED
    BY <2>2, <2>3
<1>11. \A i \in keep : \E r \in 1..n : at[r] = i
  <2> SUFFICES ASSUME NEW i \in keep
               PROVE  at[Rank(i)] = i /\ Rank(i) \in 1..n
    OBVIOUS
  <2>1. Rank(i) \in 1..n
    BY <1>2
  <2>2. at[Rank(i)] \in keep /\ Rank(at[Rank(i)]) = Rank(i)
    BY <1>8, <2>1
  <2> HIDE DEF at
  <2>3. at[Rank(i)] \in Nat /\ i \in Nat
    BY <2>2
  <2>4. Rank(i) \in Nat
    BY <2>1
  <2> QED
    BY <1>3, <2>1, <2>2, <2>3, <2>4
<1>12. LinesAt(ls, keep) = TakenAt(ls, at, n)
  BY DEF LinesAt, TakenAt, Rank, Upto
<1> HIDE DEF at
<1>13. Lists(at, keep)
  BY <1>9, <1>10, <1>11 DEF Lists
<1> QED
  BY <1>1, <1>12, <1>13

-----------------------------------------------------------------------------
(* Lines that parse.                                                       *)

LEMMA ParsedRow ==
  ASSUME NEW ls \in Seq(Line), NEW i \in Parsed(ls)
  PROVE  /\ ls[i] \in EventRecord
         /\ i \in Nat /\ i \in DOMAIN ls /\ 1 <= i /\ i <= Len(ls)
<1>1. i \in DOMAIN ls /\ ls[i] # Torn
  BY DEF Parsed
<1>2. DOMAIN ls = 1..Len(ls) /\ Len(ls) \in Nat
  OBVIOUS
<1>3. ls[i] \in Line
  BY <1>1, <1>2
<1> QED
  BY <1>1, <1>2, <1>3 DEF Line

LEMMA RecordFields ==
  ASSUME NEW rec \in EventRecord
  PROVE  /\ rec.id \in Id /\ rec.type \in Type /\ rec.ts \in Time
         /\ rec.status \in {"START", "END", "INSTANT"}
BY DEF EventRecord

\* new is ls with the row rec at its end.
Appended(new, ls, rec) ==
  /\ new \in Seq(Line)
  /\ Parsed(new) = Parsed(ls) \cup {Len(ls) + 1}
  /\ new[Len(ls) + 1] = rec
  /\ \A i \in Parsed(ls) : new[i] = ls[i] /\ i \in Nat /\ i < Len(ls) + 1
  /\ Len(ls) + 1 \in Nat

LEMMA AppendedRow ==
  ASSUME NEW ls \in Seq(Line), NEW rec \in EventRecord, NEW new, new = Append(ls, rec)
  PROVE  Appended(new, ls, rec)
<1>1. rec \in Line /\ rec # Torn
  BY TornAssumption DEF Line
<1>2. new \in Seq(Line) /\ Len(ls) \in Nat
  BY <1>1
<1>3. DOMAIN new = DOMAIN ls \cup {Len(ls) + 1}
  BY <1>1
<1>4. new[Len(ls) + 1] = rec
  BY <1>1
<1>5. \A i \in DOMAIN ls : new[i] = ls[i]
  BY <1>1
<1>6. \A i \in Parsed(ls) : i \in Nat /\ i < Len(ls) + 1
  BY <1>2, ParsedRow
<1>7. Parsed(new) = Parsed(ls) \cup {Len(ls) + 1}
  BY <1>1, <1>3, <1>4, <1>5 DEF Parsed
<1>8. \A i \in Parsed(ls) : new[i] = ls[i]
  BY <1>5 DEF Parsed
<1>9. Len(ls) + 1 \in Nat
  BY <1>2
<1>10. \A i \in Parsed(ls) : new[i] = ls[i] /\ i \in Nat /\ i < Len(ls) + 1
  BY <1>6, <1>8
<1> QED
  BY <1>2, <1>4, <1>7, <1>9, <1>10, Zenon DEF Appended

\* new has the rows of ls where ls has them.
SameRows(new, ls) ==
  /\ new \in Seq(Line)
  /\ Parsed(new) = Parsed(ls)
  /\ \A i \in Parsed(ls) : new[i] = ls[i]

LEMMA AppendedTorn ==
  ASSUME NEW ls \in Seq(Line), NEW new, new = Append(ls, Torn)
  PROVE  SameRows(new, ls)
<1>1. Torn \in Line
  BY DEF Line
<1>2. new \in Seq(Line)
  BY <1>1
<1>3. DOMAIN new = DOMAIN ls \cup {Len(ls) + 1}
  BY <1>1
<1>4. new[Len(ls) + 1] = Torn
  BY <1>1
<1>5. \A i \in DOMAIN ls : new[i] = ls[i]
  BY <1>1
<1>6. Parsed(new) = Parsed(ls) /\ \A i \in Parsed(ls) : new[i] = ls[i]
  BY <1>3, <1>4, <1>5 DEF Parsed
<1> QED
  BY <1>2, <1>6, Zenon DEF SameRows

-----------------------------------------------------------------------------
(* What is read from the log, in terms of its lines.                       *)

LEMMA OpenEventsAreLines ==
  ASSUME NEW ls
  PROVE  OpenEvents(ls) = {ls[i] : i \in OpenLines(ls)}
BY DEF OpenEvents, OpenLines

\* One open event of a type is enough for the latest to exist, if there is
\* never more than one.
LEMMA OpenOfTypeIsOpen ==
  ASSUME NEW ls \in Seq(Line), OneOpen(ls), NEW type
  PROVE  /\ \A ev \in OpenOfType(ls, type) :
              \E i \in OpenLines(ls) : ls[i] = ev /\ ls[i].type = type
         /\ OpenOfType(ls, type) # {} <=> HasOpen(ls, type)
<1>1. \A ev \in OpenOfType(ls, type) :
        \E i \in OpenLines(ls) : ls[i] = ev /\ ls[i].type = type
  BY OpenEventsAreLines DEF OpenOfType
<1>2. ASSUME NEW i \in OpenLines(ls), ls[i].type = type
      PROVE  ls[i] \in OpenOfType(ls, type)
  <2>1. ls[i] \in {ev \in OpenEvents(ls) : ev.type = type}
    BY <1>2, OpenEventsAreLines
  <2>2. \A other \in {ev \in OpenEvents(ls) : ev.type = type} : other = ls[i]
    BY <1>2, OpenEventsAreLines DEF OneOpen
  <2>3. ls[i].ts \in Nat
    BY FileAssumption, ParsedRow, RecordFields DEF OpenLines
  <2> QED
    BY <2>1, <2>2, <2>3 DEF OpenOfType
<1> QED
  BY <1>1, <1>2 DEF HasOpen

-----------------------------------------------------------------------------
(* A log that has lost the rows of some events whole, none of them open, is *)
(* as coherent as before: new is what is left of old, and f says where its  *)
(* rows were.                                                              *)

LeftOf(new, old, f) ==
  /\ f \in [Parsed(new) -> Parsed(old)]
  /\ \A i \in Parsed(new) : new[i] = old[f[i]]
  /\ \A i, j \in Parsed(new) : i < j => f[i] < f[j]
  /\ \A i \in Parsed(new), j \in Parsed(old) :
       old[j].id = new[i].id => \E h \in Parsed(new) : f[h] = j

LEMMA LeftInOrder ==
  ASSUME NEW old \in Seq(Line), NEW new \in Seq(Line), NEW f, LeftOf(new, old, f),
         NEW i \in Parsed(new), NEW j \in Parsed(new)
  PROVE  /\ f[i] \in Parsed(old) /\ f[i] \in Nat /\ f[j] \in Nat
         /\ new[i] = old[f[i]]
         /\ f[i] < f[j] <=> i < j
         /\ f[i] = f[j] => i = j
<1>1. f[i] \in Parsed(old) /\ f[j] \in Parsed(old)
  BY DEF LeftOf
<1>2. f[i] \in Nat /\ f[j] \in Nat /\ i \in Nat /\ j \in Nat
  BY <1>1, ParsedRow
<1>3. (i < j => f[i] < f[j]) /\ (j < i => f[j] < f[i])
  BY DEF LeftOf
<1>4. new[i] = old[f[i]]
  BY DEF LeftOf
<1> QED
  BY <1>1, <1>2, <1>3, <1>4

LEMMA LeftOpen ==
  ASSUME NEW old \in Seq(Line), NEW new \in Seq(Line), NEW f, LeftOf(new, old, f),
         NEW i \in Parsed(new)
  PROVE  i \in OpenLines(new) <=> f[i] \in OpenLines(old)
<1>1. new[i] = old[f[i]] /\ f[i] \in Parsed(old)
  BY LeftInOrder
<1>2. ASSUME i \in OpenLines(new),
             NEW h \in Parsed(old), h > f[i], old[h].id = old[f[i]].id
      PROVE  old[h].status # "END"
  <2>1. PICK g \in Parsed(new) : f[g] = h
    BY <1>1, <1>2 DEF LeftOf
  <2>2. new[g] = old[h] /\ g \in Nat /\ i \in Nat
    BY <2>1, LeftInOrder, ParsedRow
  <2>3. f[i] < f[g]
    BY <1>2, <2>1, LeftInOrder
  <2>4. i < g
    BY <2>3, LeftInOrder
  <2> QED
    BY <1>1, <1>2, <2>2, <2>4 DEF OpenLines
<1>3. ASSUME f[i] \in OpenLines(old),
             NEW h \in Parsed(new), h > i, new[h].id = new[i].id
      PROVE  new[h].status # "END"
  <2>1. f[h] \in Parsed(old) /\ new[h] = old[f[h]] /\ f[h] \in Nat /\ f[i] \in Nat
    BY LeftInOrder
  <2>2. i < h
    BY <1>3, ParsedRow
  <2>3. f[h] > f[i]
    BY <2>1, <2>2, LeftInOrder
  <2> QED
    BY <1>1, <1>3, <2>1, <2>3 DEF OpenLines
<1> QED
  BY <1>1, <1>2, <1>3 DEF OpenLines

LEMMA LeftCoherent ==
  ASSUME NEW old \in Seq(Line), NEW new \in Seq(Line), NEW f, LeftOf(new, old, f),
         Coherent(old)
  PROVE  Coherent(new) /\ (Monotone(old) => Monotone(new))
<1>1. Kinds(new)
  BY LeftInOrder DEF Coherent, Kinds
<1>2. Pairs(new)
  BY LeftInOrder DEF Coherent, Pairs
<1>3. Begun(new)
  <2> SUFFICES ASSUME NEW j \in Parsed(new), new[j].status = "END"
               PROVE  \E i \in Parsed(new) : i < j /\ new[i].id = new[j].id
    BY DEF Begun
  <2>1. f[j] \in Parsed(old) /\ new[j] = old[f[j]]
    BY LeftInOrder
  <2>2. PICK h \in Parsed(old) : h < f[j] /\ old[h].id = old[f[j]].id
    BY <2>1 DEF Coherent, Begun
  <2>3. PICK i \in Parsed(new) : f[i] = h
    BY <2>1, <2>2 DEF LeftOf
  <2> QED
    BY <2>1, <2>2, <2>3, LeftInOrder
<1>4. OneOpen(new)
  <2> SUFFICES ASSUME NEW i \in OpenLines(new), NEW j \in OpenLines(new),
                      new[i].type = new[j].type
               PROVE  i = j
    BY DEF OneOpen
  <2>1. i \in Parsed(new) /\ j \in Parsed(new)
    BY DEF OpenLines
  <2>2. f[i] \in OpenLines(old) /\ f[j] \in OpenLines(old)
    BY <2>1, LeftOpen
  <2>3. old[f[i]].type = old[f[j]].type
    BY <2>1, LeftInOrder
  <2>4. f[i] = f[j]
    BY <2>2, <2>3 DEF Coherent, OneOpen
  <2> QED
    BY <2>1, <2>4, LeftInOrder
<1>5. Monotone(old) => Monotone(new)
  BY LeftInOrder DEF Monotone
<1> QED
  BY <1>1, <1>2, <1>3, <1>4, <1>5 DEF Coherent

-----------------------------------------------------------------------------
(* A row that the code may append to ls.                                   *)

Unused(ls, id) == \A i \in Parsed(ls) : ls[i].id # id

Fits(ls, rec) ==
  /\ rec \in EventRecord
  /\ CASE rec.status = "START" ->
            rec.type \in Duration /\ Unused(ls, rec.id) /\ ~HasOpen(ls, rec.type)
       [] rec.status = "INSTANT" ->
            rec.type \in Instant /\ Unused(ls, rec.id)
       [] rec.status = "END" ->
            \E i \in OpenLines(ls) : ls[i].id = rec.id /\ ls[i].type = rec.type

LEMMA FittingRow ==
  ASSUME NEW ls, NEW rec, Fits(ls, rec)
  PROVE  /\ rec \in EventRecord
         /\ \/ /\ rec.status = "START" /\ rec.type \in Duration
               /\ Unused(ls, rec.id) /\ ~HasOpen(ls, rec.type)
            \/ rec.status = "INSTANT" /\ rec.type \in Instant /\ Unused(ls, rec.id)
            \/ /\ rec.status = "END"
               /\ \E i \in OpenLines(ls) : ls[i].id = rec.id /\ ls[i].type = rec.type
<1>1. rec \in EventRecord /\ rec.status \in {"START", "END", "INSTANT"}
  BY RecordFields DEF Fits
<1>2. CASE rec.status = "START"
  BY <1>1, <1>2 DEF Fits
<1>3. CASE rec.status = "INSTANT"
  BY <1>1, <1>3 DEF Fits
<1>4. CASE rec.status = "END"
  BY <1>1, <1>4 DEF Fits
<1> QED
  BY <1>1, <1>2, <1>3, <1>4

\* An open event is the only row of its id.
LEMMA OpenIsAlone ==
  ASSUME NEW ls \in Seq(Line), Pairs(ls), NEW i \in OpenLines(ls),
         NEW j \in Parsed(ls), ls[j].id = ls[i].id
  PROVE  i = j
<1>1. i \in Parsed(ls) /\ ls[i].status = "START"
  BY DEF OpenLines
<1>2. i \in Nat /\ j \in Nat
  BY <1>1, ParsedRow
<1>3. CASE i < j
  BY <1>1, <1>2, <1>3 DEF OpenLines, Pairs
<1>4. CASE j < i
  <2>1. ls[i].status = "END"
    BY <1>1, <1>4 DEF Pairs
  <2> QED
    BY <1>1, <2>1
<1> QED
  BY <1>2, <1>3, <1>4

\* Its key is a new one.
LEMMA FittingKey ==
  ASSUME NEW ls \in Seq(Line), Pairs(ls), NEW rec, Fits(ls, rec), NEW j \in Parsed(ls)
  PROVE  KeyOf(ls[j]) # KeyOf(rec) /\ ls[j] # rec
<1> SUFFICES ASSUME ls[j].id = rec.id, ls[j].status = rec.status
             PROVE  FALSE
  BY DEF KeyOf
<1>1. rec.status = "END" /\ \E i \in OpenLines(ls) : ls[i].id = rec.id
  BY FittingRow DEF Unused
<1>2. PICK i \in OpenLines(ls) : ls[i].id = rec.id
  BY <1>1
<1>3. i = j
  BY <1>2, OpenIsAlone
<1> QED
  BY <1>1, <1>3 DEF OpenLines

LEMMA FittingOpens ==
  ASSUME NEW ls \in Seq(Line), Coherent(ls), NEW rec, Fits(ls, rec),
         NEW new, Appended(new, ls, rec)
  PROVE  /\ \A i \in Parsed(ls) :
              i \in OpenLines(new)
                <=> i \in OpenLines(ls) /\ ~(rec.status = "END" /\ ls[i].id = rec.id)
         /\ Len(ls) + 1 \in OpenLines(new) <=> rec.status = "START"
<1> DEFINE n == Len(ls) + 1
<1>1. /\ rec \in EventRecord
      /\ Parsed(new) = Parsed(ls) \cup {n} /\ new[n] = rec /\ n \in Nat
      /\ \A i \in Parsed(ls) : new[i] = ls[i] /\ i \in Nat /\ i < n
  BY FittingRow DEF Appended
<1> HIDE DEF n
<1>2. \A h \in Parsed(new) : ~(h > n)
  BY <1>1
<1>3. n \in OpenLines(new) <=> rec.status = "START"
  BY <1>1, <1>2 DEF OpenLines
<1>4. ASSUME NEW i \in Parsed(ls)
      PROVE  i \in OpenLines(new)
               <=> i \in OpenLines(ls) /\ ~(rec.status = "END" /\ ls[i].id = rec.id)
  <2>1. new[i] = ls[i] /\ n > i /\ i \in Parsed(new) /\ n \in Parsed(new)
    BY <1>1
  <2>2. ASSUME i \in OpenLines(new)
        PROVE  i \in OpenLines(ls) /\ ~(rec.status = "END" /\ ls[i].id = rec.id)
    <3>1. ~(rec.status = "END" /\ ls[i].id = rec.id)
      BY <1>1, <2>1, <2>2 DEF OpenLines
    <3>2. \A h \in Parsed(ls) : h > i /\ ls[h].id = ls[i].id => ls[h].status # "END"
      BY <1>1, <2>1, <2>2 DEF OpenLines
    <3> QED
      BY <2>1, <2>2, <3>1, <3>2 DEF OpenLines
  <2>3. ASSUME i \in OpenLines(ls), ~(rec.status = "END" /\ ls[i].id = rec.id)
        PROVE  i \in OpenLines(new)
    <3>1. ASSUME NEW h \in Parsed(new), h > i, new[h].id = new[i].id
          PROVE  new[h].status # "END"
      <4>1. CASE h = n
        BY <1>1, <2>1, <2>3, <3>1, <4>1
      <4>2. CASE h \in Parsed(ls)
        BY <1>1, <2>1, <2>3, <3>1, <4>2 DEF OpenLines
      <4> QED
        BY <1>1, <4>1, <4>2
    <3> QED
      BY <2>1, <2>3, <3>1 DEF OpenLines
  <2> QED
    BY <2>2, <2>3
<1> QED
  BY <1>3, <1>4 DEF n

LEMMA FittingHasOpen ==
  ASSUME NEW ls \in Seq(Line), Coherent(ls), NEW rec, Fits(ls, rec),
         NEW new, Appended(new, ls, rec), NEW type \in Duration
  PROVE  HasOpen(new, type)
           <=> IF type = rec.type THEN rec.status = "START" ELSE HasOpen(ls, type)
<1> DEFINE n == Len(ls) + 1
<1>1. /\ rec \in EventRecord
      /\ Parsed(new) = Parsed(ls) \cup {n} /\ new[n] = rec
      /\ \A i \in Parsed(ls) : new[i] = ls[i]
  BY FittingRow DEF Appended
<1>2. /\ \A i \in Parsed(ls) :
           i \in OpenLines(new)
             <=> i \in OpenLines(ls) /\ ~(rec.status = "END" /\ ls[i].id = rec.id)
      /\ n \in OpenLines(new) <=> rec.status = "START"
  BY FittingOpens
<1>3. OpenLines(new) \subseteq Parsed(new) /\ OpenLines(ls) \subseteq Parsed(ls)
  BY DEF OpenLines
<1> HIDE DEF n
<1>4. CASE type = rec.type
  <2>1. CASE rec.status = "START"
    BY <1>1, <1>2, <1>4, <2>1 DEF HasOpen
  <2>2. CASE rec.status = "INSTANT"
    <3>1. rec.type \in Instant
      BY <2>2, FittingRow
    <3> QED
      BY <1>4, <3>1, LogAssumption
  <2>3. CASE rec.status = "END"
    <3>1. PICK e \in OpenLines(ls) : ls[e].id = rec.id /\ ls[e].type = rec.type
      BY <2>3, FittingRow
    <3>2. ASSUME NEW i \in OpenLines(new), new[i].type = type
          PROVE  FALSE
      <4>1. i \in Parsed(ls) /\ i \in OpenLines(ls) /\ ls[i].id # rec.id
        BY <1>1, <1>2, <1>3, <2>3, <3>2
      <4>2. ls[i].type = ls[e].type
        BY <1>1, <1>4, <3>1, <3>2, <4>1
      <4>3. i = e
        BY <4>1, <4>2 DEF Coherent, OneOpen
      <4> QED
        BY <3>1, <4>1, <4>3
    <3> QED
      BY <1>4, <2>3, <3>2 DEF HasOpen
  <2> QED
    BY <1>1, <2>1, <2>2, <2>3, RecordFields
<1>5. CASE type # rec.type
  <2>1. ASSUME NEW i \in OpenLines(new), new[i].type = type
        PROVE  i \in OpenLines(ls) /\ ls[i].type = type
    BY <1>1, <1>2, <1>3, <1>5, <2>1
  <2>2. ASSUME NEW i \in OpenLines(ls), ls[i].type = type
        PROVE  i \in OpenLines(new) /\ new[i].type = type
    <3>1. ~(rec.status = "END" /\ ls[i].id = rec.id)
      <4> SUFFICES ASSUME rec.status = "END", ls[i].id = rec.id
                   PROVE  FALSE
        OBVIOUS
      <4>1. PICK e \in OpenLines(ls) : ls[e].id = rec.id /\ ls[e].type = rec.type
        BY FittingRow
      <4>2. e = i
        BY <1>3, <4>1, OpenIsAlone DEF Coherent
      <4> QED
        BY <1>5, <2>2, <4>1, <4>2
    <3> QED
      BY <1>1, <1>2, <1>3, <2>2, <3>1
  <2> QED
    BY <1>5, <2>1, <2>2 DEF HasOpen
<1> QED
  BY <1>4, <1>5

LEMMA FittingCoherent ==
  ASSUME NEW ls \in Seq(Line), Coherent(ls), NEW rec, Fits(ls, rec),
         NEW new, Appended(new, ls, rec)
  PROVE  Coherent(new)
<1> DEFINE n == Len(ls) + 1
<1>1. /\ rec \in EventRecord
      /\ Parsed(new) = Parsed(ls) \cup {n} /\ new[n] = rec /\ n \in Nat
      /\ \A i \in Parsed(ls) : new[i] = ls[i] /\ i \in Nat /\ i < n
  BY FittingRow DEF Appended
<1>2. /\ \A i \in Parsed(ls) :
           i \in OpenLines(new)
             <=> i \in OpenLines(ls) /\ ~(rec.status = "END" /\ ls[i].id = rec.id)
      /\ n \in OpenLines(new) <=> rec.status = "START"
  BY FittingOpens
<1> HIDE DEF n
<1>3. Kinds(new)
  <2>1. IF rec.status = "INSTANT" THEN rec.type \in Instant ELSE rec.type \in Duration
    <3>1. CASE rec.status = "END"
      <4>1. PICK e \in OpenLines(ls) : ls[e].type = rec.type
        BY <3>1, FittingRow
      <4> QED
        BY <3>1, <4>1 DEF Coherent, Kinds, OpenLines
    <3> QED
      BY <3>1, FittingRow
  <2>2. ASSUME NEW i \in Parsed(ls)
        PROVE  IF new[i].status = "INSTANT" THEN new[i].type \in Instant
               ELSE new[i].type \in Duration
    BY <1>1 DEF Coherent, Kinds
  <2> QED
    BY <1>1, <2>1, <2>2 DEF Kinds
<1>4. Pairs(new)
  <2> SUFFICES ASSUME NEW i \in Parsed(new), NEW j \in Parsed(new),
                      i < j, new[i].id = new[j].id
               PROVE  /\ new[i].status = "START" /\ new[j].status = "END"
                      /\ new[i].type = new[j].type
    BY DEF Pairs
  <2>1. i \in Parsed(ls)
    BY <1>1
  <2>2. CASE j \in Parsed(ls)
    BY <1>1, <2>1, <2>2 DEF Coherent, Pairs
  <2>3. CASE j = n
    <3>1. ls[i].id = rec.id
      BY <1>1, <2>1, <2>3
    <3>2. rec.status = "END"
      BY <2>1, <3>1, FittingRow DEF Unused
    <3>3. PICK e \in OpenLines(ls) : ls[e].id = rec.id /\ ls[e].type = rec.type
      BY <3>2, FittingRow
    <3>4. e = i
      BY <2>1, <3>1, <3>3, OpenIsAlone DEF Coherent
    <3> QED
      BY <1>1, <2>1, <2>3, <3>2, <3>3, <3>4 DEF OpenLines
  <2> QED
    BY <1>1, <2>2, <2>3
<1>5. Begun(new)
  <2> SUFFICES ASSUME NEW j \in Parsed(new), new[j].status = "END"
               PROVE  \E i \in Parsed(new) : i < j /\ new[i].id = new[j].id
    BY DEF Begun
  <2>1. CASE j \in Parsed(ls)
    <3>1. PICK i \in Parsed(ls) : i < j /\ ls[i].id = ls[j].id
      BY <1>1, <2>1 DEF Coherent, Begun
    <3> QED
      BY <1>1, <2>1, <3>1
  <2>2. CASE j = n
    <3>1. rec.status = "END"
      BY <1>1, <2>2
    <3>2. PICK e \in OpenLines(ls) : ls[e].id = rec.id
      BY <3>1, FittingRow
    <3> QED
      BY <1>1, <2>2, <3>2 DEF OpenLines
  <2> QED
    BY <1>1, <2>1, <2>2
<1>6. OneOpen(new)
  <2>1. ASSUME NEW i \in OpenLines(new), NEW j \in OpenLines(new),
               new[i].type = new[j].type, i \in Parsed(ls), j = n
        PROVE  FALSE
    <3>1. rec.status = "START"
      BY <1>2, <2>1
    <3>2. i \in OpenLines(ls) /\ ls[i].type = rec.type
      BY <1>1, <1>2, <2>1
    <3> QED
      BY <3>1, <3>2, FittingRow DEF HasOpen
  <2>2. ASSUME NEW i \in OpenLines(new), NEW j \in OpenLines(new),
               new[i].type = new[j].type, i \in Parsed(ls), j \in Parsed(ls)
        PROVE  i = j
    BY <1>1, <1>2, <2>2 DEF Coherent, OneOpen
  <2>3. OpenLines(new) \subseteq Parsed(ls) \cup {n}
    BY <1>1 DEF OpenLines
  <2> QED
    BY <2>1, <2>2, <2>3 DEF OneOpen
<1> QED
  BY <1>3, <1>4, <1>5, <1>6 DEF Coherent

-----------------------------------------------------------------------------
(* Writing: whatever comes short, the row is in the log once or it is not,  *)
(* and the rows before it are what they were.                              *)

LEMMA PrintedLines ==
  ASSUME NEW f, NEW rec, NEW outcome, f.unterminated \in BOOLEAN
  PROVE  /\ Printed(f, rec, outcome).lines
              \in {f.lines, Append(f.lines, Torn), Append(f.lines, rec)}
         /\ Printed(f, rec, outcome).unterminated \in BOOLEAN
         /\ f.unterminated => Printed(f, rec, outcome).lines = f.lines
         /\ outcome = "none" => Printed(f, rec, outcome) = [lines |-> f.lines,
                                                     unterminated |-> f.unterminated]
         /\ outcome \notin {"none", "all"} => Printed(f, rec, outcome).unterminated
BY DEF Printed

LEMMA RetryOutcome ==
  ASSUME NEW f, f.unterminated \in BOOLEAN, NEW rec, NEW short, "all" \notin short,
         NEW o \in PrintedWithRetry(f, rec, short)
  PROVE  /\ o.file.lines \in {f.lines, Append(f.lines, Torn), Append(f.lines, rec)}
         /\ o.file.unterminated \in BOOLEAN
         /\ o.ok \in BOOLEAN
<1>1. \/ o = [file |-> Printed(f, rec, "all"), ok |-> TRUE]
      \/ \E a \in short, b \in short \cup {"all"} :
           o = [file |-> Printed(Printed(f, rec, a), rec, b), ok |-> b = "all"]
  BY DEF PrintedWithRetry
<1>2. CASE o = [file |-> Printed(f, rec, "all"), ok |-> TRUE]
  BY <1>2, PrintedLines
<1>3. CASE \E a \in short, b \in short \cup {"all"} :
             o = [file |-> Printed(Printed(f, rec, a), rec, b), ok |-> b = "all"]
  <2>1. PICK a \in short, b \in short \cup {"all"} :
          o = [file |-> Printed(Printed(f, rec, a), rec, b), ok |-> b = "all"]
    BY <1>3
  <2> DEFINE g == Printed(f, rec, a)
  <2>2. /\ g.lines \in {f.lines, Append(f.lines, Torn), Append(f.lines, rec)}
        /\ g.unterminated \in BOOLEAN
    BY PrintedLines
  <2>3. g.lines = f.lines \/ g.unterminated
    <3>1. CASE a = "none"
      BY <3>1, PrintedLines
    <3>2. CASE a # "none"
      BY <3>2, PrintedLines
    <3> QED
      BY <3>1, <3>2
  <2>4. o.file = Printed(g, rec, b) /\ o.ok \in BOOLEAN
    BY <2>1
  <2> HIDE DEF g
  <2>5. /\ o.file.lines \in {g.lines, Append(g.lines, Torn), Append(g.lines, rec)}
        /\ o.file.unterminated \in BOOLEAN
        /\ g.unterminated => o.file.lines = g.lines
    BY <2>2, <2>4, PrintedLines
  <2> QED
    BY <2>2, <2>3, <2>4, <2>5
<1> QED
  BY <1>1, <1>2, <1>3

LEMMA AppendsOutcome ==
  ASSUME unterminated \in BOOLEAN, NEW rec, NEW o \in Appends(rec)
  PROVE  /\ o.file.lines \in {lines, Append(lines, Torn), Append(lines, rec)}
         /\ o.file.unterminated \in BOOLEAN
         /\ o.ok \in BOOLEAN
<1> DEFINE f == [lines |-> lines, unterminated |-> unterminated]
<1>1. f.lines = lines /\ f.unterminated \in BOOLEAN
  OBVIOUS
<1>2. "all" \notin ShortOutcomes
  BY DEF ShortOutcomes
<1>3. o \in PrintedWithRetry(f, rec, ShortOutcomes)
  BY DEF Appends
<1> HIDE DEF f
<1>4. /\ o.file.lines \in {f.lines, Append(f.lines, Torn), Append(f.lines, rec)}
      /\ o.file.unterminated \in BOOLEAN
      /\ o.ok \in BOOLEAN
  BY <1>1, <1>2, <1>3, RetryOutcome
<1> QED
  BY <1>1, <1>4

\* What LogRow has done: the row was kept or not, and the writer was told ok
\* or not.
RowLogged(rec, byHand, kept, ok) ==
  /\ IF kept THEN Appended(lines', lines, rec) ELSE SameRows(lines', lines)
  /\ IF ok THEN lastWritten' = rec.ts /\ errors' = errors
     ELSE lastWritten' = lastWritten /\ errors' \in 0..2
  /\ IF ok /\ shouldNotifyForStatus(rec.type, rec.status) THEN callNotifyEvent(rec)
     ELSE notified' = notified /\ repeated' = repeated
  /\ misreported' = IF ok = kept THEN misreported ELSE misreported \cup {KeyOf(rec)}
  /\ astray' = IF kept /\ ~byHand THEN astray \ {rec.type} ELSE astray \cup {rec.type}

LEMMA SameLines ==
  ASSUME NEW ls \in Seq(Line)
  PROVE  SameRows(ls, ls)
BY DEF SameRows

LEMMA LogRowOutcome ==
  ASSUME TypeOK, Pairs(lines), NEW rec, Fits(lines, rec), NEW byHand \in BOOLEAN,
         LogRow(rec, byHand)
  PROVE  /\ unterminated' \in BOOLEAN
         /\ \E kept, ok \in BOOLEAN : RowLogged(rec, byHand, kept, ok)
<1> DEFINE kept(o) == rec \in Readable(o.file.lines)
<1>1. PICK o \in Appends(rec) :
        /\ lines' = o.file.lines /\ unterminated' = o.file.unterminated
        /\ IF o.ok
           THEN /\ lastWritten' = rec.ts
                /\ UNCHANGED errors
                /\ IF shouldNotifyForStatus(rec.type, rec.status)
                   THEN callNotifyEvent(rec) ELSE UNCHANGED <<notified, repeated>>
           ELSE /\ errors' = recordFailure
                /\ UNCHANGED <<lastWritten, notified, repeated>>
        /\ misreported' = IF o.ok = kept(o) THEN misreported ELSE misreported \cup {KeyOf(rec)}
        /\ astray' = IF kept(o) /\ ~byHand THEN astray \ {rec.type} ELSE astray \cup {rec.type}
  BY DEF LogRow
<1>2. lines \in Seq(Line) /\ unterminated \in BOOLEAN /\ errors \in 0..2
  BY DEF TypeOK
<1>3. /\ lines' \in {lines, Append(lines, Torn), Append(lines, rec)}
      /\ unterminated' \in BOOLEAN /\ o.ok \in BOOLEAN
  BY <1>1, <1>2, AppendsOutcome
<1>4. rec \in EventRecord
  BY FittingRow
<1>5. rec \notin Readable(lines)
  BY <1>2, FittingKey DEF Readable
<1>6. CASE lines' = Append(lines, rec)
  <2>1. Appended(lines', lines, rec)
    BY <1>2, <1>4, <1>6, AppendedRow
  <2>2. rec \in Readable(lines')
    BY <2>1 DEF Appended, Readable
  <2>3. CASE o.ok
    <3>1. RowLogged(rec, byHand, TRUE, TRUE)
      BY <1>1, <2>1, <2>2, <2>3 DEF RowLogged
    <3> QED
      BY <1>3, <3>1
  <2>4. CASE ~o.ok
    <3>1. errors' \in 0..2
      BY <1>1, <1>2, <2>4 DEF recordFailure
    <3>2. RowLogged(rec, byHand, TRUE, FALSE)
      BY <1>1, <1>3, <2>1, <2>2, <2>4, <3>1 DEF RowLogged
    <3> QED
      BY <1>3, <3>2
  <2> QED
    BY <2>3, <2>4
<1>7. CASE lines' \in {lines, Append(lines, Torn)}
  <2>1. SameRows(lines', lines)
    BY <1>2, <1>7, SameLines, AppendedTorn
  <2>2. rec \notin Readable(lines')
    BY <1>5, <2>1 DEF SameRows, Readable
  <2>3. CASE o.ok
    <3>1. RowLogged(rec, byHand, FALSE, TRUE)
      BY <1>1, <2>1, <2>2, <2>3 DEF RowLogged
    <3> QED
      BY <1>3, <3>1
  <2>4. CASE ~o.ok
    <3>1. errors' \in 0..2
      BY <1>1, <1>2, <2>4 DEF recordFailure
    <3>2. RowLogged(rec, byHand, FALSE, FALSE)
      BY <1>1, <1>3, <2>1, <2>2, <2>4, <3>1 DEF RowLogged
    <3> QED
      BY <1>3, <3>2
  <2> QED
    BY <2>3, <2>4
<1> QED
  BY <1>3, <1>6, <1>7

LEMMA SameRowsOpen ==
  ASSUME NEW ls \in Seq(Line), NEW new, SameRows(new, ls)
  PROVE  OpenLines(new) = OpenLines(ls) /\ \A type : HasOpen(new, type) <=> HasOpen(ls, type)
<1>1. \A i \in Parsed(ls) : i \in OpenLines(new) <=> i \in OpenLines(ls)
  BY DEF OpenLines, SameRows
<1>2. OpenLines(new) \subseteq Parsed(ls) /\ OpenLines(ls) \subseteq Parsed(ls)
  BY DEF OpenLines, SameRows
<1>3. OpenLines(new) = OpenLines(ls)
  BY <1>1, <1>2
<1> QED
  BY <1>2, <1>3 DEF HasOpen, SameRows

LEMMA SameRowsCoherent ==
  ASSUME NEW ls \in Seq(Line), NEW new, SameRows(new, ls), Coherent(ls)
  PROVE  Coherent(new)
<1>1. OpenLines(new) = OpenLines(ls) /\ OpenLines(ls) \subseteq Parsed(ls)
  BY SameRowsOpen DEF OpenLines
<1>2. Kinds(new)
  BY DEF Coherent, Kinds, SameRows
<1>3. Pairs(new)
  BY DEF Coherent, Pairs, SameRows
<1>4. Begun(new)
  BY DEF Coherent, Begun, SameRows
<1>5. OneOpen(new)
  BY <1>1 DEF Coherent, OneOpen, SameRows
<1> QED
  BY <1>2, <1>3, <1>4, <1>5 DEF Coherent

\* The surroundings in which a row is logged: it is no older than the last
\* one, its id is the next or in the log, and said tells of it.
Logs(rec, byHand) ==
  /\ Fits(lines, rec)
  /\ LogRow(rec, byHand)
  /\ lastWritten <= rec.ts
  /\ rec.status # "END" => rec.id = nextId
  /\ nextId' \in {nextId, nextId + 1} /\ nextId' \in 1..(MaxId + 1)
  /\ rec.id < nextId'
  /\ up' = TRUE /\ rotation' = rotation /\ blind' = blind
  /\ said' \in [Duration -> {"START", "END"}]
  /\ \A type \in Duration : type # rec.type => said'[type] = said[type]
  /\ byHand \/ rec.type \notin Duration \/ said'[rec.type] = rec.status

LEMMA LogsTypes ==
  ASSUME IInv, NEW rec, NEW byHand \in BOOLEAN, Logs(rec, byHand),
         NEW kept \in BOOLEAN, NEW ok \in BOOLEAN, RowLogged(rec, byHand, kept, ok),
         unterminated' \in BOOLEAN
  PROVE  TypeOK' /\ BootsWithId' /\ Coherent(lines)'
<1>1. lines \in Seq(Line) /\ Coherent(lines) /\ TypeOK
  BY DEF IInv, TypeOK
<1>2. rec \in EventRecord /\ rec.type \in Type /\ rec.ts \in Time /\ rec.id \in Id
      /\ KeyOf(rec) \in Id \X {"START", "END", "INSTANT"}
  BY FittingRow, RecordFields DEF Logs, KeyOf
<1>3. nextId \in Nat /\ nextId' \in Nat /\ nextId <= nextId' /\ rec.id < nextId'
  BY <1>1, FileAssumption DEF Logs, TypeOK
<1>4. \A i \in Parsed(lines) : lines[i].id < nextId'
  <2> SUFFICES ASSUME NEW i \in Parsed(lines)
               PROVE  lines[i].id < nextId'
    OBVIOUS
  <2>1. lines[i].id < nextId /\ lines[i].id \in Nat
    BY <1>1, ParsedRow, RecordFields DEF TypeOK, Id
  <2> QED
    BY <1>3, <2>1
<1>5. lines' \in Seq(Line) /\ \A i \in Parsed(lines') : lines'[i].id < nextId'
  <2>1. CASE kept
    BY <1>3, <1>4, <2>1 DEF RowLogged, Appended
  <2>2. CASE ~kept
    BY <1>4, <2>2 DEF RowLogged, SameRows
  <2> QED
    BY <2>1, <2>2
<1>6. Coherent(lines')
  <2>1. CASE kept
    BY <1>1, <2>1, FittingCoherent DEF Logs, RowLogged
  <2>2. CASE ~kept
    BY <1>1, <2>2, SameRowsCoherent DEF RowLogged
  <2> QED
    BY <2>1, <2>2
<1>7. lastWritten' \in Time \cup {0} /\ errors' \in 0..2
  BY <1>1, <1>2 DEF RowLogged, TypeOK
<1>8. notified' \cup repeated' \cup misreported' \subseteq Id \X {"START", "END", "INSTANT"}
  <2>1. notified' \subseteq notified \cup {KeyOf(rec)} /\ repeated' \subseteq repeated \cup {KeyOf(rec)}
    BY DEF RowLogged, callNotifyEvent
  <2>2. misreported' \subseteq misreported \cup {KeyOf(rec)}
    BY DEF RowLogged
  <2> QED
    BY <1>1, <1>2, <2>1, <2>2 DEF TypeOK
<1>9. astray' \subseteq Type
  BY <1>1, <1>2 DEF RowLogged, TypeOK
<1>10. /\ up' \in BOOLEAN /\ rotation' \in Time \cup {0} /\ blind' \in BOOLEAN
       /\ nextId' \in 1..(MaxId + 1) /\ said' \in [Duration -> {"START", "END"}]
  BY <1>1 DEF Logs, TypeOK
<1>11. TypeOK'
  BY <1>5, <1>7, <1>8, <1>9, <1>10 DEF TypeOK
<1>12. BootsWithId'
  BY DEF BootsWithId, Logs
<1> QED
  BY <1>6, <1>11, <1>12 DEF Coherent

LEMMA LogsAgree ==
  ASSUME IInv, NEW rec, NEW byHand \in BOOLEAN, Logs(rec, byHand),
         NEW kept \in BOOLEAN, NEW ok \in BOOLEAN, RowLogged(rec, byHand, kept, ok)
  PROVE  Agreement'
<1>1. lines \in Seq(Line) /\ Coherent(lines) /\ Agreement
  BY DEF IInv, TypeOK
<1> SUFFICES ASSUME NEW type \in Duration, type \notin astray'
             PROVE  said'[type] = "START" <=> HasOpen(lines', type)
  BY DEF Agreement
<1>2. CASE type = rec.type
  <2>1. kept /\ ~byHand
    BY <1>2 DEF RowLogged
  <2>2. HasOpen(lines', type) <=> rec.status = "START"
    BY <1>1, <1>2, <2>1, FittingHasOpen DEF Logs, RowLogged
  <2>3. said'[type] = rec.status
    BY <1>2, <2>1 DEF Logs
  <2> QED
    BY <2>2, <2>3
<1>3. CASE type # rec.type
  <2>1. type \notin astray /\ said'[type] = said[type]
    BY <1>3 DEF RowLogged, Logs
  <2>2. HasOpen(lines', type) <=> HasOpen(lines, type)
    <3>1. CASE kept
      BY <1>1, <1>3, <3>1, FittingHasOpen DEF Logs, RowLogged
    <3>2. CASE ~kept
      BY <1>1, <3>2, SameRowsOpen DEF RowLogged
    <3> QED
      BY <3>1, <3>2
  <2> QED
    BY <1>1, <2>1, <2>2 DEF Agreement
<1> QED
  BY <1>2, <1>3

LEMMA LogsClamped ==
  ASSUME IInv, NEW rec, NEW byHand \in BOOLEAN, Logs(rec, byHand),
         NEW kept \in BOOLEAN, NEW ok \in BOOLEAN, RowLogged(rec, byHand, kept, ok)
  PROVE  Clamped'
<1>1. lines \in Seq(Line) /\ Clamped /\ lastWritten \in Nat
  BY LogAssumption, FileAssumption DEF IInv, TypeOK
<1>2. rec.ts \in Nat /\ lastWritten <= rec.ts
  BY FileAssumption, FittingRow, RecordFields DEF Logs
<1> SUFFICES ASSUME ~blind', misreported' = {}
             PROVE  Monotone(lines') /\ \A i \in Parsed(lines') : lines'[i].ts <= lastWritten'
  BY DEF Clamped
<1>3. ok = kept /\ misreported = {} /\ ~blind
  BY DEF RowLogged, Logs
<1>4. Monotone(lines) /\ \A i \in Parsed(lines) : lines[i].ts <= lastWritten
  BY <1>1, <1>3 DEF Clamped
<1>5. \A i \in Parsed(lines) : lines[i].ts \in Nat /\ lines[i].ts <= rec.ts
  <2> SUFFICES ASSUME NEW i \in Parsed(lines)
               PROVE  lines[i].ts \in Nat /\ lines[i].ts <= rec.ts
    OBVIOUS
  <2>1. lines[i].ts \in Time /\ lines[i].ts <= lastWritten
    BY <1>1, <1>4, ParsedRow, RecordFields
  <2>2. lines[i].ts \in Nat
    BY <2>1, FileAssumption
  <2> QED
    BY <1>1, <1>2, <2>1, <2>2
<1>6. CASE kept
  <2>1. Appended(lines', lines, rec) /\ lastWritten' = rec.ts
    BY <1>3, <1>6 DEF RowLogged
  <2>2. \A i \in Parsed(lines') : lines'[i].ts <= lastWritten'
    BY <1>2, <1>5, <2>1 DEF Appended
  <2>3. Monotone(lines')
    <3> SUFFICES ASSUME NEW i \in Parsed(lines'), NEW j \in Parsed(lines'), i < j
                 PROVE  lines'[i].ts <= lines'[j].ts
      BY DEF Monotone
    <3>1. i \in Parsed(lines) /\ lines'[i] = lines[i]
      BY <2>1 DEF Appended
    <3>2. CASE j \in Parsed(lines)
      BY <1>4, <2>1, <3>1, <3>2 DEF Appended, Monotone
    <3>3. CASE j = Len(lines) + 1
      BY <1>5, <2>1, <3>1, <3>3 DEF Appended
    <3> QED
      BY <2>1, <3>2, <3>3 DEF Appended
  <2> QED
    BY <2>2, <2>3
<1>7. CASE ~kept
  <2>1. SameRows(lines', lines) /\ lastWritten' = lastWritten
    BY <1>3, <1>7 DEF RowLogged
  <2> QED
    BY <1>4, <2>1 DEF SameRows, Monotone
<1> QED
  BY <1>6, <1>7

\* A row that the policy wants notified is anything but the START of a type
\* that notifies its END alone.
LEMMA PolicyOfRow ==
  ASSUME NEW ls \in Seq(Line), Kinds(ls), NEW rec, Fits(ls, rec)
  PROVE  shouldNotifyForStatus(rec.type, rec.status)
           <=> (rec.status = "START" => rec.type \notin OnlyEnd)
<1>1. CASE rec.status = "INSTANT"
  <2>1. rec.type \in Instant
    BY <1>1, FittingRow
  <2> QED
    BY <1>1, <2>1, LogAssumption DEF shouldNotifyForStatus
<1>2. CASE rec.status \in {"START", "END"}
  <2>1. rec.type \in Duration
    <3>1. CASE rec.status = "END"
      <4>1. PICK e \in OpenLines(ls) : ls[e].type = rec.type
        BY <3>1, FittingRow
      <4> QED
        BY <4>1 DEF Kinds, OpenLines
    <3> QED
      BY <1>2, <3>1, FittingRow
  <2>2. rec.type \notin Instant
    BY <2>1, LogAssumption
  <2> QED
    BY <1>2, <2>2 DEF shouldNotifyForStatus
<1> QED
  BY <1>1, <1>2, FittingRow, RecordFields

LEMMA LogsNotify ==
  ASSUME IInv, NEW rec, NEW byHand \in BOOLEAN, Logs(rec, byHand),
         NEW kept \in BOOLEAN, NEW ok \in BOOLEAN, RowLogged(rec, byHand, kept, ok)
  PROVE  RowsNotified' /\ EndsToCome' /\ IdsUsed' /\ (repeated \subseteq misreported)'
<1>1. /\ lines \in Seq(Line) /\ Coherent(lines) /\ TypeOK
      /\ RowsNotified /\ EndsToCome /\ IdsUsed /\ repeated \subseteq misreported
  BY DEF IInv, TypeOK
<1>2. /\ rec \in EventRecord /\ rec.id \in Id /\ rec.id \in Nat
      /\ nextId \in Nat /\ nextId' \in Nat /\ nextId <= nextId' /\ rec.id < nextId'
  BY <1>1, FileAssumption, FittingRow, RecordFields DEF Logs, TypeOK, Id
<1>3. /\ misreported \subseteq misreported'
      /\ misreported' \subseteq misreported \cup {KeyOf(rec)}
      /\ notified \subseteq notified' /\ notified' \subseteq notified \cup {KeyOf(rec)}
      /\ repeated' \subseteq repeated \cup ({KeyOf(rec)} \cap notified)
      /\ ok # kept => KeyOf(rec) \in misreported'
  BY DEF RowLogged, callNotifyEvent
<1>4. \A i \in Parsed(lines) : KeyOf(lines[i]) # KeyOf(rec)
  BY <1>1, FittingKey DEF Coherent, Logs
\* If its key was notified before, it is that of an END.
<1>5. KeyOf(rec) \in notified => KeyOf(rec) \in misreported
  <2> SUFFICES ASSUME KeyOf(rec) \in notified
               PROVE  KeyOf(rec) \in misreported
    OBVIOUS
  <2>1. rec.id < nextId
    BY <1>1 DEF IdsUsed, KeyOf
  <2>2. rec.status = "END"
    BY <1>2, <2>1 DEF Logs
  <2>3. PICK e \in OpenLines(lines) : lines[e].id = rec.id
    BY <2>2, FittingRow DEF Logs
  <2> QED
    BY <1>1, <2>2, <2>3 DEF EndsToCome, KeyOf
<1>6. (repeated \subseteq misreported)'
  BY <1>1, <1>3, <1>5
<1>7. IdsUsed'
  <2> SUFFICES ASSUME NEW key \in notified'
               PROVE  key[1] < nextId'
    BY DEF IdsUsed
  <2>1. CASE key \in notified
    <3>1. key[1] < nextId /\ key[1] \in Nat
      BY <1>1, <2>1 DEF IdsUsed, TypeOK, Id
    <3> QED
      BY <1>2, <3>1
  <2>2. CASE key = KeyOf(rec)
    BY <1>2, <2>2 DEF KeyOf
  <2> QED
    BY <1>3, <2>1, <2>2
\* The rows that were in the log.
<1>8. \A i \in Parsed(lines) : KeyOf(lines[i]) \notin misreported' =>
        (KeyOf(lines[i]) \in notified'
           <=> (lines[i].status = "START" => lines[i].type \notin OnlyEnd))
  BY <1>1, <1>3, <1>4 DEF RowsNotified
\* The new one.
<1>9. kept /\ KeyOf(rec) \notin misreported' =>
        (KeyOf(rec) \in notified' <=> (rec.status = "START" => rec.type \notin OnlyEnd))
  <2> SUFFICES ASSUME kept, KeyOf(rec) \notin misreported'
               PROVE  KeyOf(rec) \in notified' <=> (rec.status = "START" => rec.type \notin OnlyEnd)
    OBVIOUS
  <2>1. ok /\ KeyOf(rec) \notin notified
    BY <1>3, <1>5
  <2>2. KeyOf(rec) \in notified' <=> shouldNotifyForStatus(rec.type, rec.status)
    BY <2>1 DEF RowLogged, callNotifyEvent
  <2> QED
    BY <1>1, <2>2, PolicyOfRow DEF Coherent, Logs
<1>10. RowsNotified'
  <2> SUFFICES ASSUME NEW i \in Parsed(lines')
               PROVE  KeyOf(lines'[i]) \notin misreported' =>
                        (KeyOf(lines'[i]) \in notified'
                           <=> (lines'[i].status = "START" => lines'[i].type \notin OnlyEnd))
    BY DEF RowsNotified, KeyOf
  <2>1. CASE kept
    <3>1. Appended(lines', lines, rec)
      BY <2>1 DEF RowLogged
    <3>2. CASE i \in Parsed(lines)
      BY <1>8, <3>1, <3>2 DEF Appended
    <3>3. CASE i = Len(lines) + 1
      BY <1>9, <2>1, <3>1, <3>3 DEF Appended
    <3> QED
      BY <3>1, <3>2, <3>3 DEF Appended
  <2>2. CASE ~kept
    BY <1>8, <2>2 DEF RowLogged, SameRows
  <2> QED
    BY <2>1, <2>2
<1>11. EndsToCome'
  <2> SUFFICES ASSUME NEW i \in OpenLines(lines'), <<lines'[i].id, "END">> \in notified'
               PROVE  <<lines'[i].id, "END">> \in misreported'
    BY DEF EndsToCome
  <2>1. ASSUME i \in Parsed(lines), lines'[i] = lines[i], i \in OpenLines(lines),
               kept => ~(rec.status = "END" /\ lines[i].id = rec.id)
        PROVE  <<lines'[i].id, "END">> \in misreported'
    <3>1. CASE <<lines[i].id, "END">> \in notified
      BY <1>1, <1>3, <2>1, <3>1 DEF EndsToCome
    <3>2. CASE <<lines[i].id, "END">> \notin notified
      <4>1. <<lines[i].id, "END">> = KeyOf(rec) /\ notified' # notified
        BY <1>3, <2>1, <3>2
      <4>2. rec.status = "END" /\ rec.id = lines[i].id
        BY <4>1 DEF KeyOf
      <4>3. ok /\ ~kept
        BY <2>1, <4>1, <4>2 DEF RowLogged
      <4> QED
        BY <1>3, <2>1, <4>1, <4>3
    <3> QED
      BY <3>1, <3>2
  <2>2. CASE kept
    <3>1. Appended(lines', lines, rec)
      BY <2>2 DEF RowLogged
    <3>2. CASE i \in Parsed(lines)
      <4>1. i \in OpenLines(lines) /\ ~(rec.status = "END" /\ lines[i].id = rec.id)
        BY <1>1, <3>1, <3>2, FittingOpens DEF Logs
      <4> QED
        BY <2>1, <3>1, <3>2, <4>1 DEF Appended
    <3>3. CASE i = Len(lines) + 1
      <4>1. rec.status = "START" /\ lines'[i] = rec
        BY <1>1, <3>1, <3>3, FittingOpens DEF Logs, Appended
      <4>2. rec.id = nextId
        BY <4>1 DEF Logs
      <4>3. <<rec.id, "END">> \notin notified
        BY <1>1, <1>2, <4>2 DEF IdsUsed
      <4>4. <<rec.id, "END">> # KeyOf(rec)
        BY <4>1 DEF KeyOf
      <4> QED
        BY <1>3, <4>1, <4>3, <4>4
    <3> QED
      BY <3>1, <3>2, <3>3 DEF Appended, OpenLines
  <2>3. CASE ~kept
    <3>1. SameRows(lines', lines) /\ i \in OpenLines(lines)
      BY <1>1, <2>3, SameRowsOpen DEF RowLogged
    <3> QED
      BY <2>1, <2>3, <3>1 DEF SameRows, OpenLines
  <2> QED
    BY <2>2, <2>3
<1> QED
  BY <1>6, <1>7, <1>10, <1>11

LEMMA LogsKeep ==
  ASSUME IInv, NEW rec, NEW byHand \in BOOLEAN, Logs(rec, byHand)
  PROVE  IInv'
<1>1. unterminated' \in BOOLEAN /\ \E kept, ok \in BOOLEAN : RowLogged(rec, byHand, kept, ok)
  BY LogRowOutcome DEF IInv, Coherent, Logs
<1>2. PICK kept \in BOOLEAN, ok \in BOOLEAN : RowLogged(rec, byHand, kept, ok)
  BY <1>1
<1>3. TypeOK' /\ BootsWithId' /\ Coherent(lines)'
  BY <1>1, <1>2, LogsTypes
<1>4. Agreement' /\ Clamped'
  BY <1>2, LogsAgree, LogsClamped
<1>5. RowsNotified' /\ EndsToCome' /\ IdsUsed' /\ (repeated \subseteq misreported)'
  BY <1>2, LogsNotify
<1> QED
  BY <1>3, <1>4, <1>5 DEF IInv

-----------------------------------------------------------------------------
(* What the loop and the commands log.                                     *)

LEMMA ClampedRow ==
  ASSUME TypeOK, NEW id \in Id, NEW type \in Type,
         NEW status \in {"START", "END", "INSTANT"}, NEW ts \in Time
  PROVE  LET rec == Row(id, type, status, ts)
         IN  /\ rec \in EventRecord /\ rec.id = id /\ rec.type = type /\ rec.status = status
             /\ lastWritten <= rec.ts
<1>1. lastWritten \in Time \cup {0} /\ lastWritten \in Nat /\ ts \in Nat /\ ts > 0
  <2>1. lastWritten \in Time \cup {0}
    BY DEF TypeOK
  <2>2. Time \subseteq Nat \ {0}
    BY FileAssumption
  <2> QED
    BY <2>1, <2>2
<1>2. applyMonotonicClamp(ts) \in Time /\ lastWritten <= applyMonotonicClamp(ts)
  BY <1>1 DEF applyMonotonicClamp
<1> QED
  BY <1>2 DEF Row, EventRecord

LEMMA NextIdUnused ==
  ASSUME TypeOK
  PROVE  Unused(lines, nextId) /\ nextId \in Nat
<1>1. nextId \in Nat /\ \A i \in Parsed(lines) : lines[i].id < nextId
  BY FileAssumption DEF TypeOK
<1> QED
  BY <1>1 DEF Unused

LEMMA NewId ==
  ASSUME TypeOK, nextId \in Id
  PROVE  /\ nextId + 1 \in {nextId, nextId + 1}
         /\ nextId + 1 \in 1..(MaxId + 1)
         /\ nextId < nextId + 1
BY LogAssumption DEF TypeOK, Id

LEMMA LogStartKeeps ==
  ASSUME IInv, NEW type \in Duration, LogStart(type)
  PROVE  IInv'
<1>1. TypeOK /\ Coherent(lines) /\ lines \in Seq(Line)
  BY DEF IInv, TypeOK
<1>2. PICK ts \in Time : LogRow(Row(nextId, type, "START", ts), FALSE)
  BY DEF LogStart
<1> DEFINE rec == Row(nextId, type, "START", ts)
<1>3. nextId \in Id /\ up
  BY DEF LogStart, RoomToLog, Running
<1>4. /\ rec \in EventRecord /\ rec.id = nextId /\ rec.type = type /\ rec.status = "START"
      /\ lastWritten <= rec.ts
  BY <1>1, <1>3, ClampedRow DEF Type
<1> HIDE DEF rec
<1>5. ~HasOpen(lines, type)
  BY <1>1, OpenOfTypeIsOpen DEF LogStart, Coherent
<1>6. Fits(lines, rec)
  BY <1>1, <1>4, <1>5, NextIdUnused DEF Fits
<1>7. nextId' = nextId + 1 /\ said' = [said EXCEPT ![type] = "START"]
      /\ up' = up /\ rotation' = rotation /\ blind' = blind
  BY DEF LogStart
<1>8. /\ said' \in [Duration -> {"START", "END"}]
      /\ said'[type] = "START"
      /\ \A other \in Duration : other # type => said'[other] = said[other]
  BY <1>1, <1>7 DEF TypeOK
<1>9. Logs(rec, FALSE)
  <2>1. LogRow(rec, FALSE)
    BY <1>2 DEF rec
  <2>2. up' = TRUE
    BY <1>1, <1>3, <1>7 DEF TypeOK
  <2>3. /\ nextId' \in {nextId, nextId + 1} /\ nextId' \in 1..(MaxId + 1)
        /\ rec.id < nextId'
    BY <1>1, <1>3, <1>4, <1>7, NewId
  <2> QED
    BY <1>4, <1>6, <1>7, <1>8, <2>1, <2>2, <2>3 DEF Logs
<1> QED
  BY <1>9, LogsKeep

LEMMA LogInstantKeeps ==
  ASSUME IInv, NEW type \in Instant, NEW ts \in Time, nextId \in Id,
         LogRow(Row(nextId, type, "INSTANT", ts), FALSE),
         nextId' = nextId + 1, up' = TRUE, rotation' = rotation, blind' = blind, said' = said
  PROVE  IInv'
<1>1. TypeOK /\ Coherent(lines) /\ lines \in Seq(Line)
  BY DEF IInv, TypeOK
<1> DEFINE rec == Row(nextId, type, "INSTANT", ts)
<1>2. LogRow(rec, FALSE)
  OBVIOUS
<1>4. /\ rec \in EventRecord /\ rec.id = nextId /\ rec.type = type /\ rec.status = "INSTANT"
      /\ lastWritten <= rec.ts
  BY <1>1, ClampedRow DEF Type
<1> HIDE DEF rec
<1>5. type \notin Duration
  BY LogAssumption
<1>6. Fits(lines, rec)
  BY <1>1, <1>4, NextIdUnused DEF Fits
<1>7. said \in [Duration -> {"START", "END"}]
  BY <1>1 DEF TypeOK
<1>8. /\ nextId' \in {nextId, nextId + 1} /\ nextId' \in 1..(MaxId + 1)
      /\ rec.id < nextId'
  BY <1>1, <1>4, NewId
<1>9. Logs(rec, FALSE)
  BY <1>2, <1>4, <1>5, <1>6, <1>7, <1>8 DEF Logs
<1> QED
  BY <1>9, LogsKeep

\* The END of an open event, by the pin or by hand.
LEMMA LogsEnd ==
  ASSUME IInv, NEW i \in OpenLines(lines), NEW ts \in Time, NEW byHand \in BOOLEAN, up,
         LogRow(Row(lines[i].id, lines[i].type, "END", ts), byHand),
         nextId' = nextId, up' = up, rotation' = rotation, blind' = blind,
         \/ byHand /\ said' = said
         \/ said' = [said EXCEPT ![lines[i].type] = "END"]
  PROVE  IInv'
<1>1. TypeOK /\ Coherent(lines) /\ lines \in Seq(Line)
  BY DEF IInv, TypeOK
<1>2. i \in Parsed(lines) /\ lines[i].status = "START"
  BY DEF OpenLines
<1>3. lines[i].id \in Id /\ lines[i].type \in Duration /\ lines[i].id < nextId
  BY <1>1, <1>2, ParsedRow, RecordFields DEF TypeOK, Coherent, Kinds
<1> DEFINE rec == Row(lines[i].id, lines[i].type, "END", ts)
<1>4. LogRow(rec, byHand)
  OBVIOUS
<1>5. /\ rec \in EventRecord /\ rec.id = lines[i].id /\ rec.type = lines[i].type
      /\ rec.status = "END" /\ lastWritten <= rec.ts
  BY <1>1, <1>3, ClampedRow DEF Type
<1> HIDE DEF rec
<1>6. Fits(lines, rec)
  BY <1>5 DEF Fits
<1>7. /\ said' \in [Duration -> {"START", "END"}]
      /\ byHand \/ said'[rec.type] = "END"
      /\ \A other \in Duration : other # rec.type => said'[other] = said[other]
  BY <1>1, <1>3, <1>5 DEF TypeOK
<1>8. up' = TRUE /\ nextId' \in {nextId, nextId + 1} /\ nextId' \in 1..(MaxId + 1)
      /\ rec.id < nextId'
  BY <1>1, <1>3, <1>5 DEF TypeOK
<1>9. Logs(rec, byHand)
  BY <1>4, <1>5, <1>6, <1>7, <1>8 DEF Logs
<1> QED
  BY <1>9, LogsKeep

LEMMA LogEndKeeps ==
  ASSUME IInv, NEW type \in Duration, LogEnd(type)
  PROVE  IInv'
<1>1. lines \in Seq(Line) /\ OneOpen(lines)
  BY DEF IInv, TypeOK, Coherent
<1>2. PICK ev \in OpenOfType(lines, type), ts \in Time :
        LogRow(Row(ev.id, type, "END", ts), FALSE)
  BY DEF LogEnd
<1>3. PICK i \in OpenLines(lines) : lines[i] = ev /\ lines[i].type = type
  BY <1>1, OpenOfTypeIsOpen
<1>4. LogRow(Row(lines[i].id, lines[i].type, "END", ts), FALSE)
  BY <1>2, <1>3
<1>5. /\ up /\ nextId' = nextId /\ up' = up /\ rotation' = rotation /\ blind' = blind
      /\ said' = [said EXCEPT ![lines[i].type] = "END"]
  BY <1>3 DEF LogEnd, Running
<1> QED
  BY <1>4, <1>5, LogsEnd

LEMMA CloseKeeps ==
  ASSUME IInv, NEW id \in Id, closeOpenEvent(id)
  PROVE  IInv'
<1>1. PICK ev \in {e \in OpenEvents(lines) : e.id = id}, ts \in Time :
        LogRow(Row(id, ev.type, "END", ts), TRUE)
  BY DEF closeOpenEvent
<1>2. PICK i \in OpenLines(lines) : lines[i] = ev /\ lines[i].id = id
  BY <1>1, OpenEventsAreLines
<1>3. LogRow(Row(lines[i].id, lines[i].type, "END", ts), TRUE)
  BY <1>1, <1>2
<1>4. /\ up /\ nextId' = nextId /\ up' = up /\ rotation' = rotation /\ blind' = blind
      /\ said' = said
  BY DEF closeOpenEvent, Running
<1> QED
  BY <1>3, <1>4, LogsEnd

LEMMA LogIgnoredKeeps ==
  ASSUME IInv, NEW type \in Duration, LogIgnored(type)
  PROVE  IInv'
<1>1. TypeOK /\ Coherent(lines) /\ lines \in Seq(Line)
  BY DEF IInv, TypeOK
<1>2. /\ said' = [said EXCEPT ![type] = IF OpenOfType(lines, type) = {} THEN "END" ELSE "START"]
      /\ astray' = astray \ {type}
      /\ UNCHANGED <<lines, unterminated, up, lastWritten, errors, rotation, nextId,
                     notified, repeated, misreported, blind>>
  BY DEF LogIgnored, file, ram
<1>3. OpenOfType(lines, type) # {} <=> HasOpen(lines, type)
  BY <1>1, OpenOfTypeIsOpen DEF Coherent
<1>4. TypeOK'
  BY <1>1, <1>2 DEF TypeOK
<1>5. Agreement'
  <2> SUFFICES ASSUME NEW other \in Duration, other \notin astray'
               PROVE  said'[other] = "START" <=> HasOpen(lines', other)
    BY DEF Agreement
  <2>1. CASE other = type
    <3>1. said'[other] = IF OpenOfType(lines, type) = {} THEN "END" ELSE "START"
      BY <1>1, <1>2, <2>1 DEF TypeOK
    <3> QED
      BY <1>2, <1>3, <2>1, <3>1
  <2>2. CASE other # type
    <3>1. said'[other] = said[other] /\ other \notin astray
      BY <1>1, <1>2, <2>2 DEF TypeOK
    <3> QED
      BY <1>2, <3>1 DEF IInv, Agreement
  <2> QED
    BY <2>1, <2>2
<1>6. Coherent(lines)' /\ BootsWithId' /\ Clamped' /\ IdsUsed' /\ (repeated \subseteq misreported)'
  <2>1. Coherent(lines')
    BY <1>1, <1>2
  <2>2. Coherent(lines)'
    BY <2>1 DEF Coherent
  <2>3. BootsWithId' /\ Clamped' /\ IdsUsed' /\ (repeated \subseteq misreported)'
    BY <1>2 DEF IInv, BootsWithId, Clamped, IdsUsed
  <2> QED
    BY <2>2, <2>3
<1>7. RowsNotified' /\ EndsToCome'
  BY <1>2 DEF IInv, RowsNotified, EndsToCome, KeyOf
<1> QED
  BY <1>4, <1>5, <1>6, <1>7 DEF IInv

LEMMA ResetLogKeeps ==
  ASSUME IInv, handleResetLog
  PROVE  IInv'
<1>1. /\ lines' = << >> /\ unterminated' = FALSE /\ lastWritten' = 0 /\ astray' = Duration
      /\ UNCHANGED <<up, errors, rotation, nextId, notified, repeated, misreported, blind, said>>
  BY DEF handleResetLog
<1>2. Parsed(lines') = {} /\ lines' \in Seq(Line)
  BY <1>1 DEF Parsed
<1>3. OpenLines(lines') = {}
  BY <1>2 DEF OpenLines
<1>4. TypeOK'
  BY <1>1, <1>2 DEF IInv, TypeOK, Type
<1>5. Coherent(lines')
  BY <1>2, <1>3 DEF Coherent, Kinds, Pairs, Begun, OneOpen
<1>6. Agreement' /\ Clamped' /\ RowsNotified' /\ EndsToCome'
  BY <1>1, <1>2, <1>3 DEF Agreement, Clamped, Monotone, RowsNotified, EndsToCome
<1>7. BootsWithId' /\ IdsUsed' /\ (repeated \subseteq misreported)'
  BY <1>1 DEF IInv, BootsWithId, IdsUsed
<1> QED
  BY <1>4, <1>5, <1>6, <1>7 DEF IInv, Coherent

-----------------------------------------------------------------------------
(* Rotation: of the events that are collected, every row has gone, of the   *)
(* others none; an open event is never collected.                          *)

\* An event that is open is not among those to delete.
LEMMA OpenNotCollected ==
  ASSUME TypeOK, Coherent(lines), NEW cutoff, NEW i \in OpenLines(lines)
  PROVE  lines[i].id \notin Collected(cutoff)
<1> SUFFICES ASSUME lines[i].id \in Collected(cutoff)
             PROVE  FALSE
  OBVIOUS
<1>1. PICK j \in Closing(cutoff) : lines[j].id = lines[i].id
  BY DEF Collected
<1>2. j \in Parsed(lines) /\ lines[j].status \in {"END", "INSTANT"}
  BY DEF Closing
<1>3. i = j
  BY <1>1, <1>2, OpenIsAlone DEF TypeOK, Coherent
<1> QED
  BY <1>2, <1>3 DEF OpenLines

LEMMA CopiedIsLeft ==
  ASSUME TypeOK, Coherent(lines), NEW cutoff, NEW new, new = Copied(cutoff)
  PROVE  /\ new \in Seq(Line)
         /\ \E f : /\ LeftOf(new, lines, f)
                   /\ \A j \in OpenLines(lines) : \E h \in Parsed(new) : f[h] = j
<1> DEFINE K == {i \in DOMAIN lines : Kept(lines[i], cutoff)}
           n == Cardinality(K)
<1>1. lines \in Seq(Line) /\ DOMAIN lines = 1..Len(lines) /\ Len(lines) \in Nat
  BY DEF TypeOK
<1>2. IsFiniteSet(K) /\ K \subseteq Nat
  <2>1. IsFiniteSet(1..Len(lines))
    BY <1>1, FS_Interval
  <2>2. K \subseteq 1..Len(lines)
    BY <1>1
  <2> QED
    BY <2>1, <2>2, FS_Subset
<1>3. new = LinesAt(lines, K)
  BY DEF Copied
<1>4. \A i \in K : i \in Parsed(lines) /\ lines[i].id \notin Collected(cutoff)
  BY DEF Kept, Parsed
<1>5. \A i \in Parsed(lines) : lines[i].id \notin Collected(cutoff) => i \in K
  BY DEF Kept, Parsed
<1> HIDE DEF K
<1>6. PICK at : Lists(at, K) /\ new = TakenAt(lines, at, n)
  BY <1>2, <1>3, RanksListed
<1>7. n \in Nat
  BY <1>2, RanksListed
<1> HIDE DEF n
<1>8. /\ at \in [1..n -> K]
      /\ \A i, j \in 1..n : i < j => at[i] < at[j]
      /\ \A x \in K : \E i \in 1..n : at[i] = x
  BY <1>6 DEF Lists, n
<1>9. new = [i \in 1..n |-> lines[at[i]]]
      /\ DOMAIN new = 1..n /\ \A i \in 1..n : new[i] = lines[at[i]]
  BY <1>6 DEF TakenAt
<1>10. \A i \in 1..n : new[i] # Torn /\ new[i] \in Line
  <2> SUFFICES ASSUME NEW i \in 1..n
               PROVE  new[i] # Torn /\ new[i] \in Line
    OBVIOUS
  <2>1. at[i] \in Parsed(lines) /\ new[i] = lines[at[i]]
    BY <1>4, <1>8, <1>9
  <2>2. lines[at[i]] # Torn /\ lines[at[i]] \in EventRecord
    BY <1>1, <2>1, ParsedRow DEF Parsed
  <2> QED
    BY <2>1, <2>2 DEF Line
<1>11. new \in Seq(Line)
  <2>1. new \in [1..n -> Line]
    BY <1>9, <1>10
  <2> QED
    BY <1>7, <2>1
<1>12. Parsed(new) = 1..n
  BY <1>9, <1>10 DEF Parsed
<1>13. ASSUME NEW i \in Parsed(new), NEW j \in Parsed(lines), lines[j].id = new[i].id
       PROVE  \E h \in Parsed(new) : at[h] = j
  <2>1. at[i] \in K /\ new[i] = lines[at[i]]
    BY <1>8, <1>9, <1>12
  <2>2. lines[j].id \notin Collected(cutoff)
    BY <1>4, <1>13, <2>1
  <2> QED
    BY <1>5, <1>8, <1>12, <2>2
<1>14. ASSUME NEW j \in OpenLines(lines)
       PROVE  \E h \in Parsed(new) : at[h] = j
  <2>1. j \in K
    BY <1>5, OpenNotCollected DEF OpenLines
  <2> QED
    BY <1>8, <1>12, <2>1
<1>15. LeftOf(new, lines, at)
  <2>1. at \in [Parsed(new) -> Parsed(lines)]
    BY <1>4, <1>8, <1>12
  <2>2. \A i \in Parsed(new) : new[i] = lines[at[i]]
    BY <1>9, <1>12
  <2>3. \A i, j \in Parsed(new) : i < j => at[i] < at[j]
    BY <1>8, <1>12
  <2> QED
    BY <1>13, <2>1, <2>2, <2>3 DEF LeftOf
<1> QED
  BY <1>11, <1>14, <1>15

LEMMA LeftKeeps ==
  ASSUME IInv, lines' \in Seq(Line), NEW f, LeftOf(lines', lines, f),
         \A j \in OpenLines(lines) : \E h \in Parsed(lines') : f[h] = j,
         unterminated' \in BOOLEAN, rotation' \in Time \cup {0},
         UNCHANGED <<up, ram, nextId, history>>
  PROVE  IInv'
<1>1. TypeOK /\ Coherent(lines) /\ lines \in Seq(Line)
  BY DEF IInv, TypeOK
<1>2. UNCHANGED <<up, lastWritten, errors, nextId, notified, repeated, misreported,
                  blind, said, astray>>
  BY DEF ram, history
<1>3. \A i \in Parsed(lines') : f[i] \in Parsed(lines) /\ lines'[i] = lines[f[i]]
  BY <1>1, LeftInOrder
<1>4. \A i \in Parsed(lines') : i \in OpenLines(lines') <=> f[i] \in OpenLines(lines)
  BY <1>1, LeftOpen
<1>5. Coherent(lines') /\ (Monotone(lines) => Monotone(lines'))
  BY <1>1, LeftCoherent
<1>6. OpenLines(lines') \subseteq Parsed(lines')
  BY DEF OpenLines
<1>7. TypeOK'
  BY <1>1, <1>2, <1>3 DEF TypeOK
<1>8. Agreement'
  <2>1. \A type : HasOpen(lines', type) <=> HasOpen(lines, type)
    BY <1>3, <1>4, <1>6 DEF HasOpen
  <2> QED
    BY <1>2, <2>1 DEF IInv, Agreement
<1>9. Clamped'
  BY <1>2, <1>3, <1>5 DEF IInv, Clamped
<1>10. RowsNotified'
  BY <1>2, <1>3 DEF IInv, RowsNotified
<1>11. EndsToCome'
  BY <1>2, <1>3, <1>4, <1>6 DEF IInv, EndsToCome
<1>12. BootsWithId' /\ IdsUsed' /\ (repeated \subseteq misreported)'
  BY <1>2 DEF IInv, BootsWithId, IdsUsed
<1> QED
  BY <1>5, <1>7, <1>8, <1>9, <1>10, <1>11, <1>12 DEF IInv, Coherent

LEMMA SameLeft ==
  ASSUME NEW ls \in Seq(Line)
  PROVE  \E f : LeftOf(ls, ls, f) /\ \A j \in Parsed(ls) : \E h \in Parsed(ls) : f[h] = j
<1> DEFINE f == [i \in Parsed(ls) |-> i]
<1>1. f \in [Parsed(ls) -> Parsed(ls)] /\ \A i \in Parsed(ls) : f[i] = i
  OBVIOUS
<1> HIDE DEF f
<1>2. LeftOf(ls, ls, f)
  BY <1>1 DEF LeftOf
<1> QED
  BY <1>1, <1>2

LEMMA SameFileKeeps ==
  ASSUME IInv, UNCHANGED file, rotation' \in Time \cup {0},
         UNCHANGED <<up, ram, nextId, history>>
  PROVE  IInv'
<1>1. lines \in Seq(Line) /\ lines' = lines /\ unterminated' = unterminated
      /\ unterminated \in BOOLEAN
  BY DEF IInv, TypeOK, file
<1>2. PICK f : LeftOf(lines, lines, f)
               /\ \A j \in Parsed(lines) : \E h \in Parsed(lines) : f[h] = j
  BY <1>1, SameLeft
<1>3. LeftOf(lines', lines, f)
      /\ \A j \in OpenLines(lines) : \E h \in Parsed(lines') : f[h] = j
  BY <1>1, <1>2 DEF OpenLines
<1> QED
  BY <1>1, <1>3, LeftKeeps

LEMMA RotationCycleKeeps ==
  ASSUME IInv, RotationCycle
  PROVE  IInv'
<1>1. /\ UNCHANGED <<up, ram, nextId, history>>
      /\ rotation' \in {0, rotation} /\ rotation \in Time \cup {0}
      /\ \/ UNCHANGED file
         \/ lines' = Copied(rotation) /\ unterminated' = FALSE
  BY DEF RotationCycle, IInv, TypeOK
<1>2. rotation' \in Time \cup {0}
  BY <1>1
<1>3. CASE UNCHANGED file
  BY <1>1, <1>2, <1>3, SameFileKeeps
<1>4. CASE lines' = Copied(rotation) /\ unterminated' = FALSE
  <2>1. lines' \in Seq(Line)
        /\ \E f : /\ LeftOf(lines', lines, f)
                  /\ \A j \in OpenLines(lines) : \E h \in Parsed(lines') : f[h] = j
    BY <1>4, CopiedIsLeft DEF IInv
  <2>2. PICK f : /\ LeftOf(lines', lines, f)
                 /\ \A j \in OpenLines(lines) : \E h \in Parsed(lines') : f[h] = j
    BY <2>1
  <2>3. unterminated' \in BOOLEAN
    BY <1>4
  <2> QED
    BY <1>1, <1>2, <2>1, <2>2, <2>3, LeftKeeps
<1> QED
  BY <1>1, <1>3, <1>4

LEMMA RotationDueKeeps ==
  ASSUME IInv, RotationDue
  PROVE  IInv'
BY SameFileKeeps DEF RotationDue

\* Only the error counter and the rotation change.
LEMMA RotationFailsKeeps ==
  ASSUME IInv, RotationFails
  PROVE  IInv'
<1>1. /\ UNCHANGED <<lines, unterminated, up, lastWritten, nextId, notified, repeated,
                     misreported, blind, said, astray>>
      /\ rotation' = 0 /\ errors' \in {errors, recordFailure}
  BY DEF RotationFails, file, history
<1>2. errors' \in 0..2
  BY <1>1 DEF recordFailure, IInv, TypeOK
<1>3. TypeOK'
  BY <1>1, <1>2 DEF IInv, TypeOK
<1>4. Coherent(lines')
  BY <1>1 DEF IInv
<1>5. Agreement' /\ Clamped' /\ BootsWithId' /\ IdsUsed' /\ (repeated \subseteq misreported)'
  BY <1>1 DEF IInv, Agreement, Clamped, BootsWithId, IdsUsed
<1>6. RowsNotified' /\ EndsToCome'
  BY <1>1 DEF IInv, RowsNotified, EndsToCome, KeyOf
<1> QED
  BY <1>3, <1>4, <1>5, <1>6 DEF IInv, Coherent

-----------------------------------------------------------------------------
(* The board.                                                              *)

\* The last row that a boot reads is the latest there is, if it reads one.
LEMMA BaselineReadBack ==
  ASSUME NEW ls \in Seq(Line)
  PROVE  /\ readLastWrittenTimestamp(ls) \in Time \cup {0}
         /\ ls = << >> \/ Last(ls) = Torn
              \/ \A i \in Parsed(ls) : Monotone(ls) => ls[i].ts <= readLastWrittenTimestamp(ls)
<1>1. CASE ls = << >> \/ Last(ls) = Torn
  BY <1>1 DEF readLastWrittenTimestamp
<1>2. CASE ls # << >> /\ Last(ls) # Torn
  <2> DEFINE n == Len(ls)
  <2>1. n \in Nat /\ n >= 1 /\ n \in DOMAIN ls /\ Last(ls) = ls[n]
    BY <1>2 DEF Last
  <2>2. n \in Parsed(ls) /\ readLastWrittenTimestamp(ls) = ls[n].ts
    BY <1>2, <2>1 DEF Parsed, readLastWrittenTimestamp
  <2> HIDE DEF n
  <2>3. ls[n].ts \in Time
    BY <2>2, ParsedRow, RecordFields
  <2>4. ASSUME NEW i \in Parsed(ls), Monotone(ls)
        PROVE  ls[i].ts <= ls[n].ts
    <3>1. i \in Nat /\ i <= n
      BY ParsedRow DEF n
    <3>2. CASE i < n
      BY <2>2, <2>4, <3>2 DEF Monotone
    <3>3. CASE i = n
      <4>1. ls[n].ts \in Nat
        BY <2>3, FileAssumption
      <4> QED
        BY <3>3, <4>1
    <3> QED
      BY <2>1, <3>1, <3>2, <3>3
  <2> QED
    BY <2>2, <2>3, <2>4
<1> QED
  BY <1>1, <1>2

LEMMA CrashKeeps ==
  ASSUME IInv, Crash
  PROVE  IInv'
<1>1. /\ UNCHANGED <<lines, unterminated, nextId, notified, repeated, misreported, said, astray>>
      /\ up' = FALSE /\ rotation' = 0 /\ errors' = 0 /\ nextId \in Id
      /\ lastWritten' = readLastWrittenTimestamp(lines)
      /\ blind' = (blind \/ (lines # << >> /\ Last(lines) = Torn))
  BY DEF Crash, file, RoomToLog
<1>2. TypeOK /\ lines \in Seq(Line)
  BY DEF IInv, TypeOK
<1>3. lastWritten' \in Time \cup {0}
  BY <1>1, <1>2, BaselineReadBack
<1>4. TypeOK'
  <2>1. errors' \in 0..2
    <3>1. errors' = 0
      BY <1>1
    <3> QED
      BY <3>1
  <2>2. blind' \in BOOLEAN /\ up' \in BOOLEAN /\ rotation' \in Time \cup {0}
    BY <1>1, Zenon
  <2> QED
    BY <1>1, <1>2, <1>3, <2>1, <2>2 DEF TypeOK
<1>5. Coherent(lines')
  BY <1>1 DEF IInv
<1>6. Clamped'
  <2> SUFFICES ASSUME ~blind', misreported' = {}
               PROVE  Monotone(lines') /\ \A i \in Parsed(lines') : lines'[i].ts <= lastWritten'
    BY DEF Clamped
  <2>1. ~blind /\ ~(lines # << >> /\ Last(lines) = Torn)
    BY <1>1
  <2>2. Monotone(lines)
    BY <1>1, <2>1 DEF IInv, Clamped
  <2>3. CASE lines = << >>
    BY <1>1, <2>2, <2>3 DEF Parsed
  <2>4. CASE lines # << >>
    BY <1>1, <1>2, <2>1, <2>2, <2>4, BaselineReadBack
  <2> QED
    BY <2>3, <2>4
<1>7. Agreement' /\ BootsWithId' /\ IdsUsed' /\ (repeated \subseteq misreported)'
  BY <1>1 DEF IInv, Agreement, BootsWithId, IdsUsed
<1>8. RowsNotified' /\ EndsToCome'
  BY <1>1 DEF IInv, RowsNotified, EndsToCome, KeyOf
<1> QED
  BY <1>4, <1>5, <1>6, <1>7, <1>8 DEF IInv, Coherent

LEMMA BootKeeps ==
  ASSUME IInv, Boot
  PROVE  IInv'
<1>1. PICK ts \in Time : LogRow(Row(nextId, Reboot, "INSTANT", ts), FALSE)
  BY DEF Boot
<1>2. /\ nextId \in Id /\ nextId' = nextId + 1 /\ up' = TRUE /\ rotation' = rotation
      /\ blind' = blind /\ said' = said
  BY DEF Boot, IInv, BootsWithId
<1>3. Reboot \in Instant
  BY LogAssumption
<1> QED
  BY <1>1, <1>2, <1>3, LogInstantKeeps

LEMMA InstantKeeps ==
  ASSUME IInv, NEW type \in Instant \ {Reboot}, LogInstant(type)
  PROVE  IInv'
<1>1. PICK ts \in Time : LogRow(Row(nextId, type, "INSTANT", ts), FALSE)
  BY DEF LogInstant
<1>2. /\ nextId \in Id /\ nextId' = nextId + 1 /\ up' = TRUE /\ rotation' = rotation
      /\ blind' = blind /\ said' = said
  BY DEF LogInstant, Running, RoomToLog, IInv, TypeOK
<1> QED
  BY <1>1, <1>2, LogInstantKeeps

-----------------------------------------------------------------------------
(* The invariant holds, and what it implies.                               *)

LEMMA InitIInv ==
  ASSUME Init
  PROVE  IInv
<1>1. /\ lines = << >> /\ unterminated = FALSE /\ up = FALSE /\ lastWritten = 0
      /\ errors = 0 /\ rotation = 0 /\ nextId = 1 /\ notified = {} /\ repeated = {}
      /\ misreported = {} /\ blind = FALSE /\ astray = {}
      /\ said = [type \in Duration |-> "END"]
  BY DEF Init
<1>2. Parsed(lines) = {} /\ lines \in Seq(Line)
  BY <1>1 DEF Parsed
<1>3. OpenLines(lines) = {}
  BY <1>2 DEF OpenLines
<1>4. 1 \in 1..(MaxId + 1) /\ 1 \in Id
  BY LogAssumption DEF Id
<1>5. said \in [Duration -> {"START", "END"}]
  BY <1>1
<1>6. TypeOK
  <2>1. lastWritten \in Time \cup {0} /\ errors \in 0..2 /\ rotation \in Time \cup {0}
    BY <1>1
  <2>2. notified \cup repeated \cup misreported \subseteq Id \X {"START", "END", "INSTANT"}
        /\ astray \subseteq Type
    BY <1>1
  <2>3. nextId \in 1..(MaxId + 1)
    BY <1>1, <1>4
  <2>4. unterminated \in BOOLEAN /\ up \in BOOLEAN /\ blind \in BOOLEAN
    BY <1>1
  <2> QED
    BY <1>2, <1>5, <2>1, <2>2, <2>3, <2>4 DEF TypeOK
<1>7. Coherent(lines)
  BY <1>2, <1>3 DEF Coherent, Kinds, Pairs, Begun, OneOpen
<1>8. Agreement
  BY <1>1, <1>3 DEF Agreement, HasOpen
<1>9. Clamped /\ RowsNotified /\ EndsToCome /\ IdsUsed /\ repeated \subseteq misreported
  BY <1>1, <1>2, <1>3 DEF Clamped, Monotone, RowsNotified, EndsToCome, IdsUsed
<1>10. BootsWithId
  BY <1>1, <1>4 DEF BootsWithId
<1> QED
  BY <1>6, <1>7, <1>8, <1>9, <1>10 DEF IInv

LEMMA StutterKeeps ==
  ASSUME IInv, UNCHANGED vars
  PROVE  IInv'
<1>1. UNCHANGED file /\ UNCHANGED <<up, ram, nextId, history>>
      /\ rotation' \in Time \cup {0}
  BY DEF vars, IInv, TypeOK
<1> QED
  BY <1>1, SameFileKeeps

LEMMA NextKeeps ==
  ASSUME IInv, [Next]_vars
  PROVE  IInv'
<1>1. ASSUME NEW type \in Duration, LogStart(type)
      PROVE  IInv'
  BY <1>1, LogStartKeeps
<1>2. ASSUME NEW type \in Duration, LogEnd(type)
      PROVE  IInv'
  BY <1>2, LogEndKeeps
<1>3. ASSUME NEW type \in Duration, LogIgnored(type)
      PROVE  IInv'
  BY <1>3, LogIgnoredKeeps
<1>4. ASSUME NEW type \in Instant \ {Reboot}, LogInstant(type)
      PROVE  IInv'
  BY <1>4, InstantKeeps
<1>5. ASSUME NEW id \in Id, closeOpenEvent(id)
      PROVE  IInv'
  BY <1>5, CloseKeeps
<1>6. CASE handleResetLog
  BY <1>6, ResetLogKeeps
<1>7. CASE RotationDue
  BY <1>7, RotationDueKeeps
<1>8. CASE RotationCycle
  BY <1>8, RotationCycleKeeps
<1>9. CASE RotationFails
  BY <1>9, RotationFailsKeeps
<1>10. CASE Crash
  BY <1>10, CrashKeeps
<1>11. CASE Boot
  BY <1>11, BootKeeps
<1>12. CASE UNCHANGED vars
  BY <1>12, StutterKeeps
<1> QED
  BY <1>1, <1>2, <1>3, <1>4, <1>5, <1>6, <1>7, <1>8, <1>9, <1>10, <1>11, <1>12 DEF Next

LEMMA Invariant == Spec => []IInv
<1>1. Init => IInv
  BY InitIInv
<1>2. IInv /\ [Next]_vars => IInv'
  BY NextKeeps
<1> QED
  BY <1>1, <1>2, PTL DEF Spec

LEMMA OneOpenEvent ==
  ASSUME OneOpen(lines)
  PROVE  OneOpenPerType
BY OpenEventsAreLines DEF OneOpen, OneOpenPerType

LEMMA BegunRow ==
  ASSUME lines \in Seq(Line), Pairs(lines), Begun(lines)
  PROVE  EndHasStart
<1> SUFFICES ASSUME NEW j \in Parsed(lines), lines[j].status = "END"
             PROVE  \E i \in Parsed(lines) :
                      /\ i < j
                      /\ lines[i] = [lines[i] EXCEPT !.id = lines[j].id, !.type = lines[j].type,
                                                     !.status = "START"]
  BY DEF EndHasStart
<1>1. PICK i \in Parsed(lines) : i < j /\ lines[i].id = lines[j].id
  BY DEF Begun
<1>2. lines[i].status = "START" /\ lines[i].type = lines[j].type
  BY <1>1 DEF Pairs
<1>3. lines[i] \in EventRecord
  BY ParsedRow
<1>4. lines[i] = [lines[i] EXCEPT !.id = lines[j].id, !.type = lines[j].type,
                                  !.status = "START"]
  BY <1>1, <1>2, <1>3 DEF EventRecord
<1> QED
  BY <1>1, <1>4

LEMMA AgreementRead ==
  ASSUME lines \in Seq(Line), OneOpen(lines), Agreement
  PROVE  LogAgreesWithTransitions
BY OpenOfTypeIsOpen DEF Agreement, LogAgreesWithTransitions

LEMMA NotifiedRows ==
  ASSUME RowsNotified, repeated \subseteq misreported
  PROVE  NotifiedExactlyOnce
BY DEF RowsNotified, NotifiedExactlyOnce, Readable

\* A cycle after which another one follows has removed a line.
LEMMA CycleShortens ==
  ASSUME lines \in Seq(Line), RotationCycle
  PROVE  rotation' = 0 \/ Len(lines') < Len(lines)
<1> SUFFICES ASSUME rotation' # 0
             PROVE  Len(lines') < Len(lines)
  OBVIOUS
<1>1. Collected(rotation) # {} /\ lines' = Copied(rotation)
  BY DEF RotationCycle
<1> DEFINE keep == {i \in DOMAIN lines : Kept(lines[i], rotation)}
<1>2. PICK i \in Parsed(lines) : lines[i].id \in Collected(rotation)
  BY <1>1 DEF Collected, Closing
<1>3. i \in DOMAIN lines /\ i \notin keep
  BY <1>2 DEF Kept, Parsed
<1>4. /\ DOMAIN lines = 1..Len(lines) /\ Len(lines) \in Nat
      /\ IsFiniteSet(1..Len(lines)) /\ Cardinality(1..Len(lines)) = Len(lines)
  <2>1. DOMAIN lines = 1..Len(lines) /\ Len(lines) \in Nat
    OBVIOUS
  <2> DEFINE n == Len(lines)
  <2>2. n \in Nat
    BY <2>1
  <2> HIDE DEF n
  <2>3. IsFiniteSet(1..n) /\ Cardinality(1..n) = IF 1 > n THEN 0 ELSE n - 1 + 1
    BY <2>2, FS_Interval
  <2>4. Cardinality(1..n) = n
    BY <2>2, <2>3
  <2> QED
    BY <2>1, <2>3, <2>4 DEF n
<1>5. keep \in SUBSET (1..Len(lines)) /\ keep # 1..Len(lines)
  BY <1>3, <1>4
<1>6. lines' = LinesAt(lines, keep)
  BY <1>1 DEF Copied
<1> HIDE DEF keep
<1>7. IsFiniteSet(keep) /\ Cardinality(keep) \in Nat /\ Cardinality(keep) < Len(lines)
  <2>1. IsFiniteSet(keep) /\ Cardinality(keep) <= Len(lines) /\ Cardinality(keep) # Len(lines)
    BY <1>4, <1>5, FS_Subset
  <2>2. Cardinality(keep) \in Nat
    BY <2>1, FS_CardinalityType
  <2> QED
    BY <1>4, <2>1, <2>2
<1>8. keep \subseteq Nat
  BY <1>5
<1>9. PICK at : LinesAt(lines, keep) = TakenAt(lines, at, Cardinality(keep))
  BY <1>7, <1>8, RanksListed
<1>10. Len(lines') = Cardinality(keep)
  BY <1>6, <1>7, <1>9 DEF TakenAt
<1> QED
  BY <1>7, <1>10

\* The log is well typed, and its ids have been generated.
THEOREM TypeCorrect == Spec => []TypeOK
<1>1. IInv => TypeOK
  BY DEF IInv
<1> QED
  BY <1>1, Invariant, PTL

\* The loop of rotateEventLog ends, for any cap and cutoff: every cycle that
\* is not the last leaves fewer lines than it found.  With the fairness of
\* RotationCycle this is why RotationEnds holds.
THEOREM RotationCyclesEnd ==
  Spec => [][RotationCycle => rotation' = 0 \/ Len(lines') < Len(lines)]_vars
<1>1. IInv => (RotationCycle => rotation' = 0 \/ Len(lines') < Len(lines))
  BY CycleShortens DEF IInv, TypeOK
<1> QED
  BY <1>1, Invariant, PTL DEF Spec

\* No two events of a type are open at once, so that logAndNotifyEvent finds
\* the one to end: for any types, however writes fail, the board resets, the
\* log rotates or a user closes events and wipes the log.
THEOREM OneOpenPerTypeHolds == Spec => []OneOpenPerType
<1>1. IInv => OneOpenPerType
  BY OneOpenEvent DEF IInv, Coherent
<1> QED
  BY <1>1, Invariant, PTL

\* An END row has its START before it: rotateEventLog, whatever its cutoff
\* and its cap, takes both or none.
THEOREM EndHasStartHolds == Spec => []EndHasStart
<1>1. IInv => EndHasStart
  BY BegunRow DEF IInv, Coherent, TypeOK
<1> QED
  BY <1>1, Invariant, PTL

\* What findOpenEventOfType finds is the last transition that was to be
\* logged, except for types whose row was lost or changed by hand.
THEOREM LogAgreesWithTransitionsHolds == Spec => []LogAgreesWithTransitions
<1>1. IInv => LogAgreesWithTransitions
  BY AgreementRead DEF IInv, Coherent, TypeOK
<1> QED
  BY <1>1, Invariant, PTL

\* applyMonotonicClamp, with its baseline read back at boot, keeps the
\* timestamps in order for any clock.
THEOREM MonotonicLogHolds == Spec => []MonotonicLog
<1>1. IInv => MonotonicLog
  BY DEF IInv, Clamped, Monotone, MonotonicLog
<1> QED
  BY <1>1, Invariant, PTL

\* callNotifyEvent is called once for each row that the policy wants notified:
\* what the engine assumes of the keys it is given.
THEOREM NotifiedExactlyOnceHolds == Spec => []NotifiedExactlyOnce
<1>1. IInv => NotifiedExactlyOnce
  BY NotifiedRows DEF IInv
<1> QED
  BY <1>1, Invariant, PTL

-----------------------------------------------------------------------------
(* What /log shows: the ring that handleLog drives over the lines.         *)

\* ring has the rings of handleLog after each of the first k lines.
RingUpto(ring, ls, n, k) ==
  ring = [i \in 0..k |-> IF i = 0 THEN << >> ELSE observe(ring[i - 1], ls[i], n)]

\* A line more can be observed.
LEMMA RingExtends ==
  ASSUME NEW ls, NEW n, NEW k \in Nat, NEW ring, RingUpto(ring, ls, n, k)
  PROVE  \E longer : RingUpto(longer, ls, n, k + 1)
<1> DEFINE Body(f, i) == IF i = 0 THEN << >> ELSE observe(f[i - 1], ls[i], n)
           longer == [i \in 0..(k + 1) |->
                        IF i <= k THEN ring[i] ELSE observe(ring[k], ls[k + 1], n)]
<1>1. ring = [i \in 0..k |-> Body(ring, i)]
  BY DEF RingUpto
<1>2. \A i \in 0..k : ring[i] = Body(ring, i)
  <2> HIDE DEF Body
  <2> QED
    BY <1>1
<1>3. \A i \in 0..k : longer[i] = ring[i]
  OBVIOUS
<1>4. longer[k + 1] = observe(ring[k], ls[k + 1], n)
  <2> k + 1 \in 0..(k + 1) /\ ~(k + 1 <= k)
    OBVIOUS
  <2> QED
    BY Zenon
<1>5. longer = [i \in 0..(k + 1) |-> longer[i]]
  OBVIOUS
<1> HIDE DEF longer
<1>6. ASSUME NEW i \in 0..(k + 1) PROVE longer[i] = Body(longer, i)
  <2>1. CASE i = 0
    <3> 0 \in 0..k
      OBVIOUS
    <3> QED
      BY <1>2, <1>3, <2>1
  <2>2. CASE i # 0 /\ i <= k
    <3>1. i \in 0..k /\ i - 1 \in 0..k
      BY <2>2
    <3>2. Body(longer, i) = Body(ring, i)
      BY <1>3, <3>1, Zenon
    <3> HIDE DEF Body
    <3> QED
      BY <1>2, <1>3, <3>1, <3>2
  <2>3. CASE i = k + 1
    <3>1. i # 0 /\ i - 1 = k /\ k \in 0..k
      BY <2>3
    <3>2. Body(longer, i) = observe(longer[k], ls[k + 1], n)
      BY <2>3, <3>1, Zenon
    <3> HIDE DEF Body
    <3> QED
      BY <1>3, <1>4, <2>3, <3>1, <3>2, Zenon
  <2> QED
    BY <2>1, <2>2, <2>3
<1>7. longer = [i \in 0..(k + 1) |-> Body(longer, i)]
  <2> HIDE DEF Body
  <2> QED
    BY <1>5, <1>6, Zenon
<1> QED
  BY <1>7, Zenon DEF RingUpto

\* handleLog is the last of the rings, each of which observes one line more.
LEMMA RingOfLines ==
  ASSUME NEW ls, Len(ls) \in Nat, NEW n
  PROVE  \E ring :
           /\ handleLog(ls, n) = ring[Len(ls)]
           /\ ring[0] = << >>
           /\ \A k \in 1..Len(ls) : ring[k] = observe(ring[k - 1], ls[k], n)
<1> DEFINE T == {k \in 0..Len(ls) : \E ring : RingUpto(ring, ls, n, k)}
<1>1. 0 \in T
  <2>1. [i \in 0..0 |-> << >>]
          = [i \in 0..0 |->
               IF i = 0 THEN << >> ELSE observe([j \in 0..0 |-> << >>][i - 1], ls[i], n)]
    <3> \A i \in 0..0 : i = 0
      OBVIOUS
    <3> QED
      BY Zenon
  <2>2. RingUpto([i \in 0..0 |-> << >>], ls, n, 0)
    BY <2>1, Zenon DEF RingUpto
  <2> QED
    BY <2>2
<1>2. ASSUME NEW k \in 0..(Len(ls) - 1), k \in T PROVE k + 1 \in T
  BY <1>2, RingExtends
<1>3. Len(ls) \in T
  <2> HIDE DEF T
  <2> QED
    <3>1. \A k \in 0..(Len(ls) - 1) : k \in T => k + 1 \in T
      BY <1>2
    <3>2. \A k \in 0..Len(ls) : k \in T
      BY <1>1, <3>1, Induction, Zenon
    <3> QED
      BY <3>2
<1> DEFINE ring == CHOOSE f : RingUpto(f, ls, n, Len(ls))
<1>4. RingUpto(ring, ls, n, Len(ls))
  BY <1>3, Zenon
<1>5. handleLog(ls, n) = ring[Len(ls)]
  BY Zenon DEF handleLog, RingUpto
<1> HIDE DEF ring
<1> DEFINE Body(i) == IF i = 0 THEN << >> ELSE observe(ring[i - 1], ls[i], n)
<1>6. ring = [i \in 0..Len(ls) |-> Body(i)]
  BY <1>4, Zenon DEF RingUpto
<1>7. \A i \in 0..Len(ls) : ring[i] = Body(i)
  <2> HIDE DEF Body
  <2> QED
    BY <1>6
<1>8. ring[0] = << >>
  BY <1>7
<1>9. ASSUME NEW k \in 1..Len(ls) PROVE ring[k] = observe(ring[k - 1], ls[k], n)
  <2> k \in 0..Len(ls) /\ k # 0
    OBVIOUS
  <2> QED
    BY <1>7, Zenon
<1> QED
  BY <1>5, <1>8, <1>9, Zenon

\* The rows of ls that begin an event, by number.
RowsBegun(ls) == {i \in Parsed(ls) : ls[i].status # "END"}

\* An event in the ring.
Shown == [row : EventRecord, end : Time \cup {0}]

\* Row j is an END of the event of row i, among the first k lines.
EndSeen(ls, i, k, j) ==
  j \in Parsed(ls) /\ j <= k /\ ls[j].status = "END" /\ ls[j].id = ls[i].id

\* The ring has row i, and its END if there is one among the first k lines.
ShowsRow(ev, ls, i, k) ==
  /\ ev.row = ls[i]
  /\ \/ ev.end = 0 /\ \A j : ~EndSeen(ls, i, k, j)
     \/ \E j : EndSeen(ls, i, k, j) /\ ev.end = ls[j].ts

\* c of the numbers in at, which is in order, are at most k.
Passed(at, m, k, c) == c \in 0..m /\ \A q \in 1..m : at[q] <= k <=> q <= c

\* ring has the last n of the c rows that have begun by line k.
RingHas(ring, ls, n, at, k, c) ==
  /\ ring \in Seq(Shown)
  /\ Len(ring) = IF c <= n THEN c ELSE n
  /\ \A i \in 1..Len(ring) : ShowsRow(ring[i], ls, at[c - Len(ring) + i], k)

\* Line k + 1 begins no event.
LEMMA PassedOther ==
  ASSUME NEW at, NEW m \in Nat, \A q \in 1..m : at[q] \in Nat,
         NEW k \in Nat, NEW c, Passed(at, m, k, c),
         \A q \in 1..m : at[q] # k + 1
  PROVE  Passed(at, m, k + 1, c)
<1> SUFFICES ASSUME NEW q \in 1..m PROVE at[q] <= k + 1 <=> q <= c
  BY DEF Passed
<1>1. at[q] \in Nat /\ at[q] # k + 1 /\ (at[q] <= k <=> q <= c)
  BY DEF Passed
<1> DEFINE a == at[q]
<1>2. a \in Nat /\ a # k + 1 => (a <= k + 1 <=> a <= k)
  <2> HIDE DEF a
  <2> QED
    OBVIOUS
<1> QED
  BY <1>1, <1>2

\* Line k + 1 begins the next one.
LEMMA PassedNext ==
  ASSUME NEW at, NEW m \in Nat, \A q \in 1..m : at[q] \in Nat,
         \A q, r \in 1..m : q < r => at[q] < at[r],
         NEW k \in Nat, NEW c, Passed(at, m, k, c),
         NEW p \in 1..m, at[p] = k + 1
  PROVE  p = c + 1 /\ Passed(at, m, k + 1, c + 1)
<1>1. c \in 0..m /\ \A q \in 1..m : at[q] <= k <=> q <= c
  BY DEF Passed
<1>2. p > c
  BY <1>1
<1>3. ~(c + 1 < p)
  <2> SUFFICES ASSUME c + 1 < p PROVE FALSE
    OBVIOUS
  <2>1. c + 1 \in 1..m
    BY <1>1
  <2>2. at[c + 1] < k + 1 /\ at[c + 1] \in Nat
    BY <2>1
  <2>3. at[c + 1] <= k
    BY <2>2
  <2> QED
    BY <1>1, <2>1, <2>3
<1>4. p = c + 1
  BY <1>1, <1>2, <1>3
<1>5. ASSUME NEW q \in 1..m PROVE at[q] <= k + 1 <=> q <= p
  <2>1. CASE q = p
    BY <2>1
  <2>2. CASE q < p
    BY <2>2
  <2>3. CASE p < q
    <3>1. k + 1 < at[q] /\ at[q] \in Nat
      BY <2>3
    <3> QED
      BY <2>3, <3>1
  <2> QED
    BY <2>1, <2>2, <2>3
<1> QED
  BY <1>1, <1>4, <1>5 DEF Passed

\* A line more: the rows stay as they are, if it is no END of theirs.
LEMMA ShowsRowStill ==
  ASSUME NEW ev, NEW ls, NEW i, NEW k \in Nat, Parsed(ls) \subseteq Nat, ShowsRow(ev, ls, i, k),
         ~EndSeen(ls, i, k + 1, k + 1)
  PROVE  ShowsRow(ev, ls, i, k + 1)
<1>1. \A j : EndSeen(ls, i, k + 1, j) <=> EndSeen(ls, i, k, j)
  <2> SUFFICES ASSUME NEW j \in Parsed(ls), j \in Nat, j # k + 1 PROVE j <= k + 1 <=> j <= k
    BY DEF EndSeen
  <2> QED
    OBVIOUS
<1> QED
  BY <1>1, Zenon DEF ShowsRow

\* It is an END of theirs.
LEMMA ShowsRowEnded ==
  ASSUME NEW ev \in Shown, NEW ls, NEW i, NEW k, ShowsRow(ev, ls, i, k),
         EndSeen(ls, i, k + 1, k + 1)
  PROVE  ShowsRow([ev EXCEPT !.end = ls[k + 1].ts], ls, i, k + 1)
<1>1. /\ [ev EXCEPT !.end = ls[k + 1].ts].row = ev.row
      /\ [ev EXCEPT !.end = ls[k + 1].ts].end = ls[k + 1].ts
  BY DEF Shown
<1> QED
  BY <1>1, Zenon DEF ShowsRow

\* A line that does not parse.
LEMMA RingTorn ==
  ASSUME NEW ls \in Seq(Line), NEW n, NEW at, NEW k \in Nat, NEW c, NEW ring,
         RingHas(ring, ls, n, at, k, c), k + 1 \notin Parsed(ls)
  PROVE  RingHas(ring, ls, n, at, k + 1, c)
<1>1. Parsed(ls) \subseteq Nat
  BY ParsedRow
<1>2. \A i \in 1..Len(ring) : ShowsRow(ring[i], ls, at[c - Len(ring) + i], k + 1)
  BY <1>1, ShowsRowStill DEF RingHas, EndSeen
<1> QED
  BY <1>2, Zenon DEF RingHas

\* An END.
LEMMA RingEnd ==
  ASSUME NEW ls \in Seq(Line), NEW n, NEW at, NEW k \in Nat, NEW c, NEW ring,
         RingHas(ring, ls, n, at, k, c), k + 1 \in Parsed(ls), ls[k + 1].status = "END"
  PROVE  RingHas(observe(ring, ls[k + 1], n), ls, n, at, k + 1, c)
<1> DEFINE new == observe(ring, ls[k + 1], n)
           Ended(ev) == IF ev.row.id = ls[k + 1].id THEN [ev EXCEPT !.end = ls[k + 1].ts] ELSE ev
<1>1. ls[k + 1] # Torn /\ ls[k + 1] \in EventRecord /\ Parsed(ls) \subseteq Nat
  BY ParsedRow DEF Parsed
<1>2. new = [i \in DOMAIN ring |-> Ended(ring[i])]
  BY <1>1, Zenon DEF observe
<1>3. ring \in Seq(Shown) /\ DOMAIN ring = 1..Len(ring) /\ Len(ring) \in Nat
  BY DEF RingHas
<1>4. \A ev \in Shown : Ended(ev) \in Shown
  BY <1>1 DEF Shown, EventRecord
<1>5. \A i \in 1..Len(ring) : ring[i] \in Shown
  BY <1>3
<1>6. ASSUME NEW i \in 1..Len(ring)
      PROVE  ShowsRow(Ended(ring[i]), ls, at[c - Len(ring) + i], k + 1)
  <2> DEFINE r == at[c - Len(ring) + i]
  <2>1. ShowsRow(ring[i], ls, r, k)
    BY DEF RingHas
  <2>2. ring[i].row = ls[r]
    BY <2>1 DEF ShowsRow
  <2>3. EndSeen(ls, r, k + 1, k + 1) <=> ring[i].row.id = ls[k + 1].id
    BY <2>2 DEF EndSeen
  <2> HIDE DEF r
  <2>4. CASE ring[i].row.id = ls[k + 1].id
    <3>1. Ended(ring[i]) = [ring[i] EXCEPT !.end = ls[k + 1].ts]
      BY <2>4, Zenon
    <3>2. ring[i] \in Shown /\ EndSeen(ls, r, k + 1, k + 1)
      BY <1>5, <2>3, <2>4
    <3>3. ShowsRow([ring[i] EXCEPT !.end = ls[k + 1].ts], ls, r, k + 1)
      BY <2>1, <3>2, ShowsRowEnded, Zenon
    <3> QED
      BY <3>1, <3>3, Zenon DEF r
  <2>5. CASE ring[i].row.id # ls[k + 1].id
    <3>1. Ended(ring[i]) = ring[i]
      BY <2>5, Zenon
    <3>2. ShowsRow(ring[i], ls, r, k + 1)
      BY <1>1, <2>1, <2>3, <2>5, ShowsRowStill, Zenon
    <3> QED
      BY <3>1, <3>2, Zenon DEF r
  <2> QED
    BY <2>4, <2>5, Zenon DEF r
<1> HIDE DEF Ended, new
<1>7. new \in Seq(Shown) /\ Len(new) = Len(ring) /\ \A i \in 1..Len(ring) : new[i] = Ended(ring[i])
  <2>1. \A i \in 1..Len(ring) : Ended(ring[i]) \in Shown
    BY <1>4, <1>5
  <2>2. new = [i \in 1..Len(ring) |-> Ended(ring[i])]
    BY <1>2, <1>3, Zenon
  <2>3. new \in [1..Len(ring) -> Shown]
    BY <2>1, <2>2
  <2> QED
    BY <1>3, <2>2, <2>3
<1>8. RingHas(new, ls, n, at, k + 1, c)
  <2>1. Len(new) = IF c <= n THEN c ELSE n
    BY <1>7 DEF RingHas
  <2>2. \A i \in 1..Len(new) : ShowsRow(new[i], ls, at[c - Len(new) + i], k + 1)
    BY <1>6, <1>7, Zenon
  <2> QED
    BY <1>7, <2>1, <2>2, Zenon DEF RingHas
<1> QED
  BY <1>8 DEF new

\* The row of an event that begins.
LEMMA RingNew ==
  ASSUME NEW ls \in Seq(Line), Pairs(ls), NEW n \in Nat \ {0}, NEW at, NEW k \in Nat,
         NEW c \in Nat, NEW ring,
         RingHas(ring, ls, n, at, k, c), k + 1 \in Parsed(ls), ls[k + 1].status # "END",
         at[c + 1] = k + 1
  PROVE  RingHas(observe(ring, ls[k + 1], n), ls, n, at, k + 1, c + 1)
<1> DEFINE ev == [row |-> ls[k + 1], end |-> 0]
           rest == IF Len(ring) = n THEN Tail(ring) ELSE ring
           new == Append(rest, ev)
<1>1. ls[k + 1] # Torn /\ ls[k + 1] \in EventRecord /\ Parsed(ls) \subseteq Nat
  BY ParsedRow DEF Parsed
<1>2. observe(ring, ls[k + 1], n) = new
  BY <1>1, Zenon DEF observe
<1>3. ring \in Seq(Shown) /\ Len(ring) \in Nat /\ Len(ring) = (IF c <= n THEN c ELSE n)
  BY DEF RingHas
<1>4. ev \in Shown
  BY <1>1 DEF Shown
<1>5. ShowsRow(ev, ls, k + 1, k + 1)
  <2>1. ASSUME NEW j, EndSeen(ls, k + 1, k + 1, j) PROVE FALSE
    <3>1. j \in Parsed(ls) /\ j <= k + 1 /\ ls[j].status = "END" /\ ls[j].id = ls[k + 1].id
      BY <2>1 DEF EndSeen
    <3>2. j # k + 1
      BY <3>1
    <3>3. j < k + 1
      BY <1>1, <3>1, <3>2
    <3> QED
      BY <3>1, <3>3 DEF Pairs
  <2> QED
    BY <2>1, Zenon DEF ShowsRow
<1>6. \A i \in 1..Len(ring) : ShowsRow(ring[i], ls, at[c - Len(ring) + i], k + 1)
  BY <1>1, ShowsRowStill DEF RingHas, EndSeen
<1> HIDE DEF ev
<1>7. rest \in Seq(Shown) /\ Len(rest) = (IF Len(ring) = n THEN n - 1 ELSE Len(ring))
  BY <1>3
<1>8. ASSUME NEW i \in 1..Len(rest)
      PROVE  ShowsRow(rest[i], ls, at[(c + 1) - (Len(rest) + 1) + i], k + 1)
  <2>1. CASE Len(ring) = n
    <3>1. rest[i] = ring[i + 1] /\ i + 1 \in 1..Len(ring)
      BY <1>3, <1>7, <2>1
    <3>2. Len(rest) = Len(ring) - 1 /\ i \in Nat
      BY <1>3, <1>7, <2>1
    <3>3. (c + 1) - (Len(rest) + 1) + i = c - Len(ring) + (i + 1)
      <4> HIDE DEF rest
      <4> QED
        BY <1>3, <3>2
    <3> QED
      BY <1>6, <3>1, <3>3, Zenon
  <2>2. CASE Len(ring) # n
    <3>1. rest = ring
      BY <2>2
    <3>2. Len(rest) = Len(ring) /\ i \in Nat
      BY <3>1
    <3>3. (c + 1) - (Len(rest) + 1) + i = c - Len(ring) + i
      <4> HIDE DEF rest
      <4> QED
        BY <1>3, <3>2
    <3> QED
      BY <1>6, <3>1, <3>3, Zenon
  <2> QED
    BY <2>1, <2>2
<1>9. Len(rest) \in Nat /\ Len(rest) + 1 = (IF c + 1 <= n THEN c + 1 ELSE n)
  BY <1>3, <1>7
<1> HIDE DEF rest
<1>10. new \in Seq(Shown) /\ Len(new) = Len(rest) + 1 /\ new[Len(rest) + 1] = ev
       /\ \A i \in 1..Len(rest) : new[i] = rest[i]
  BY <1>4, <1>7
<1> HIDE DEF new
<1>11. ASSUME NEW i \in 1..Len(new)
       PROVE  ShowsRow(new[i], ls, at[(c + 1) - Len(new) + i], k + 1)
  <2>1. CASE i = Len(new)
    <3>1. (c + 1) - Len(new) + i = c + 1 /\ new[i] = ev
      BY <1>9, <1>10, <2>1
    <3> QED
      BY <1>5, <3>1, Zenon
  <2>2. CASE i # Len(new)
    <3>1. i \in 1..Len(rest) /\ new[i] = rest[i] /\ Len(new) = Len(rest) + 1
      BY <1>9, <1>10, <2>2
    <3> QED
      BY <1>8, <3>1, Zenon
  <2> QED
    BY <2>1, <2>2
<1>12. Len(new) = IF c + 1 <= n THEN c + 1 ELSE n
  BY <1>9, <1>10
<1> QED
  BY <1>2, <1>10, <1>11, <1>12, Zenon DEF RingHas

\* The invariant of the loop over the lines, after the last of them.
LEMMA RingShows ==
  ASSUME NEW ls \in Seq(Line), Pairs(ls), NEW n \in Nat \ {0}, NEW at, NEW m \in Nat,
         at \in [1..m -> RowsBegun(ls)],
         \A q, r \in 1..m : q < r => at[q] < at[r],
         \A i \in RowsBegun(ls) : \E r \in 1..m : at[r] = i
  PROVE  RingHas(handleLog(ls, n), ls, n, at, Len(ls), m)
<1>1. Len(ls) \in Nat /\ Parsed(ls) \subseteq 1..Len(ls)
  BY ParsedRow
<1>2. PICK ring :
        /\ handleLog(ls, n) = ring[Len(ls)]
        /\ ring[0] = << >>
        /\ \A k \in 1..Len(ls) : ring[k] = observe(ring[k - 1], ls[k], n)
  BY <1>1, RingOfLines, Zenon
<1>3. \A q \in 1..m : at[q] \in Nat /\ at[q] \in 1..Len(ls)
  BY <1>1 DEF RowsBegun
<1> DEFINE T == {k \in 0..Len(ls) :
                  \E c : Passed(at, m, k, c) /\ RingHas(ring[k], ls, n, at, k, c)}
<1>4. 0 \in T
  <2>1. Passed(at, m, 0, 0)
    BY <1>3 DEF Passed
  <2>2. RingHas(<< >>, ls, n, at, 0, 0)
    BY DEF RingHas
  <2>3. RingHas(ring[0], ls, n, at, 0, 0)
    BY <1>2, <2>2, Zenon
  <2> QED
    BY <1>1, <2>1, <2>3
<1>5. ASSUME NEW k \in 0..(Len(ls) - 1), k \in T PROVE k + 1 \in T
  <2>1. PICK c : Passed(at, m, k, c) /\ RingHas(ring[k], ls, n, at, k, c)
    BY <1>5
  <2>2. k \in Nat /\ k + 1 \in 1..Len(ls) /\ k + 1 \in 0..Len(ls) /\ (k + 1) - 1 = k
    BY <1>1
  <2>3. ring[k + 1] = observe(ring[k], ls[k + 1], n)
    BY <1>2, <2>2, Zenon
  <2>4. c \in Nat
    BY <2>1 DEF Passed
  <2>5. ASSUME NEW d, Passed(at, m, k + 1, d),
               RingHas(observe(ring[k], ls[k + 1], n), ls, n, at, k + 1, d)
        PROVE  k + 1 \in T
    <3>1. RingHas(ring[k + 1], ls, n, at, k + 1, d)
      BY <2>3, <2>5, Zenon
    <3> QED
      BY <2>2, <2>5, <3>1
  <2> HIDE DEF T
  <2>6. CASE k + 1 \in RowsBegun(ls)
    <3>1. PICK p \in 1..m : at[p] = k + 1
      BY <2>6
    <3>2. p = c + 1 /\ Passed(at, m, k + 1, c + 1)
      BY <1>3, <2>1, <2>2, <3>1, PassedNext
    <3>3. k + 1 \in Parsed(ls) /\ ls[k + 1].status # "END"
      BY <2>6 DEF RowsBegun
    <3>4. at[c + 1] = k + 1
      BY <3>1, <3>2
    <3>5. RingHas(observe(ring[k], ls[k + 1], n), ls, n, at, k + 1, c + 1)
      BY <2>1, <2>2, <2>4, <3>3, <3>4, RingNew
    <3> QED
      BY <2>5, <3>2, <3>5
  <2>7. CASE k + 1 \notin RowsBegun(ls)
    <3>1. Passed(at, m, k + 1, c)
      <4>1. \A q \in 1..m : at[q] # k + 1
        BY <2>7
      <4> QED
        BY <1>3, <2>1, <2>2, <4>1, PassedOther
    <3>2. CASE k + 1 \in Parsed(ls)
      <4>1. ls[k + 1].status = "END"
        BY <2>7, <3>2 DEF RowsBegun
      <4>2. RingHas(observe(ring[k], ls[k + 1], n), ls, n, at, k + 1, c)
        BY <2>1, <2>2, <3>2, <4>1, RingEnd
      <4> QED
        BY <2>5, <3>1, <4>2
    <3>3. CASE k + 1 \notin Parsed(ls)
      <4>1. ls[k + 1] = Torn
        <5>1. k + 1 \in DOMAIN ls
          BY <2>2
        <5> QED
          BY <3>3, <5>1 DEF Parsed
      <4>2. observe(ring[k], ls[k + 1], n) = ring[k]
        BY <4>1, Zenon DEF observe
      <4>3. RingHas(ring[k], ls, n, at, k + 1, c)
        BY <2>1, <2>2, <3>3, RingTorn
      <4> QED
        BY <2>5, <3>1, <4>2, <4>3, Zenon
    <3> QED
      BY <3>2, <3>3
  <2> QED
    BY <2>6, <2>7
<1>6. Len(ls) \in T
  <2> HIDE DEF T
  <2>1. \A k \in 0..(Len(ls) - 1) : k \in T => k + 1 \in T
    BY <1>5
  <2>2. \A k \in 0..Len(ls) : k \in T
    BY <1>1, <1>4, <2>1, Induction, Zenon
  <2> QED
    BY <1>1, <2>2
<1>7. PICK c : Passed(at, m, Len(ls), c) /\ RingHas(ring[Len(ls)], ls, n, at, Len(ls), c)
  BY <1>6
<1>8. c = m
  <2>1. c \in 0..m /\ \A q \in 1..m : at[q] <= Len(ls) <=> q <= c
    BY <1>7 DEF Passed
  <2>2. CASE m = 0
    BY <2>1, <2>2
  <2>3. CASE m # 0
    <3>1. m \in 1..m /\ at[m] <= Len(ls)
      BY <1>3, <2>3
    <3> QED
      BY <2>1, <3>1
  <2> QED
    BY <2>2, <2>3
<1> QED
  BY <1>2, <1>7, <1>8, Zenon

\* What a row of the ring says of its end.
LEMMA ShownEnd ==
  ASSUME NEW ls \in Seq(Line), Pairs(ls), NEW i \in RowsBegun(ls),
         NEW ev \in Shown, ShowsRow(ev, ls, i, Len(ls))
  PROVE  /\ ev.row.status = "START" => (ev.end = 0 <=> ev.row \in OpenEvents(ls))
         /\ Monotone(ls) => ev.end = 0 \/ ev.end >= ev.row.ts
<1>1. i \in Parsed(ls) /\ ls[i].status # "END" /\ ev.row = ls[i]
  BY DEF RowsBegun, ShowsRow
<1>2. Parsed(ls) \subseteq Nat /\ \A j \in Parsed(ls) : j <= Len(ls)
  BY ParsedRow
<1>3. \A j \in Parsed(ls) : ls[j].ts \in Nat \ {0}
  BY ParsedRow, RecordFields, FileAssumption
<1>4. ASSUME NEW j, EndSeen(ls, i, Len(ls), j)
      PROVE  j \in Parsed(ls) /\ ls[j].status = "END" /\ ls[j].id = ls[i].id /\ i < j
  <2>1. j \in Parsed(ls) /\ ls[j].status = "END" /\ ls[j].id = ls[i].id
    BY <1>4 DEF EndSeen
  <2>2. i # j
    BY <1>1, <2>1
  <2>3. ~(j < i)
    BY <1>1, <2>1 DEF Pairs
  <2>4. i \in Nat /\ j \in Nat
    BY <1>1, <1>2, <2>1
  <2> QED
    BY <2>1, <2>2, <2>3, <2>4
<1>5. CASE ev.end = 0 /\ \A j : ~EndSeen(ls, i, Len(ls), j)
  <2>1. ASSUME ls[i].status = "START" PROVE i \in OpenLines(ls)
    BY <1>1, <1>2, <1>5, <2>1 DEF OpenLines, EndSeen
  <2> QED
    BY <1>1, <1>5, <2>1, OpenEventsAreLines
<1>6. ASSUME NEW j, EndSeen(ls, i, Len(ls), j), ev.end = ls[j].ts
      PROVE  /\ ev.end # 0 /\ ev.row \notin OpenEvents(ls)
             /\ Monotone(ls) => ev.end >= ev.row.ts
  <2>1. j \in Parsed(ls) /\ ls[j].status = "END" /\ ls[j].id = ls[i].id /\ i < j
    BY <1>4, <1>6
  <2>2. ev.end # 0
    BY <1>3, <1>6, <2>1
  <2>3. ASSUME NEW h \in OpenLines(ls), ls[h] = ls[i] PROVE FALSE
    <3>1. h \in Parsed(ls) /\ ls[h].status = "START" /\ ls[h].id = ls[j].id
      BY <2>1, <2>3 DEF OpenLines
    <3>2. h # j
      BY <2>1, <3>1
    <3>3. ~(j < h)
      BY <2>1, <3>1 DEF Pairs
    <3>4. h < j
      BY <1>2, <2>1, <3>1, <3>2, <3>3
    <3> QED
      BY <2>1, <3>1, <3>4 DEF OpenLines
  <2>4. ev.row \notin OpenEvents(ls)
    BY <1>1, <2>3, OpenEventsAreLines
  <2>5. ASSUME Monotone(ls) PROVE ev.end >= ev.row.ts
    <3>1. ls[i].ts <= ls[j].ts
      BY <1>1, <2>1, <2>5 DEF Monotone
    <3> QED
      BY <1>1, <1>3, <1>6, <2>1, <3>1
  <2> QED
    BY <2>2, <2>4, <2>5
<1> QED
  BY <1>5, <1>6, Zenon DEF ShowsRow

\* What the ring has at the end is what LogShowsLatest asks for.
LEMMA LatestShown ==
  ASSUME lines \in Seq(Line), Pairs(lines), Clamped
  PROVE  LogShowsLatest
<1> SUFFICES ASSUME NEW n \in 1..MaxLines
             PROVE  LET shown == handleLog(lines, n)
                        begun == LinesAt(lines, {i \in Parsed(lines) : lines[i].status # "END"})
                        hidden == IF Len(begun) > n THEN Len(begun) - n ELSE 0
                    IN  /\ Len(shown) = Len(begun) - hidden
                        /\ \A i \in DOMAIN shown :
                             /\ shown[i].row = begun[hidden + i]
                             /\ shown[i].row.status = "START" =>
                                  (shown[i].end = 0 <=> shown[i].row \in OpenEvents(lines))
                             /\ ~blind /\ misreported = {} =>
                                  shown[i].end = 0 \/ shown[i].end >= shown[i].row.ts
  BY Zenon DEF LogShowsLatest
<1> DEFINE m == Cardinality(RowsBegun(lines))
           shown == handleLog(lines, n)
           begun == LinesAt(lines, RowsBegun(lines))
           hidden == IF Len(begun) > n THEN Len(begun) - n ELSE 0
<1>1. RowsBegun(lines) \subseteq Nat /\ IsFiniteSet(RowsBegun(lines))
  <2>1. RowsBegun(lines) \subseteq 1..Len(lines)
    BY ParsedRow DEF RowsBegun
  <2> QED
    BY <2>1, FS_Interval, FS_Subset
<1>2. PICK at : Lists(at, RowsBegun(lines)) /\ begun = TakenAt(lines, at, m)
  BY <1>1, RanksListed
<1>3. m \in Nat
  BY <1>1, RanksListed
<1>4. /\ at \in [1..m -> RowsBegun(lines)]
      /\ \A q, r \in 1..m : q < r => at[q] < at[r]
      /\ \A i \in RowsBegun(lines) : \E r \in 1..m : at[r] = i
  BY <1>2, Zenon DEF Lists
<1>5. n \in Nat \ {0}
  BY FileAssumption
<1> HIDE DEF m
<1>6. RingHas(shown, lines, n, at, Len(lines), m)
  BY <1>3, <1>4, <1>5, RingShows
<1> HIDE DEF shown
<1>7. Len(begun) = m /\ \A q \in 1..m : begun[q] = lines[at[q]]
  BY <1>2, <1>3 DEF TakenAt
<1> HIDE DEF begun
<1>8. /\ shown \in Seq(Shown) /\ Len(shown) = (IF m <= n THEN m ELSE n)
      /\ \A i \in 1..Len(shown) : ShowsRow(shown[i], lines, at[m - Len(shown) + i], Len(lines))
  BY <1>6, Zenon DEF RingHas
<1>9. Len(shown) = Len(begun) - hidden /\ Len(shown) \in Nat /\ hidden \in Nat
  BY <1>3, <1>5, <1>7, <1>8
<1>10. ASSUME NEW i \in DOMAIN shown
       PROVE  /\ shown[i].row = begun[hidden + i]
              /\ shown[i].row.status = "START" =>
                   (shown[i].end = 0 <=> shown[i].row \in OpenEvents(lines))
              /\ ~blind /\ misreported = {} =>
                   shown[i].end = 0 \/ shown[i].end >= shown[i].row.ts
  <2>1. i \in 1..Len(shown) /\ shown[i] \in Shown
    BY <1>8
  <2>2. m - Len(shown) + i = hidden + i /\ hidden + i \in 1..m
    <3> HIDE DEF hidden
    <3> QED
      BY <1>3, <1>7, <1>9, <2>1
  <2> DEFINE q == hidden + i
  <2> HIDE DEF q, hidden
  <2>3. ShowsRow(shown[i], lines, at[q], Len(lines))
    BY <1>8, <2>1, <2>2, Zenon DEF q
  <2>4. q \in 1..m /\ at[q] \in RowsBegun(lines)
    BY <1>4, <2>2 DEF q
  <2>5. shown[i].row = begun[q]
    BY <1>7, <2>3, <2>4 DEF ShowsRow
  <2>6. /\ shown[i].row.status = "START" =>
              (shown[i].end = 0 <=> shown[i].row \in OpenEvents(lines))
        /\ Monotone(lines) => shown[i].end = 0 \/ shown[i].end >= shown[i].row.ts
    BY <2>1, <2>3, <2>4, ShownEnd
  <2>7. ~blind /\ misreported = {} => Monotone(lines)
    BY DEF Clamped
  <2> QED
    BY <2>5, <2>6, <2>7, Zenon DEF q
<1> QED
  BY <1>9, <1>10, Zenon DEF shown, begun, RowsBegun

\* /log, for a list of any length: what the ring has after the last line are
\* the last events to have begun, in their order, with their ends; APERTO
\* those that are open.
THEOREM LogShowsLatestHolds == Spec => []LogShowsLatest
<1>1. IInv => LogShowsLatest
  BY LatestShown DEF IInv, Coherent, TypeOK
<1> QED
  BY <1>1, Invariant, PTL

-----------------------------------------------------------------------------
(* The notification log of a user: from here on lines is that file, and     *)
(* what is proved is about NotifSpec.                                      *)

NotifLine == NotificationRecord \cup {Torn}

\* The row i of ls is the last one of the key k.
LastRow(ls, k, i) ==
  /\ i \in Parsed(ls) /\ ls[i].key = k
  /\ \A j \in Parsed(ls) : ls[j].key = k => j <= i

\* w holds the last row of each key in ls.
HoldsLast(ls, w) ==
  /\ DOMAIN w = KeysIn(ls)
  /\ \A k \in DOMAIN w : \E i \in Parsed(ls) : LastRow(ls, k, i) /\ ls[i] = w[k]

\* What has an attempt in the queue is not settled: a first one has no row,
\* one of a scan has a PENDING row or, after /resetnotif, none, and it is
\* the only one of its key.
QueueOpen ==
  /\ fresh \cap DOMAIN whole = {}
  /\ \A rec \in scanned :
       /\ rec.key \in used \ fresh
       /\ rec.key \in DOMAIN whole => whole[rec.key].state = "PENDING"
       /\ \A other \in scanned : other.key = rec.key => other = rec

StoreIInv ==
  /\ NotifTypeOK
  /\ HoldsLast(lines, whole)
  /\ QueueOpen

LEMMA ParsedRecord ==
  ASSUME NEW ls \in Seq(NotifLine), NEW i \in Parsed(ls)
  PROVE  /\ ls[i] \in NotificationRecord
         /\ ls[i].key \in Key /\ ls[i].state \in NotifyState /\ ls[i].ts \in Time
         /\ i \in Nat /\ i \in DOMAIN ls /\ i <= Len(ls)
<1>1. i \in DOMAIN ls /\ ls[i] # Torn
  BY DEF Parsed
<1>2. DOMAIN ls = 1..Len(ls) /\ Len(ls) \in Nat
  OBVIOUS
<1>3. ls[i] \in NotifLine
  BY <1>1, <1>2
<1>4. ls[i] \in NotificationRecord
  BY <1>1, <1>3 DEF NotifLine
<1> QED
  BY <1>1, <1>2, <1>4 DEF NotificationRecord

LEMMA KeyRead ==
  ASSUME NEW ls, NEW k
  PROVE  k \in KeysIn(ls) <=> \E i \in Parsed(ls) : ls[i].key = k
BY DEF KeysIn, Readable

\* foldNotificationRecords reads the last row of each key.
LEMMA FoldReads ==
  ASSUME NEW ls \in Seq(NotifLine), NEW w, w = [k \in DOMAIN w |-> w[k]], HoldsLast(ls, w)
  PROVE  foldNotificationRecords(ls) = w
<1>1. ASSUME NEW k \in DOMAIN w
      PROVE  ls[Max({i \in Parsed(ls) : ls[i].key = k})] = w[k]
  <2> DEFINE S == {i \in Parsed(ls) : ls[i].key = k}
  <2>1. PICK i \in Parsed(ls) : LastRow(ls, k, i) /\ ls[i] = w[k]
    BY DEF HoldsLast
  <2>2. i \in S /\ \A j \in S : i >= j
    <3>1. \A j \in S : j \in Nat /\ i \in Nat /\ j <= i
      BY <2>1, ParsedRecord DEF LastRow
    <3>2. i \in S
      BY <2>1 DEF LastRow
    <3> QED
      BY <3>1, <3>2
  <2>3. S \subseteq Nat
    BY ParsedRecord
  <2> HIDE DEF S
  <2>4. Max(S) \in S /\ \A j \in S : Max(S) >= j
    BY <2>2 DEF Max
  <2>5. Max(S) = i
    BY <2>2, <2>3, <2>4
  <2> QED
    BY <2>1, <2>5 DEF S
<1>2. DOMAIN w = KeysIn(ls)
  BY DEF HoldsLast
<1> QED
  BY <1>1, <1>2 DEF foldNotificationRecords

LEMMA FoldIsWhole ==
  ASSUME StoreIInv
  PROVE  foldNotificationRecords(lines) = whole
<1>1. /\ lines \in Seq(NotifLine) /\ HoldsLast(lines, whole)
      /\ whole = [k \in DOMAIN whole |-> whole[k]]
  BY DEF StoreIInv, NotifTypeOK, NotifLine
<1> QED
  BY <1>1, FoldReads

LEMMA FoldOfNothing ==
  foldNotificationRecords(<< >>) = [k \in {} |-> {}]
<1>1. KeysIn(<< >>) = {}
  BY DEF KeysIn, Readable, Parsed
<1> QED
  BY <1>1 DEF foldNotificationRecords

-----------------------------------------------------------------------------
(* Appending a row of the notification log.                                *)

PutIn(w, rec) ==
  [k \in DOMAIN w \cup {rec.key} |-> IF k = rec.key THEN rec ELSE w[k]]

\* new is ls with the row rec at its end.
RowAdded(new, ls, rec) ==
  /\ new \in Seq(NotifLine)
  /\ Parsed(new) = Parsed(ls) \cup {Len(ls) + 1}
  /\ new[Len(ls) + 1] = rec
  /\ \A i \in Parsed(ls) : new[i] = ls[i] /\ i \in Nat /\ i < Len(ls) + 1
  /\ Len(ls) + 1 \in Nat

LEMMA RowIsAdded ==
  ASSUME NEW ls \in Seq(NotifLine), NEW rec \in NotificationRecord,
         NEW new, new = Append(ls, rec)
  PROVE  RowAdded(new, ls, rec)
<1>1. rec \in NotifLine /\ rec # Torn
  BY NotifTornAssumption DEF NotifLine
<1>2. new \in Seq(NotifLine) /\ Len(ls) \in Nat /\ Len(ls) + 1 \in Nat
  BY <1>1
<1>3. DOMAIN new = DOMAIN ls \cup {Len(ls) + 1}
  BY <1>1
<1>4. new[Len(ls) + 1] = rec
  BY <1>1
<1>5. \A i \in DOMAIN ls : new[i] = ls[i]
  BY <1>1
<1>6. \A i \in Parsed(ls) : i \in Nat /\ i < Len(ls) + 1
  BY <1>2, ParsedRecord
<1>7. Parsed(new) = Parsed(ls) \cup {Len(ls) + 1}
  BY <1>1, <1>3, <1>4, <1>5 DEF Parsed
<1>8. \A i \in Parsed(ls) : new[i] = ls[i]
  BY <1>5 DEF Parsed
<1>9. \A i \in Parsed(ls) : new[i] = ls[i] /\ i \in Nat /\ i < Len(ls) + 1
  BY <1>6, <1>8
<1> QED
  BY <1>2, <1>4, <1>7, <1>9, Zenon DEF RowAdded

LEMMA AddedHoldsLast ==
  ASSUME NEW ls \in Seq(NotifLine), NEW w, HoldsLast(ls, w),
         NEW rec \in NotificationRecord, NEW new,
         RowAdded(new, ls, rec)
  PROVE  HoldsLast(new, PutIn(w, rec))
<1> DEFINE n == Len(ls) + 1
<1>1. /\ Parsed(new) = Parsed(ls) \cup {n} /\ new[n] = rec /\ n \in Nat
      /\ \A i \in Parsed(ls) : new[i] = ls[i] /\ i \in Nat /\ i < n
  BY DEF RowAdded
<1> HIDE DEF n
<1>2. \A k : k \in KeysIn(new) <=> k \in KeysIn(ls) \/ k = rec.key
  BY <1>1, KeyRead
<1>3. DOMAIN PutIn(w, rec) = KeysIn(new)
  BY <1>2 DEF PutIn, HoldsLast
<1>4. ASSUME NEW k \in DOMAIN PutIn(w, rec)
      PROVE  \E i \in Parsed(new) : LastRow(new, k, i) /\ new[i] = PutIn(w, rec)[k]
  <2>1. CASE k = rec.key
    <3>1. LastRow(new, k, n)
      BY <1>1, <2>1 DEF LastRow
    <3>2. PutIn(w, rec)[k] = rec
      BY <2>1 DEF PutIn
    <3> QED
      BY <1>1, <3>1, <3>2
  <2>2. CASE k # rec.key
    <3>1. k \in DOMAIN w /\ PutIn(w, rec)[k] = w[k]
      BY <2>2 DEF PutIn
    <3>2. PICK i \in Parsed(ls) : LastRow(ls, k, i) /\ ls[i] = w[k]
      BY <3>1 DEF HoldsLast
    <3>3. LastRow(new, k, i)
      BY <1>1, <2>2, <3>2 DEF LastRow
    <3> QED
      BY <1>1, <3>1, <3>2, <3>3
  <2> QED
    BY <2>1, <2>2
<1> QED
  BY <1>3, <1>4 DEF HoldsLast

LEMMA TornHoldsLast ==
  ASSUME NEW ls \in Seq(NotifLine), NEW w, HoldsLast(ls, w), NEW new, new = Append(ls, Torn)
  PROVE  new \in Seq(NotifLine) /\ HoldsLast(new, w)
<1>1. Torn \in NotifLine
  BY DEF NotifLine
<1>2. new \in Seq(NotifLine)
  BY <1>1
<1>3. DOMAIN new = DOMAIN ls \cup {Len(ls) + 1}
  BY <1>1
<1>4. new[Len(ls) + 1] = Torn
  BY <1>1
<1>5. \A i \in DOMAIN ls : new[i] = ls[i]
  BY <1>1
<1>6. Parsed(new) = Parsed(ls) /\ \A i \in Parsed(ls) : new[i] = ls[i]
  BY <1>3, <1>4, <1>5 DEF Parsed
<1>7. KeysIn(new) = KeysIn(ls)
  BY <1>6 DEF KeysIn, Readable
<1>8. \A k : \A i \in Parsed(ls) : LastRow(ls, k, i) => LastRow(new, k, i)
  BY <1>6 DEF LastRow
<1> QED
  BY <1>2, <1>6, <1>7, <1>8 DEF HoldsLast

\* The row was written whole, and is then what is read, or nothing changed.
RowWritten(rec) ==
  /\ lines' \in Seq(NotifLine) /\ unterminated' \in BOOLEAN /\ failed' \in BOOLEAN
  /\ HoldsLast(lines', whole')
  /\ whole' \in {whole, PutIn(whole, rec)}

LEMMA AppendWrites ==
  ASSUME StoreIInv, NEW rec \in NotificationRecord,
         appendNotificationRecord(rec)
  PROVE  RowWritten(rec)
<1>1. /\ lines \in Seq(NotifLine) /\ unterminated \in BOOLEAN /\ failed \in BOOLEAN
      /\ HoldsLast(lines, whole)
  BY DEF StoreIInv, NotifTypeOK, NotifLine
<1>2. PICK o \in Appends(rec) :
        /\ lines' = o.file.lines /\ unterminated' = o.file.unterminated
        /\ failed' = (failed \/ ~o.ok)
        /\ whole' = IF Len(lines') > Len(lines) /\ Last(lines') = rec
                    THEN PutIn(whole, rec) ELSE whole
  BY DEF appendNotificationRecord, PutIn
<1>3. /\ lines' \in {lines, Append(lines, Torn), Append(lines, rec)}
      /\ unterminated' \in BOOLEAN /\ o.ok \in BOOLEAN
  BY <1>1, <1>2, AppendsOutcome
<1>4. failed' \in BOOLEAN
  BY <1>2, Zenon
<1>5. CASE lines' = lines
  <2>1. ~(Len(lines') > Len(lines))
    BY <1>1, <1>5
  <2>2. whole' = whole
    BY <1>2, <2>1
  <2> QED
    BY <1>1, <1>3, <1>4, <1>5, <2>2 DEF RowWritten
<1>6. CASE lines' = Append(lines, Torn)
  <2>1. Last(lines') = Torn
    <3>1. lines' \in Seq(NotifLine) /\ Len(lines') = Len(lines) + 1
      BY <1>1, <1>6 DEF NotifLine
    <3> QED
      BY <1>1, <1>6, <3>1 DEF Last
  <2>2. whole' = whole
    <3>1. rec # Torn
      BY NotifTornAssumption
    <3> QED
      BY <1>2, <2>1, <3>1
  <2>3. lines' \in Seq(NotifLine) /\ HoldsLast(lines', whole)
    BY <1>1, <1>6, TornHoldsLast
  <2> QED
    BY <1>3, <1>4, <2>2, <2>3 DEF RowWritten
<1>7. CASE lines' = Append(lines, rec)
  <2>1. RowAdded(lines', lines, rec)
    BY <1>1, <1>7, RowIsAdded
  <2>2. Len(lines') > Len(lines) /\ Last(lines') = rec
    BY <1>1, <1>7 DEF Last
  <2>3. whole' = PutIn(whole, rec)
    BY <1>2, <2>2
  <2>4. HoldsLast(lines', PutIn(whole, rec))
    BY <1>1, <2>1, AddedHoldsLast
  <2>5. lines' \in Seq(NotifLine)
    BY <2>1 DEF RowAdded
  <2> QED
    BY <1>3, <1>4, <2>3, <2>4, <2>5 DEF RowWritten
<1> QED
  BY <1>3, <1>5, <1>6, <1>7

-----------------------------------------------------------------------------
(* The steps: each keeps StoreIInv and does to whole what RowStore allows.  *)

Without(w, gone) == [k \in DOMAIN w \ gone |-> w[k]]

Unsettled(k) == k \in DOMAIN whole => whole[k].state = "PENDING"

PutOne ==
  /\ \E rec \in NotificationRecord : Unsettled(rec.key) /\ whole' = PutIn(whole, rec)
  /\ wiped' = wiped

ForgetSome ==
  /\ \E gone : /\ \A k \in gone : k \in DOMAIN whole /\ whole[k].state # "PENDING"
               /\ whole' = Without(whole, gone)
  /\ wiped' = wiped

StoreEffect ==
  \/ whole' = whole /\ wiped' = wiped
  \/ PutOne
  \/ ForgetSome
  \/ whole' = [k \in {} |-> {}] /\ wiped' = ~wiped

StoreStep == StoreIInv' /\ StoreEffect

LEMMA StoreTypes ==
  ASSUME StoreIInv
  PROVE  /\ lines \in Seq(NotifLine) /\ unterminated \in BOOLEAN /\ failed \in BOOLEAN
         /\ fresh \subseteq used /\ used \subseteq Key
         /\ scanned \subseteq {rec \in NotificationRecord : rec.state = "PENDING"}
         /\ whole \in [DOMAIN whole -> NotificationRecord] /\ DOMAIN whole \subseteq used
         /\ wiped \in BOOLEAN
         /\ HoldsLast(lines, whole)
BY DEF StoreIInv, NotifTypeOK, NotifLine

LEMMA PutInTypes ==
  ASSUME NEW w, w \in [DOMAIN w -> NotificationRecord], NEW rec \in NotificationRecord
  PROVE  /\ DOMAIN PutIn(w, rec) = DOMAIN w \cup {rec.key}
         /\ PutIn(w, rec) \in [DOMAIN PutIn(w, rec) -> NotificationRecord]
         /\ PutIn(w, rec)[rec.key] = rec
         /\ \A k \in DOMAIN w : k # rec.key => PutIn(w, rec)[k] = w[k]
BY DEF PutIn

\* The queue lost attempts, and nothing was written.
LEMMA QueueShrinks ==
  ASSUME StoreIInv, UNCHANGED <<lines, unterminated, used, whole, wiped>>,
         failed' \in BOOLEAN, fresh' \subseteq fresh, scanned' \subseteq scanned
  PROVE  StoreStep
<1>1. NotifTypeOK'
  BY DEF StoreIInv, NotifTypeOK
<1>2. HoldsLast(lines, whole)'
  BY DEF StoreIInv
<1>3. QueueOpen'
  BY DEF StoreIInv, QueueOpen
<1> QED
  BY <1>1, <1>2, <1>3 DEF StoreStep, StoreEffect, StoreIInv

\* The row rec was written, or was to be; the queue has nothing of its key.
LEMMA RowStep ==
  ASSUME StoreIInv, NEW rec \in NotificationRecord, RowWritten(rec), UNCHANGED <<used, wiped>>,
         rec.key \in used, Unsettled(rec.key),
         fresh' \subseteq fresh, rec.key \notin fresh',
         scanned' \subseteq scanned, \A other \in scanned' : other.key # rec.key
  PROVE  StoreStep
<1>1. /\ lines' \in Seq(NotifLine) /\ unterminated' \in BOOLEAN /\ failed' \in BOOLEAN
      /\ HoldsLast(lines', whole')
  BY DEF RowWritten
<1>2. /\ DOMAIN whole' \subseteq DOMAIN whole \cup {rec.key}
      /\ whole' \in [DOMAIN whole' -> NotificationRecord]
      /\ \A k \in DOMAIN whole' : k # rec.key => k \in DOMAIN whole /\ whole'[k] = whole[k]
  <2>1. whole \in [DOMAIN whole -> NotificationRecord]
    BY StoreTypes
  <2>2. CASE whole' = whole
    BY <2>1, <2>2
  <2>3. CASE whole' = PutIn(whole, rec)
    <3> DEFINE w == PutIn(whole, rec)
    <3>1. /\ DOMAIN w = DOMAIN whole \cup {rec.key} /\ w \in [DOMAIN w -> NotificationRecord]
          /\ \A k \in DOMAIN whole : k # rec.key => w[k] = whole[k]
      BY <2>1, PutInTypes, Zenon
    <3> HIDE DEF w
    <3>2. whole' = w
      BY <2>3 DEF w
    <3> QED
      BY <3>1, <3>2
  <2> QED
    BY <2>2, <2>3 DEF RowWritten
<1>3. NotifTypeOK'
  <2>1. lines' \in Seq(NotificationRecord \cup {Torn})
    BY <1>1 DEF NotifLine
  <2>2. DOMAIN whole' \subseteq used' /\ fresh' \subseteq used' /\ used' \subseteq Key
    BY <1>2, StoreTypes
  <2>3. scanned' \subseteq {r \in NotificationRecord : r.state = "PENDING"} /\ wiped' \in BOOLEAN
    BY StoreTypes
  <2> QED
    BY <1>1, <1>2, <2>1, <2>2, <2>3, Zenon DEF NotifTypeOK
<1>4. QueueOpen'
  BY <1>2 DEF StoreIInv, QueueOpen
<1>5. StoreIInv'
  BY <1>1, <1>3, <1>4 DEF StoreIInv
<1>6. StoreEffect
  BY DEF RowWritten, StoreEffect, PutOne
<1> QED
  BY <1>5, <1>6 DEF StoreStep

LEMMA NotifyStep ==
  ASSUME StoreIInv, NEW k \in Key, notifyEvent(k)
  PROVE  StoreStep
<1>1. /\ k \notin used /\ used' = used \cup {k} /\ fresh' = fresh \cup {k}
      /\ UNCHANGED <<lines, unterminated, scanned, failed, whole, wiped>>
  BY DEF notifyEvent, file
<1>2. NotifTypeOK'
  BY <1>1 DEF StoreIInv, NotifTypeOK
<1>3. QueueOpen'
  BY <1>1, StoreTypes DEF StoreIInv, QueueOpen
<1> QED
  BY <1>1, <1>2, <1>3 DEF StoreStep, StoreEffect, StoreIInv

LEMMA FirstOutcomeStep ==
  ASSUME StoreIInv, NEW k \in Key, FirstOutcome(k)
  PROVE  StoreStep
<1>1. /\ k \in fresh /\ fresh' = fresh \ {k} /\ UNCHANGED <<scanned, used, wiped>>
      /\ k \notin DOMAIN whole /\ \A other \in scanned : other.key # k
      /\ k \in used
  BY StoreTypes DEF FirstOutcome, StoreIInv, QueueOpen
<1>2. CASE NothingWritten
  BY <1>1, <1>2, QueueShrinks, StoreTypes DEF NothingWritten, file
<1>3. CASE \E state \in {"PENDING", "ABANDONED"}, ts \in Time :
             appendNotificationRecord([key |-> k, state |-> state, ts |-> ts])
  <2>1. PICK state \in {"PENDING", "ABANDONED"}, ts \in Time :
          appendNotificationRecord([key |-> k, state |-> state, ts |-> ts])
    BY <1>3
  <2> DEFINE rec == [key |-> k, state |-> state, ts |-> ts]
  <2>2. rec \in NotificationRecord /\ rec.key = k
    BY DEF NotificationRecord, NotifyState
  <2>3. appendNotificationRecord(rec)
    BY <2>1
  <2> HIDE DEF rec
  <2>4. RowWritten(rec)
    BY <2>2, <2>3, AppendWrites
  <2> QED
    BY <1>1, <2>2, <2>4, RowStep DEF Unsettled
<1> QED
  BY <1>2, <1>3 DEF FirstOutcome

LEMMA ScanOutcomeStep ==
  ASSUME StoreIInv, NEW rec \in NotificationRecord, ScanOutcome(rec)
  PROVE  StoreStep
<1>1. /\ rec \in scanned /\ scanned' = scanned \ {rec} /\ UNCHANGED <<fresh, used, wiped>>
      /\ rec.key \in used /\ rec.key \notin fresh /\ Unsettled(rec.key)
      /\ \A other \in scanned' : other.key # rec.key
  BY DEF ScanOutcome, StoreIInv, QueueOpen, Unsettled
<1>2. CASE NothingWritten
  BY <1>1, <1>2, QueueShrinks, StoreTypes DEF NothingWritten, file
<1>3. ASSUME NEW row \in NotificationRecord, row.key = rec.key, appendNotificationRecord(row)
      PROVE  StoreStep
  <2>1. RowWritten(row)
    BY <1>3, AppendWrites
  <2> QED
    BY <1>1, <1>3, <2>1, RowStep
<1>4. CASE appendNotificationRecord(rec)
  BY <1>3, <1>4
<1>5. CASE \E state \in {"RESOLVED", "ABANDONED"}, ts \in Time :
             appendNotificationRecord([key |-> rec.key, state |-> state, ts |-> ts])
  <2>1. PICK state \in {"RESOLVED", "ABANDONED"}, ts \in Time :
          appendNotificationRecord([key |-> rec.key, state |-> state, ts |-> ts])
    BY <1>5
  <2> DEFINE row == [key |-> rec.key, state |-> state, ts |-> ts]
  <2>2. row \in NotificationRecord /\ row.key = rec.key
    BY DEF NotificationRecord, NotifyState
  <2>3. appendNotificationRecord(row)
    BY <2>1
  <2> HIDE DEF row
  <2> QED
    BY <1>3, <2>2, <2>3
<1> QED
  BY <1>2, <1>4, <1>5 DEF ScanOutcome

\* A scan finds the whole log, or an empty one if it cannot be opened.
LEMMA Loads ==
  ASSUME StoreIInv, NEW ls \in Loadable(lines)
  PROVE  foldNotificationRecords(ls) \in {whole, [k \in {} |-> {}]}
<1>1. ls \in {lines, << >>}
  BY DEF Loadable
<1> QED
  BY <1>1, FoldIsWhole, FoldOfNothing

LEMMA ScanStep ==
  ASSUME StoreIInv, runRecoveryScan
  PROVE  StoreStep
<1>1. PICK ls \in Loadable(lines) :
        scanned' = {foldNotificationRecords(ls)[k] :
                      k \in pendingFrom(foldNotificationRecords(ls))}
  BY DEF runRecoveryScan
<1>2. UNCHANGED <<lines, unterminated, fresh, failed, used, whole, wiped>>
  BY DEF runRecoveryScan, file
<1>3. \A rec \in scanned' : /\ rec \in NotificationRecord /\ rec.state = "PENDING"
                            /\ rec.key \in DOMAIN whole /\ rec = whole[rec.key]
  <2> DEFINE latest == foldNotificationRecords(ls)
  <2>1. latest \in {whole, [k \in {} |-> {}]}
    BY Loads
  <2>2. scanned' = {latest[k] : k \in {k \in DOMAIN latest : latest[k].state = "PENDING"}}
    BY <1>1 DEF pendingFrom
  <2> HIDE DEF latest
  <2>3. CASE latest = whole
    <3>1. \A k \in DOMAIN whole : whole[k] \in NotificationRecord /\ whole[k].key = k
      BY StoreTypes DEF HoldsLast, LastRow
    <3> QED
      BY <2>2, <2>3, <3>1
  <2>4. CASE latest = [k \in {} |-> {}]
    BY <2>2, <2>4
  <2> QED
    BY <2>1, <2>3, <2>4
<1>4. NotifTypeOK'
  BY <1>2, <1>3 DEF StoreIInv, NotifTypeOK
<1>5. QueueOpen'
  BY <1>2, <1>3, StoreTypes DEF StoreIInv, QueueOpen
<1> QED
  BY <1>2, <1>4, <1>5 DEF StoreStep, StoreEffect, StoreIInv

LEMMA ResetNotifStep ==
  ASSUME StoreIInv, handleResetNotif
  PROVE  StoreStep
<1>1. /\ lines' = << >> /\ unterminated' = FALSE /\ whole' = << >> /\ wiped' = ~wiped
      /\ UNCHANGED <<fresh, scanned, failed, used>>
  BY DEF handleResetNotif
<1>2. whole' = [k \in {} |-> {}] /\ DOMAIN whole' = {}
  BY <1>1
<1>3. NotifTypeOK'
  <2>1. /\ lines' \in Seq(NotificationRecord \cup {Torn})
        /\ whole' \in [DOMAIN whole' -> NotificationRecord]
    BY <1>1, <1>2
  <2> QED
    BY <1>1, <1>2, <2>1 DEF StoreIInv, NotifTypeOK
<1>4. HoldsLast(lines, whole)'
  <2>1. KeysIn(lines') = {}
    BY <1>1 DEF KeysIn, Readable, Parsed
  <2> QED
    BY <1>2, <2>1 DEF HoldsLast
<1>5. QueueOpen'
  BY <1>1, <1>2 DEF StoreIInv, QueueOpen
<1> QED
  BY <1>1, <1>2, <1>3, <1>4, <1>5 DEF StoreStep, StoreEffect, StoreIInv

LEMMA CrashStep ==
  ASSUME StoreIInv, NotifCrash
  PROVE  StoreStep
BY QueueShrinks DEF NotifCrash, file

-----------------------------------------------------------------------------
(* Rotation: settled notifications go whole.                               *)

\* What the readers of new are told, if it is made of the lines of ls at the
\* numbers in keep.
RowsAt(new, ls, at, n) ==
  /\ n \in Nat /\ new \in Seq(NotifLine) /\ Parsed(new) = 1..n
  /\ \A r \in 1..n : new[r] = ls[at[r]]

LEMMA RowsAreAt ==
  ASSUME NEW ls \in Seq(NotifLine), NEW keep, keep \subseteq Parsed(ls)
  PROVE  \E at : /\ Lists(at, keep)
                 /\ RowsAt(LinesAt(ls, keep), ls, at, Cardinality(keep))
<1>1. /\ \A i \in keep : i \in 1..Len(ls) /\ ls[i] \in NotifLine /\ ls[i] # Torn
      /\ Len(ls) \in Nat
  BY ParsedRecord DEF Parsed
<1>2. keep \subseteq Nat /\ IsFiniteSet(keep)
  <2>1. IsFiniteSet(1..Len(ls)) /\ keep \subseteq 1..Len(ls)
    BY <1>1, FS_Interval
  <2>2. IsFiniteSet(keep)
    BY <2>1, FS_Subset
  <2>3. keep \subseteq Nat
    BY <1>1
  <2> QED
    BY <2>2, <2>3
<1> DEFINE n == Cardinality(keep)
<1>3. n \in Nat /\ \E at : Lists(at, keep) /\ LinesAt(ls, keep) = TakenAt(ls, at, n)
  BY <1>2, RanksListed
<1>4. PICK at : Lists(at, keep) /\ LinesAt(ls, keep) = TakenAt(ls, at, n)
  BY <1>3
<1>5. \A r \in 1..n : at[r] \in keep
  BY <1>4 DEF Lists
<1> HIDE DEF n
<1> DEFINE new == LinesAt(ls, keep)
<1>6. new = TakenAt(ls, at, n)
  BY <1>4
<1> HIDE DEF new
<1>7. DOMAIN new = 1..n /\ \A r \in 1..n : new[r] = ls[at[r]]
  BY <1>6 DEF TakenAt
<1>8. new \in Seq(NotifLine)
  <2>1. TakenAt(ls, at, n) \in [1..n -> NotifLine]
    BY <1>1, <1>5 DEF TakenAt
  <2> QED
    BY <1>3, <1>6, <2>1
<1>9. Parsed(new) = 1..n
  BY <1>1, <1>5, <1>7 DEF Parsed
<1>10. RowsAt(new, ls, at, n)
  BY <1>3, <1>7, <1>8, <1>9, Zenon DEF RowsAt
<1> QED
  BY <1>4, <1>10 DEF new, n

LEMMA RowsLeft ==
  ASSUME NEW ls \in Seq(NotifLine), NEW w, HoldsLast(ls, w), NEW gone, NEW new,
         new = LinesAt(ls, {i \in Parsed(ls) : ls[i].key \notin gone})
  PROVE  /\ new \in Seq(NotifLine)
         /\ KeysIn(new) = DOMAIN w \ gone
         /\ HoldsLast(new, Without(w, gone))
<1> DEFINE keep == {i \in Parsed(ls) : ls[i].key \notin gone}
           n == Cardinality(keep)
<1>1. PICK at : Lists(at, keep) /\ RowsAt(new, ls, at, n)
  BY RowsAreAt
<1>2. \A i : i \in keep <=> i \in Parsed(ls) /\ ls[i].key \notin gone
  OBVIOUS
<1>3. \A i \in keep : i \in Nat
  BY ParsedRecord
<1> HIDE DEF keep, n
<1>4. /\ n \in Nat /\ new \in Seq(NotifLine) /\ Parsed(new) = 1..n
      /\ \A r \in 1..n : new[r] = ls[at[r]]
  BY <1>1 DEF RowsAt
<1>5. /\ \A r \in 1..n : at[r] \in keep
      /\ \A q, r \in 1..n : q < r => at[q] < at[r]
      /\ \A i \in keep : \E r \in 1..n : at[r] = i
  BY <1>1 DEF Lists, n
<1>6. \A k : k \in KeysIn(new) <=> k \in KeysIn(ls) /\ k \notin gone
  <2> SUFFICES ASSUME NEW k
               PROVE  k \in KeysIn(new) <=> k \in KeysIn(ls) /\ k \notin gone
    OBVIOUS
  <2>1. k \in KeysIn(new) <=> \E r \in 1..n : new[r].key = k
    BY <1>4, KeyRead
  <2>2. ASSUME NEW r \in 1..n, new[r].key = k
        PROVE  \E i \in keep : ls[i].key = k
    <3>1. at[r] \in keep /\ new[r] = ls[at[r]]
      BY <1>4, <1>5
    <3> QED
      BY <2>2, <3>1
  <2>3. ASSUME NEW i \in keep, ls[i].key = k
        PROVE  \E r \in 1..n : new[r].key = k
    <3>1. PICK r \in 1..n : at[r] = i
      BY <1>5
    <3>2. new[r] = ls[i]
      BY <1>4, <3>1
    <3> QED
      BY <2>3, <3>2
  <2>4. k \in KeysIn(ls) <=> \E i \in Parsed(ls) : ls[i].key = k
    BY KeyRead
  <2>5. (\E i \in keep : ls[i].key = k)
          <=> (\E i \in Parsed(ls) : ls[i].key = k) /\ k \notin gone
    BY <1>2
  <2> QED
    BY <2>1, <2>2, <2>3, <2>4, <2>5
<1>7. KeysIn(new) = DOMAIN w \ gone
  BY <1>6 DEF HoldsLast
<1>8. ASSUME NEW k \in DOMAIN Without(w, gone)
      PROVE  \E r \in Parsed(new) : LastRow(new, k, r) /\ new[r] = Without(w, gone)[k]
  <2>1. k \in DOMAIN w /\ k \notin gone /\ Without(w, gone)[k] = w[k]
    BY DEF Without
  <2>2. PICK i \in Parsed(ls) : LastRow(ls, k, i) /\ ls[i] = w[k]
    BY <2>1 DEF HoldsLast
  <2>3. i \in keep /\ ls[i].key = k /\ \A j \in keep : ls[j].key = k => j <= i
    BY <1>2, <2>1, <2>2 DEF LastRow
  <2>4. PICK r \in 1..n : at[r] = i
    BY <1>5, <2>3
  <2>5. \A q \in 1..n : new[q].key = k => q <= r
    <3> SUFFICES ASSUME NEW q \in 1..n, new[q].key = k, r < q
                 PROVE  FALSE
      BY <1>4
    <3>1. at[q] \in keep /\ at[q] <= i /\ i < at[q]
      BY <1>4, <1>5, <2>3, <2>4
    <3> QED
      BY <1>3, <2>3, <3>1
  <2>6. LastRow(new, k, r)
    BY <1>4, <2>3, <2>4, <2>5 DEF LastRow
  <2> QED
    BY <1>4, <2>1, <2>2, <2>4, <2>6
<1>9. DOMAIN Without(w, gone) = DOMAIN w \ gone
  BY DEF Without
<1> QED
  BY <1>4, <1>7, <1>8, <1>9 DEF HoldsLast

LEMMA RotationStep ==
  ASSUME StoreIInv, NEW cutoff \in Time, rotateNotificationLog(cutoff)
  PROVE  StoreStep
<1>1. PICK ls \in Loadable(lines) :
        lines' = RotatedLines(foldNotificationRecords(ls), cutoff)
  BY DEF rotateNotificationLog
<1>2. /\ unterminated' = FALSE /\ whole' = Restrict(whole, KeysIn(lines'))
      /\ UNCHANGED <<fresh, scanned, failed, used, wiped>>
  BY DEF rotateNotificationLog
<1> DEFINE latest == foldNotificationRecords(ls)
           gone == {k \in DOMAIN latest : latest[k].state # "PENDING" /\ latest[k].ts < cutoff}
<1>3. latest \in {whole, [k \in {} |-> {}]}
  BY Loads
<1>4. \A i \in Parsed(lines) :
        Eligible(latest, lines[i], cutoff) <=> lines[i].key \in gone
  BY DEF Eligible
<1>5. lines' = LinesAt(lines, {i \in Parsed(lines) : lines[i].key \notin gone})
  <2>1. {i \in Parsed(lines) : ~Eligible(latest, lines[i], cutoff)}
          = {i \in Parsed(lines) : lines[i].key \notin gone}
    BY <1>4
  <2> QED
    BY <1>1, <2>1 DEF RotatedLines
<1>6. \A k \in gone : k \in DOMAIN whole /\ whole[k].state # "PENDING"
  BY <1>3
<1> HIDE DEF gone, latest
<1>7. /\ lines' \in Seq(NotifLine) /\ KeysIn(lines') = DOMAIN whole \ gone
      /\ HoldsLast(lines', Without(whole, gone))
  BY <1>5, StoreTypes, RowsLeft
<1>8. whole' = Without(whole, gone)
  BY <1>2, <1>7 DEF Restrict, Without
<1>9. /\ DOMAIN whole' \subseteq DOMAIN whole /\ whole' \in [DOMAIN whole' -> NotificationRecord]
      /\ \A k \in DOMAIN whole' : whole'[k] = whole[k]
  BY <1>8, StoreTypes DEF Without
<1>10. NotifTypeOK'
  <2>1. lines' \in Seq(NotificationRecord \cup {Torn}) /\ DOMAIN whole' \subseteq used'
    BY <1>2, <1>7, <1>9, StoreTypes DEF NotifLine
  <2> QED
    BY <1>2, <1>9, <2>1 DEF StoreIInv, NotifTypeOK
<1>11. QueueOpen'
  BY <1>2, <1>9 DEF StoreIInv, QueueOpen
<1>12. HoldsLast(lines', whole')
  BY <1>7, <1>8
<1>13. ForgetSome
  BY <1>2, <1>6, <1>8 DEF ForgetSome
<1> QED
  BY <1>10, <1>11, <1>12, <1>13 DEF StoreStep, StoreEffect, StoreIInv

LEMMA RotationFailsStep ==
  ASSUME StoreIInv, NotifRotationFails
  PROVE  StoreStep
<1>1. failed' \in BOOLEAN
  BY StoreTypes DEF NotifRotationFails
<1> QED
  BY <1>1, QueueShrinks DEF NotifRotationFails, file

-----------------------------------------------------------------------------
(* The notification log as a store of rows.                                 *)

LEMMA StoreInit ==
  ASSUME NotifInit
  PROVE  StoreIInv /\ Store!Init
<1>1. /\ lines = << >> /\ whole = << >> /\ fresh = {} /\ scanned = {} /\ used = {}
      /\ unterminated = FALSE /\ failed = FALSE /\ wiped = FALSE
  BY DEF NotifInit
<1>2. whole = [k \in {} |-> {}] /\ DOMAIN whole = {}
  BY <1>1
<1>3. NotifTypeOK
  <2>1. /\ lines \in Seq(NotificationRecord \cup {Torn})
        /\ whole \in [DOMAIN whole -> NotificationRecord]
    BY <1>1, <1>2
  <2> QED
    BY <1>1, <1>2, <2>1 DEF NotifTypeOK
<1>4. HoldsLast(lines, whole)
  <2>1. KeysIn(lines) = {}
    BY <1>1 DEF KeysIn, Readable, Parsed
  <2> QED
    BY <1>2, <2>1 DEF HoldsLast
<1>5. QueueOpen
  BY <1>1 DEF QueueOpen
<1>6. Store!Init
  BY <1>1, FoldOfNothing DEF Store!Init
<1> QED
  BY <1>3, <1>4, <1>5, <1>6 DEF StoreIInv

LEMMA EveryStep ==
  ASSUME StoreIInv, [NotifNext]_notifVars
  PROVE  StoreStep
<1>1. CASE NotifNext
  <2>1. ASSUME NEW k \in Key, notifyEvent(k) \/ FirstOutcome(k)
        PROVE  StoreStep
    BY <2>1, NotifyStep, FirstOutcomeStep
  <2>2. ASSUME NEW rec \in NotificationRecord, ScanOutcome(rec)
        PROVE  StoreStep
    BY <2>2, ScanOutcomeStep
  <2>3. ASSUME NEW cutoff \in Time, rotateNotificationLog(cutoff)
        PROVE  StoreStep
    BY <2>3, RotationStep
  <2> QED
    BY <1>1, <2>1, <2>2, <2>3, ScanStep, RotationFailsStep, ResetNotifStep, CrashStep
       DEF NotifNext
<1>2. CASE UNCHANGED notifVars
  <2>1. UNCHANGED <<lines, unterminated, fresh, scanned, failed, used, whole, wiped>>
    BY <1>2 DEF notifVars, file
  <2> QED
    BY <2>1, QueueShrinks, StoreTypes
<1> QED
  BY <1>1, <1>2

\* What is read back is whole before and after, so that the effect of the
\* step on whole is its effect on the store.
LEMMA StoreStepIsOne ==
  ASSUME StoreIInv, StoreStep
  PROVE  [Store!Next]_(Store!vars)
<1>1. foldNotificationRecords(lines) = whole
  BY FoldIsWhole
<1>2. foldNotificationRecords(lines') = whole'
  <2>1. /\ lines' \in Seq(NotifLine) /\ whole' = [k \in DOMAIN whole' |-> whole'[k]]
        /\ HoldsLast(lines', whole')
    BY DEF StoreStep, StoreIInv, NotifTypeOK, NotifLine
  <2> QED
    BY <2>1, FoldReads
<1>3. Store!Kept = DOMAIN whole
      /\ Store!Settled = {k \in DOMAIN whole : whole[k].state # "PENDING"}
  BY <1>1 DEF Store!Kept, Store!Settled
<1>4. CASE whole' = whole /\ wiped' = wiped
  BY <1>1, <1>2, <1>4 DEF Store!vars
<1>5. CASE PutOne
  <2>1. PICK rec \in NotificationRecord : Unsettled(rec.key) /\ whole' = PutIn(whole, rec)
    BY <1>5 DEF PutOne
  <2>2. rec \in Store!Row
    BY DEF NotificationRecord, NotifyState, Store!Row, Store!State
  <2>3. rec.key \notin Store!Settled
    BY <1>3, <2>1 DEF Unsettled
  <2>4. Store!Put(rec)
    BY <1>1, <1>2, <1>3, <1>5, <2>1, <2>3 DEF Store!Put, PutOne, PutIn
  <2> QED
    BY <2>2, <2>4 DEF Store!Next
<1>6. CASE ForgetSome
  <2>1. PICK gone : /\ \A k \in gone : k \in DOMAIN whole /\ whole[k].state # "PENDING"
                    /\ whole' = Without(whole, gone)
    BY <1>6 DEF ForgetSome
  <2>2. gone \in SUBSET Store!Settled
    BY <1>3, <2>1
  <2>3. foldNotificationRecords(lines')
          = Store!Restrict(foldNotificationRecords(lines), Store!Kept \ gone)
    BY <1>1, <1>2, <1>3, <2>1 DEF Store!Restrict, Without
  <2>4. Store!Forget
    BY <1>6, <2>2, <2>3 DEF Store!Forget, ForgetSome
  <2> QED
    BY <2>4 DEF Store!Next
<1>7. CASE whole' = [k \in {} |-> {}] /\ wiped' = ~wiped
  BY <1>2, <1>7 DEF Store!Next, Store!Clear
<1> QED
  BY <1>4, <1>5, <1>6, <1>7 DEF StoreStep, StoreEffect

LEMMA StoreIInvHolds == NotifSpec => []StoreIInv
<1>1. NotifInit => StoreIInv
  BY StoreInit
<1>2. StoreIInv /\ [NotifNext]_notifVars => StoreIInv'
  BY EveryStep DEF StoreStep
<1> QED
  BY <1>1, <1>2, PTL DEF NotifSpec

\* Whatever is printed short, rotated, wiped or lost in a reset, the lines of
\* a notification log are rows or torn, and an attempt of a scan is queued
\* for a PENDING row (appendNotificationRecord, rotateNotificationLog,
\* runRecoveryScan).
THEOREM NotificationLogTypeCorrect == NotifSpec => []NotifTypeOK
<1>1. StoreIInv => NotifTypeOK
  BY DEF StoreIInv
<1> QED
  BY <1>1, StoreIInvHolds, PTL

\* What foldNotificationRecords reads back of a notification is the last row
\* of it that was appended whole: torn writes do not hide it, rotation by
\* notification does not uncover an older one.
THEOREM ReadsLastWholeHolds == NotifSpec => []ReadsLastWhole
<1>1. StoreIInv => ReadsLastWhole
  BY FoldIsWhole DEF ReadsLastWhole
<1> QED
  BY <1>1, StoreIInvHolds, PTL

\* The file of lines that the engine appends to and Notifier rotates is the
\* store of rows the engine works with: a settled row is never replaced, and
\* nothing that is pending is forgotten.
THEOREM ImplementsRowStoreHolds == NotifSpec => ImplementsRowStore
<1>1. NotifInit => Store!Init
  BY StoreInit
<1>2. StoreIInv /\ [NotifNext]_notifVars => [Store!Next]_(Store!vars)
  BY EveryStep, StoreStepIsOne
<1> QED
  BY <1>1, <1>2, StoreIInvHolds, PTL DEF NotifSpec, ImplementsRowStore, Store!Spec

-----------------------------------------------------------------------------
(* Notifier.  What is known of the engine, for its own proofs.             *)

EP == INSTANCE NotificationEngineProofs WITH Key <- NoteKey, Faults <- EngineFaults

LEMMA SameSequences ==
  ASSUME NEW S
  PROVE  Engine!SetToSeqs(S) = SetToSeqs(S) /\ EP!SetToSeqs(S) = SetToSeqs(S)
BY DEF Engine!SetToSeqs, EP!SetToSeqs, SetToSeqs,
       Engine!Cardinality, EP!Cardinality, Cardinality

LEMMA SameMessages ==
  /\ \A u, k : Engine!EventMessage(u, k) = EP!EventMessage(u, k)
  /\ Engine!AdminAlerts = EP!AdminAlerts
BY DEF Engine!EventMessage, EP!EventMessage, Engine!AdminAlerts, EP!AdminAlerts,
       Engine!AlertMessage, EP!AlertMessage

LEMMA SameScan ==
  ASSUME NEW asked, NEW q, NEW rs, NEW after
  PROVE  Engine!runRecoveryScan(asked, q, rs, after) <=> EP!runRecoveryScan(asked, q, rs, after)
BY DEF Engine!runRecoveryScan, EP!runRecoveryScan, Engine!CanScan, EP!CanScan,
       Engine!BeginScan, EP!BeginScan, Engine!NoScan, EP!NoScan, Engine!ScanMessages,
       EP!ScanMessages, Engine!ScanMessage, EP!ScanMessage, Engine!PendingIn,
       EP!PendingIn, Engine!shouldAggregate, EP!shouldAggregate, Engine!SetToSeqs,
       EP!SetToSeqs, Engine!Cardinality, EP!Cardinality, Engine!About, EP!About,
       Engine!scan, EP!scan, Engine!Legible, EP!Legible, Engine!Waiting, EP!Waiting,
       Engine!Notification, EP!Notification

LEMMA SameInit == Engine!Init <=> EP!Init
BY DEF Engine!Init, EP!Init, Engine!NoRow, EP!NoRow

LEMMA SameEventLogged == Engine!EventLogged <=> EP!EventLogged
BY DEF Engine!EventLogged, EP!EventLogged, Engine!notifyEvent, EP!notifyEvent,
         Engine!EventMessage, EP!EventMessage, Engine!AdminAlerts, EP!AdminAlerts,
         Engine!AlertMessage, EP!AlertMessage, Engine!SetToSeqs, EP!SetToSeqs,
         Engine!Cardinality, EP!Cardinality, Engine!log, EP!log, Engine!timer, EP!timer,
         Engine!scan, EP!scan

LEMMA SameNetworkRestored == Engine!NetworkRestored <=> EP!NetworkRestored
BY DEF Engine!NetworkRestored, EP!NetworkRestored, Engine!notifyEvent, EP!notifyEvent,
       Engine!EventMessage, EP!EventMessage, Engine!AdminAlerts, EP!AdminAlerts,
       Engine!AlertMessage, EP!AlertMessage, Engine!SetToSeqs, EP!SetToSeqs,
       Engine!Cardinality, EP!Cardinality, Engine!runRecoveryScan, EP!runRecoveryScan,
       Engine!CanScan, EP!CanScan, Engine!BeginScan, EP!BeginScan, Engine!NoScan,
       EP!NoScan, Engine!ScanMessages, EP!ScanMessages, Engine!ScanMessage,
       EP!ScanMessage, Engine!PendingIn, EP!PendingIn, Engine!shouldAggregate,
       EP!shouldAggregate, Engine!About, EP!About, Engine!scan, EP!scan, Engine!log,
       EP!log, Engine!timer, EP!timer, Engine!Legible, EP!Legible, Engine!Waiting,
       EP!Waiting, Engine!Notification, EP!Notification

LEMMA SameAdminAlert == Engine!AdminAlert <=> EP!AdminAlert
BY DEF Engine!AdminAlert, EP!AdminAlert, Engine!EventMessage, EP!EventMessage,
         Engine!AdminAlerts, EP!AdminAlerts, Engine!AlertMessage, EP!AlertMessage,
         Engine!SetToSeqs, EP!SetToSeqs, Engine!Cardinality, EP!Cardinality, Engine!log,
         EP!log, Engine!timer, EP!timer, Engine!scan, EP!scan

LEMMA SameBootTasks == Engine!BootTasks <=> EP!BootTasks
BY DEF Engine!BootTasks, EP!BootTasks, Engine!EventMessage, EP!EventMessage,
       Engine!AdminAlerts, EP!AdminAlerts, Engine!AlertMessage, EP!AlertMessage,
       Engine!SetToSeqs, EP!SetToSeqs, Engine!Cardinality, EP!Cardinality,
       Engine!runRecoveryScan, EP!runRecoveryScan, Engine!CanScan, EP!CanScan,
       Engine!BeginScan, EP!BeginScan, Engine!NoScan, EP!NoScan, Engine!ScanMessages,
       EP!ScanMessages, Engine!ScanMessage, EP!ScanMessage, Engine!PendingIn,
       EP!PendingIn, Engine!shouldAggregate, EP!shouldAggregate, Engine!About, EP!About,
       Engine!scan, EP!scan, Engine!performMaintenanceIfDue, EP!performMaintenanceIfDue,
       Engine!Settled, EP!Settled, Engine!Terminal, EP!Terminal, Engine!NoRow, EP!NoRow,
       Engine!log, EP!log, Engine!timer, EP!timer, Engine!Legible, EP!Legible,
       Engine!Waiting, EP!Waiting, Engine!Notification, EP!Notification

LEMMA SameMaintenance == Engine!Maintenance <=> EP!Maintenance
BY DEF Engine!Maintenance, EP!Maintenance, Engine!EventMessage, EP!EventMessage,
         Engine!AdminAlerts, EP!AdminAlerts, Engine!AlertMessage, EP!AlertMessage,
         Engine!SetToSeqs, EP!SetToSeqs, Engine!Cardinality, EP!Cardinality,
         Engine!performMaintenanceIfDue, EP!performMaintenanceIfDue, Engine!Settled,
         EP!Settled, Engine!Terminal, EP!Terminal, Engine!NoRow, EP!NoRow, Engine!log,
         EP!log, Engine!timer, EP!timer, Engine!scan, EP!scan

LEMMA SameWhitelistChange == Engine!WhitelistChange <=> EP!WhitelistChange
BY DEF Engine!WhitelistChange, EP!WhitelistChange, Engine!log, EP!log, Engine!timer,
         EP!timer, Engine!scan, EP!scan

LEMMA SameTimerElapses == Engine!TimerElapses <=> EP!TimerElapses
BY DEF Engine!TimerElapses, EP!TimerElapses, Engine!log, EP!log, Engine!timer,
         EP!timer, Engine!scan, EP!scan

LEMMA SameCrash == Engine!Crash <=> EP!Crash
BY DEF Engine!Crash, EP!Crash, Engine!InHand, EP!InHand, Engine!FlowIn, EP!FlowIn,
         Engine!About, EP!About, Engine!Range, EP!Range, Engine!log, EP!log,
         Engine!timer, EP!timer, Engine!scan, EP!scan

LEMMA SameQuietTick == Engine!QuietTick <=> EP!QuietTick
BY DEF Engine!QuietTick, EP!QuietTick, Engine!isDue, EP!isDue, Engine!runRecoveryScan,
       EP!runRecoveryScan, Engine!CanScan, EP!CanScan, Engine!BeginScan, EP!BeginScan,
       Engine!NoScan, EP!NoScan, Engine!ScanMessages, EP!ScanMessages,
       Engine!ScanMessage, EP!ScanMessage, Engine!PendingIn, EP!PendingIn,
       Engine!shouldAggregate, EP!shouldAggregate, Engine!SetToSeqs, EP!SetToSeqs,
       Engine!Cardinality, EP!Cardinality, Engine!About, EP!About, Engine!scan, EP!scan,
       Engine!log, EP!log, Engine!timer, EP!timer, Engine!Legible, EP!Legible,
       Engine!Waiting, EP!Waiting, Engine!Notification, EP!Notification

LEMMA SameResetNotif == \A u : Engine!handleResetNotif(u) <=> EP!handleResetNotif(u)
BY DEF Engine!handleResetNotif, EP!handleResetNotif, Engine!PendingIn, EP!PendingIn,
         Engine!NoRow, EP!NoRow, Engine!log, EP!log, Engine!timer, EP!timer, Engine!scan,
         EP!scan

LEMMA SameSendAlert == \A m : Engine!SendAlert(m) <=> EP!SendAlert(m)
BY DEF Engine!SendAlert, EP!SendAlert, Engine!FinishTick, EP!FinishTick,
       Engine!ScanMessageDone, EP!ScanMessageDone, Engine!isDue, EP!isDue,
       Engine!runRecoveryScan, EP!runRecoveryScan, Engine!CanScan, EP!CanScan,
       Engine!BeginScan, EP!BeginScan, Engine!NoScan, EP!NoScan, Engine!ScanMessages,
       EP!ScanMessages, Engine!ScanMessage, EP!ScanMessage, Engine!PendingIn,
       EP!PendingIn, Engine!shouldAggregate, EP!shouldAggregate, Engine!SetToSeqs,
       EP!SetToSeqs, Engine!Cardinality, EP!Cardinality, Engine!About, EP!About,
       Engine!scan, EP!scan, Engine!log, EP!log, Engine!timer, EP!timer, Engine!Legible,
       EP!Legible, Engine!Waiting, EP!Waiting, Engine!Notification, EP!Notification

LEMMA SameSendSuccess == \A m : Engine!SendSuccess(m) <=> EP!SendSuccess(m)
BY DEF Engine!SendSuccess, EP!SendSuccess, Engine!FinishTick, EP!FinishTick,
       Engine!ScanMessageDone, EP!ScanMessageDone, Engine!isDue, EP!isDue,
       Engine!Settle, EP!Settle, Engine!writeNotificationState,
       EP!writeNotificationState, Engine!WriteOutcomes, EP!WriteOutcomes,
       Engine!runRecoveryScan, EP!runRecoveryScan, Engine!CanScan, EP!CanScan,
       Engine!BeginScan, EP!BeginScan, Engine!NoScan, EP!NoScan, Engine!ScanMessages,
       EP!ScanMessages, Engine!ScanMessage, EP!ScanMessage, Engine!PendingIn,
       EP!PendingIn, Engine!shouldAggregate, EP!shouldAggregate, Engine!SetToSeqs,
       EP!SetToSeqs, Engine!Cardinality, EP!Cardinality, Engine!About, EP!About,
       Engine!scan, EP!scan, Engine!log, EP!log, Engine!timer, EP!timer, Engine!Legible,
       EP!Legible, Engine!Waiting, EP!Waiting, Engine!Notification, EP!Notification

LEMMA SameSendPermanent == \A m : Engine!SendPermanent(m) <=> EP!SendPermanent(m)
BY DEF Engine!SendPermanent, EP!SendPermanent, Engine!FinishTick, EP!FinishTick,
       Engine!ScanMessageDone, EP!ScanMessageDone, Engine!isDue, EP!isDue,
       Engine!Settle, EP!Settle, Engine!writeNotificationState,
       EP!writeNotificationState, Engine!WriteOutcomes, EP!WriteOutcomes,
       Engine!EventMessage, EP!EventMessage, Engine!AdminAlerts, EP!AdminAlerts,
       Engine!AlertMessage, EP!AlertMessage, Engine!SetToSeqs, EP!SetToSeqs,
       Engine!Cardinality, EP!Cardinality, Engine!runRecoveryScan, EP!runRecoveryScan,
       Engine!CanScan, EP!CanScan, Engine!BeginScan, EP!BeginScan, Engine!NoScan,
       EP!NoScan, Engine!ScanMessages, EP!ScanMessages, Engine!ScanMessage,
       EP!ScanMessage, Engine!PendingIn, EP!PendingIn, Engine!shouldAggregate,
       EP!shouldAggregate, Engine!About, EP!About, Engine!scan, EP!scan, Engine!log,
       EP!log, Engine!timer, EP!timer, Engine!Legible, EP!Legible, Engine!Waiting,
       EP!Waiting, Engine!Notification, EP!Notification

LEMMA SameSendExhausted == \A m : Engine!SendExhausted(m) <=> EP!SendExhausted(m)
BY DEF Engine!SendExhausted, EP!SendExhausted, Engine!FinishTick, EP!FinishTick,
       Engine!ScanMessageDone, EP!ScanMessageDone, Engine!isDue, EP!isDue,
       Engine!Settle, EP!Settle, Engine!writeNotificationState,
       EP!writeNotificationState, Engine!WriteOutcomes, EP!WriteOutcomes,
       Engine!SystemErrorSeen, EP!SystemErrorSeen, Engine!exceedsMaxRetries,
       EP!exceedsMaxRetries, Engine!runRecoveryScan, EP!runRecoveryScan, Engine!CanScan,
       EP!CanScan, Engine!BeginScan, EP!BeginScan, Engine!NoScan, EP!NoScan,
       Engine!ScanMessages, EP!ScanMessages, Engine!ScanMessage, EP!ScanMessage,
       Engine!PendingIn, EP!PendingIn, Engine!shouldAggregate, EP!shouldAggregate,
       Engine!SetToSeqs, EP!SetToSeqs, Engine!Cardinality, EP!Cardinality, Engine!About,
       EP!About, Engine!scan, EP!scan, Engine!log, EP!log, Engine!timer, EP!timer,
       Engine!Legible, EP!Legible, Engine!Waiting, EP!Waiting, Engine!Notification,
       EP!Notification

LEMMA SameSendRetry == \A m : Engine!SendRetry(m) <=> EP!SendRetry(m)
BY DEF Engine!SendRetry, EP!SendRetry, Engine!ScanMessageDone, EP!ScanMessageDone,
         Engine!writeNotificationState, EP!writeNotificationState, Engine!WriteOutcomes,
         EP!WriteOutcomes, Engine!SystemErrorSeen, EP!SystemErrorSeen,
         Engine!exceedsMaxRetries, EP!exceedsMaxRetries, Engine!About, EP!About,
         Engine!log, EP!log, Engine!timer, EP!timer, Engine!scan, EP!scan

LEMMA SameTick == Engine!tickNotificationEngine <=> EP!tickNotificationEngine
<1>1. Engine!SendHead <=> EP!SendHead
  BY SameSendAlert, SameSendSuccess, SameSendPermanent, SameSendExhausted, SameSendRetry
     DEF Engine!SendHead, EP!SendHead
<1> QED
  BY <1>1, SameQuietTick DEF Engine!tickNotificationEngine, EP!tickNotificationEngine

LEMMA SameNext == Engine!Next <=> EP!Next
BY SameEventLogged, SameNetworkRestored, SameAdminAlert, SameBootTasks, SameMaintenance,
   SameWhitelistChange, SameTimerElapses, SameCrash, SameResetNotif, SameTick
   DEF Engine!Next, EP!Next

LEMMA SamePromises ==
  /\ Engine!OneAttemptQueued <=> EP!OneAttemptQueued
  /\ Engine!NoResend <=> EP!NoResend
  /\ Engine!NothingForgotten <=> EP!NothingForgotten
  /\ Engine!TrackedIn(queue) = EP!TrackedIn(queue)
BY DEF Engine!OneAttemptQueued, EP!OneAttemptQueued, Engine!Distinct, EP!Distinct,
       Engine!NoResend, EP!NoResend, Engine!NothingForgotten, EP!NothingForgotten,
       Engine!Notification, EP!Notification, Engine!FateOf, EP!FateOf,
       Engine!IsPending, EP!IsPending, Engine!RowOf, EP!RowOf,
       Engine!TrackedIn, EP!TrackedIn, Engine!About, EP!About, Engine!Range, EP!Range

\* The constants are as the engine assumes them.
EngineFits ==
  /\ EP!IsFiniteSet(User) /\ EP!IsFiniteSet(NoteKey)
  /\ Admin \subseteq User
  /\ NoKey \notin NoteKey
  /\ MaxRetries \in Nat
  /\ AggregateThreshold \in Nat
  /\ MaxQueue \in Nat
  /\ EngineFaults \subseteq EP!FaultKinds

LEMMA EngineIsFit == EngineFits
<1>1. IsFiniteSet(Id)
  BY LogAssumption, FS_Interval DEF Id
<1>2. IsFiniteSet({"START"}) /\ IsFiniteSet({"END"}) /\ IsFiniteSet({"INSTANT"})
  BY FS_Singleton
<1>3. IsFiniteSet({"START"} \cup {"END"} \cup {"INSTANT"})
  BY <1>2, FS_Union
<1>4. {"START", "END", "INSTANT"} = {"START"} \cup {"END"} \cup {"INSTANT"}
  OBVIOUS
<1>5. IsFiniteSet(NoteKey)
  BY <1>1, <1>3, <1>4, FS_Product DEF NoteKey
<1>6. \A S : EP!IsFiniteSet(S) <=> IsFiniteSet(S)
  BY DEF EP!IsFiniteSet, IsFiniteSet
<1>7. Engine!FaultKinds = EP!FaultKinds
  BY DEF Engine!FaultKinds, EP!FaultKinds
<1> QED
  BY <1>5, <1>6, <1>7, NotifierAssumption DEF EngineFits

\* What NotificationEngineProofs has proved, of this engine.
LEMMA EngineKeeps ==
  /\ EP!Init => EP!IInv /\ EP!AllKeptInMind
  /\ EP!IInv /\ [EP!Next]_(EP!vars) => EP!IInv'
  /\ EP!IInv /\ EP!AllKeptInMind /\ [EP!Next]_(EP!vars) => EP!AllKeptInMind'
  /\ EP!IInv => EP!TypeOK /\ EP!OneAttemptQueued /\ EP!NoResend
<1>1. EP!Init => EP!IInv
  BY EngineIsFit, EP!IInvInit DEF EngineFits
<1>2. EP!Init => EP!AllKeptInMind
  BY EngineIsFit, EP!InMindInit DEF EngineFits
<1>3. EP!IInv /\ [EP!Next]_(EP!vars) => EP!IInv'
  BY EngineIsFit, EP!IInvNext DEF EngineFits
<1>4. EP!IInv /\ EP!AllKeptInMind /\ [EP!Next]_(EP!vars) => EP!AllKeptInMind'
  BY EngineIsFit, EP!InMindNext DEF EngineFits
<1>5. EP!IInv => EP!NoResend
  BY EngineIsFit, EP!NoResendFollows DEF EngineFits
<1>6. EP!IInv => EP!TypeOK /\ EP!OneAttemptQueued
  BY DEF EP!IInv, EP!OneAttemptQueued
<1> QED
  BY <1>1, <1>2, <1>3, <1>4, <1>5, <1>6

-----------------------------------------------------------------------------
(* Notifier.  What the engine makes of the calls.                          *)

\* What is queued or to be retried has been notified.
Notified ==
  /\ EP!TypeOK
  /\ EP!Within(queue, notified) /\ EP!PendingWithin(rows, notified)

LEMMA WithinMore ==
  ASSUME NEW K, NEW L, K \subseteq L, NEW q, EP!Within(q, K)
  PROVE  EP!Within(q, L)
BY DEF EP!Within

LEMMA PendingWithinMore ==
  ASSUME NEW K, NEW L, K \subseteq L, NEW rs, EP!PendingWithin(rs, K)
  PROVE  EP!PendingWithin(rs, L)
BY DEF EP!PendingWithin

LEMMA CallNotifies ==
  ASSUME EP!TypeOK, NEW K, NEW k \in NoteKey, k \in K, NEW asked, notifyUsers(k, asked),
         UNCHANGED <<whitelist, booted, active, due, rows, unrecorded, degraded, systemError>>,
         EP!Within(queue, K), EP!PendingWithin(rows, K)
  PROVE  EP!TypeOK' /\ EP!Within(queue', K)
<1>1. PICK R \in SUBSET whitelist :
        \E s \in SetToSeqs({Engine!EventMessage(u, k) : u \in R}) :
          /\ fate' = [u \in User |-> [j \in NoteKey |->
                        IF u \in R /\ j = k THEN "owed" ELSE fate[u][j]]]
          /\ Engine!runRecoveryScan(asked, queue \o s, rows, << >>)
  BY DEF notifyUsers
<1>2. PICK s \in SetToSeqs({Engine!EventMessage(u, k) : u \in R}) :
        /\ fate' = [u \in User |-> [j \in NoteKey |->
                      IF u \in R /\ j = k THEN "owed" ELSE fate[u][j]]]
        /\ Engine!runRecoveryScan(asked, queue \o s, rows, << >>)
  BY <1>1
<1>3. {Engine!EventMessage(u, k) : u \in R} = {EP!EventMessage(u, k) : u \in R}
  BY SameMessages
<1>4. s \in EP!SetToSeqs({EP!EventMessage(u, k) : u \in R})
  BY <1>2, <1>3, SameSequences
<1>5. EP!runRecoveryScan(asked, queue \o s, rows, << >>)
  BY <1>2, SameScan
<1> QED
  BY <1>2, <1>4, <1>5, EngineIsFit, EP!CalledWithin DEF EngineFits

LEMMA AlertNotifies ==
  ASSUME EP!TypeOK, NEW K, NEW alert, NEW asked, alertOnFirstFsError(alert, asked),
         UNCHANGED <<whitelist, booted, active, due, rows, unrecorded, degraded, systemError>>,
         EP!Within(queue, K), EP!PendingWithin(rows, K)
  PROVE  EP!TypeOK' /\ EP!Within(queue', K)
<1> DEFINE told == alert /\ Len(queue) < MaxQueue
<1>1. PICK a \in SetToSeqs(IF told THEN Engine!AdminAlerts ELSE {}) :
        Engine!runRecoveryScan(asked, queue \o a, rows, << >>)
  BY DEF alertOnFirstFsError
<1>2. fate' = fate
  BY DEF alertOnFirstFsError
<1>3. a \in EP!SetToSeqs(IF told THEN EP!AdminAlerts ELSE {})
  BY <1>1, SameMessages, SameSequences
<1>4. EP!runRecoveryScan(asked, queue \o a, rows, << >>)
  BY <1>1, SameScan
<1> HIDE DEF told
<1> QED
  BY <1>2, <1>3, <1>4, EngineIsFit, EP!AlertedWithin DEF EngineFits

LEMMA HeardNotifies ==
  ASSUME Notified, NEW alert, NEW asked, Heard(alert, asked),
         notified \subseteq notified', notified' \subseteq NoteKey, repeated' \subseteq notified'
  PROVE  Notified'
<1>1. UNCHANGED <<whitelist, booted, active, due, rows, unrecorded, degraded, systemError>>
  BY DEF Heard
<1>2. EP!Within(queue, notified') /\ EP!PendingWithin(rows, notified') /\ EP!TypeOK
  BY WithinMore, PendingWithinMore DEF Notified
<1>3. EP!PendingWithin(rows', notified')
  BY <1>1, <1>2
<1>4. \/ \E k \in notified' : notifyUsers(k, asked)
      \/ alertOnFirstFsError(alert, asked)
  BY DEF Heard
<1>5. EP!TypeOK' /\ EP!Within(queue', notified')
  BY <1>1, <1>2, <1>4, CallNotifies, AlertNotifies
<1> QED
  BY <1>3, <1>5 DEF Notified

LEMMA AloneNotifies ==
  ASSUME Notified, EP!ByItself, notified' = notified
  PROVE  Notified'
<1>1. EP!TypeOK' /\ EP!Within(queue', notified) /\ EP!PendingWithin(rows', notified)
  BY EngineIsFit, EP!ByItselfWithin DEF EngineFits, Notified
<1> QED
  BY <1>1 DEF Notified

\* The engine's variables do not change.
LEMMA QuietNotifies ==
  ASSUME Notified, UNCHANGED engine, notified \subseteq notified'
  PROVE  Notified'
<1>1. EP!TypeOK'
  BY DEF Notified, engine, EP!TypeOK
<1>2. EP!Within(queue', notified') /\ EP!PendingWithin(rows', notified')
  BY WithinMore, PendingWithinMore DEF Notified, engine
<1> QED
  BY <1>1, <1>2 DEF Notified

-----------------------------------------------------------------------------
(* Notifier.  As long as no append is misreported.                         *)

\* Nobody was to be told of what was not notified.
FatesKnown == \A u \in User, k \in NoteKey : fate[u][k] # "unsent" => k \in notified

LEMMA SequenceOfNothing ==
  ASSUME NEW s \in SetToSeqs({})
  PROVE  s = << >>
<1>1. Cardinality({}) = 0
  BY FS_EmptySet
<1>2. s \in [1..0 -> {}]
  BY <1>1 DEF SetToSeqs
<1>3. s \in Seq({}) /\ Len(s) = 0
  BY <1>2
<1> QED
  BY <1>3, EmptySeq

\* A call for a key that is new, with a scan or without.
LEMMA CallAsAssumed ==
  ASSUME EP!TypeOK, FatesKnown, NEW k \in NoteKey, k \notin notified, NEW asked \in BOOLEAN,
         notifyUsers(k, asked),
         UNCHANGED <<whitelist, booted, active, due, rows, unrecorded, degraded, systemError>>,
         k \in notified', notified \subseteq notified'
  PROVE  [EP!Next]_(EP!vars) /\ FatesKnown'
<1>1. PICK R \in SUBSET whitelist :
        \E s \in SetToSeqs({Engine!EventMessage(u, k) : u \in R}) :
          /\ fate' = [u \in User |-> [j \in NoteKey |->
                        IF u \in R /\ j = k THEN "owed" ELSE fate[u][j]]]
          /\ Engine!runRecoveryScan(asked, queue \o s, rows, << >>)
  BY DEF notifyUsers
<1>2. PICK s \in SetToSeqs({Engine!EventMessage(u, k) : u \in R}) :
        /\ fate' = [u \in User |-> [j \in NoteKey |->
                      IF u \in R /\ j = k THEN "owed" ELSE fate[u][j]]]
        /\ Engine!runRecoveryScan(asked, queue \o s, rows, << >>)
  BY <1>1
<1>3. {Engine!EventMessage(u, k) : u \in R} = {EP!EventMessage(u, k) : u \in R}
  BY SameMessages
<1>4. s \in EP!SetToSeqs({EP!EventMessage(u, k) : u \in R})
  BY <1>2, <1>3, SameSequences
<1>5. EP!runRecoveryScan(asked, queue \o s, rows, << >>)
  BY <1>2, SameScan
<1>6. \A u \in User : fate[u][k] = "unsent"
  BY DEF FatesKnown
<1>7. FatesKnown'
  BY <1>2 DEF FatesKnown
<1>8. queue \in Seq(EP!Message)
  BY DEF EP!TypeOK
<1>9. CASE R # {}
  <2>1. EP!notifyEvent(k, R, s)
    BY <1>2, <1>4, <1>6, <1>9 DEF EP!notifyEvent
  <2>2. CASE asked
    <3>1. EP!NetworkRestored
      BY <1>4, <1>5, <2>1, <2>2, Zenon DEF EP!NetworkRestored, EP!log
    <3> QED
      BY <1>7, <3>1 DEF EP!Next
  <2>3. CASE ~asked
    <3>1. /\ queue' = (queue \o s) \o << >>
          /\ UNCHANGED <<scanInProgress, inFlight, hadPending, slipped>>
      BY <1>5, <2>3 DEF EP!runRecoveryScan, EP!NoScan, EP!scan
    <3>2. s \in Seq(EP!Message)
      BY <1>4, EngineIsFit, EP!EventSeqFits DEF EngineFits, EP!TypeOK
    <3>3. queue' = queue \o s
      BY <1>8, <3>1, <3>2
    <3>4. EP!EventLogged
      BY <1>4, <2>1, <3>1, <3>3 DEF EP!EventLogged, EP!log, EP!timer, EP!scan
    <3> QED
      BY <1>7, <3>4 DEF EP!Next
  <2> QED
    BY <2>2, <2>3
<1>10. CASE R = {}
  <2>1. fate' = fate
    BY <1>2, <1>10 DEF EP!TypeOK
  <2>2. s \in EP!SetToSeqs(IF FALSE THEN EP!AdminAlerts ELSE {})
    BY <1>4, <1>10
  <2>3. CASE asked
    <3>1. EP!NetworkRestored
      BY <1>5, <2>1, <2>2, <2>3, Zenon DEF EP!NetworkRestored, EP!log
    <3> QED
      BY <1>7, <3>1 DEF EP!Next
  <2>4. CASE ~asked
    <3>1. /\ queue' = (queue \o s) \o << >>
          /\ UNCHANGED <<scanInProgress, inFlight, hadPending, slipped>>
      BY <1>5, <2>4 DEF EP!runRecoveryScan, EP!NoScan, EP!scan
    <3>2. s = << >>
      BY <2>2, SameSequences, SequenceOfNothing
    <3>3. queue' = queue
      BY <1>8, <3>1, <3>2
    <3>4. UNCHANGED EP!vars
      BY <2>1, <3>1, <3>3 DEF EP!vars, EP!log, EP!timer, EP!scan
    <3> QED
      BY <1>7, <3>4
  <2> QED
    BY <2>3, <2>4
<1> QED
  BY <1>9, <1>10

-----------------------------------------------------------------------------
(* Notifier.  What the steps of the event log do to the keys.              *)

\* A notified key is that of a row in the log, of one rightly gone, or of one
\* whose writer was misled.
Accounted ==
  /\ notified \subseteq Keys(lines) \cup removed \cup misreported
  /\ repeated \subseteq notified

\* What a step of the event log may do to them.
Accounts ==
  /\ Accounted'
  /\ notified \subseteq notified' /\ misreported \subseteq misreported'

LEMMA KeysOfAppended ==
  ASSUME NEW ls \in Seq(Line), NEW rec \in EventRecord, NEW new,
         new \in {ls, Append(ls, Torn), Append(ls, rec)}
  PROVE  Keys(ls) \subseteq Keys(new)
<1>1. CASE new = ls
  BY <1>1
<1>2. CASE new = Append(ls, Torn)
  <2>1. SameRows(new, ls)
    BY <1>2, AppendedTorn
  <2>2. Readable(new) = Readable(ls)
    BY <2>1 DEF SameRows, Readable
  <2> QED
    BY <2>2 DEF Keys
<1>3. CASE new = Append(ls, rec)
  <2>1. Appended(new, ls, rec)
    BY <1>3, AppendedRow
  <2>2. Readable(ls) \subseteq Readable(new)
    BY <2>1 DEF Appended, Readable
  <2> QED
    BY <2>2 DEF Keys
<1> QED
  BY <1>1, <1>2, <1>3

LEMMA LogRowAccounts ==
  ASSUME TypeOK, Accounted, NEW rec \in EventRecord, NEW byHand, LogRow(rec, byHand),
         removed' = removed
  PROVE  Accounts
<1>1. PICK o \in Appends(rec) :
        /\ lines' = o.file.lines
        /\ \/ UNCHANGED <<notified, repeated>>
           \/ o.ok /\ callNotifyEvent(rec)
        /\ misreported' = IF o.ok = (rec \in Readable(o.file.lines)) THEN misreported
                          ELSE misreported \cup {KeyOf(rec)}
  BY DEF LogRow
<1>2. o.file.lines \in {lines, Append(lines, Torn), Append(lines, rec)}
  BY AppendsOutcome DEF TypeOK
<1>3. Keys(lines) \subseteq Keys(lines')
  BY <1>1, <1>2, KeysOfAppended DEF TypeOK
<1>4. misreported \subseteq misreported'
  BY <1>1
<1>5. CASE UNCHANGED <<notified, repeated>>
  BY <1>3, <1>4, <1>5 DEF Accounts, Accounted
<1>6. CASE o.ok /\ callNotifyEvent(rec)
  <2>1. notified' = notified \cup {KeyOf(rec)} /\ repeated' \subseteq repeated \cup notified
    BY <1>6 DEF callNotifyEvent
  <2>2. KeyOf(rec) \in Keys(lines') \cup misreported'
    <3>1. CASE rec \in Readable(lines')
      BY <3>1 DEF Keys
    <3>2. CASE rec \notin Readable(lines')
      BY <1>1, <1>6, <3>2
    <3> QED
      BY <3>1, <3>2
  <2> QED
    BY <1>3, <1>4, <2>1, <2>2 DEF Accounts, Accounted
<1> QED
  BY <1>1, <1>5, <1>6

LEMMA LoggedAccounts ==
  ASSUME IInv, Accounted, removed' = removed,
         \/ \E type \in Duration : LogStart(type) \/ LogEnd(type) \/ LogIgnored(type)
         \/ \E type \in Instant \ {Reboot} : LogInstant(type)
         \/ Boot
         \/ \E id \in Id : closeOpenEvent(id)
  PROVE  Accounts
<1>1. TypeOK /\ lines \in Seq(Line)
  BY DEF IInv, TypeOK
<1>2. ASSUME NEW id \in Id, NEW type \in Type, NEW status \in {"START", "END", "INSTANT"},
             NEW ts \in Time, NEW byHand, LogRow(Row(id, type, status, ts), byHand)
      PROVE  Accounts
  <2>1. Row(id, type, status, ts) \in EventRecord
    BY <1>1, ClampedRow
  <2> QED
    BY <1>1, <1>2, <2>1, LogRowAccounts
<1>3. \A ev \in OpenEvents(lines) : ev \in EventRecord
  <2>1. \A ev \in OpenEvents(lines) : \E i \in Parsed(lines) : ev = lines[i]
    BY DEF OpenEvents
  <2> QED
    BY <1>1, <2>1, ParsedRow
<1>4. ASSUME NEW type \in Duration, LogStart(type)
      PROVE  Accounts
  BY <1>2, <1>4 DEF LogStart, RoomToLog, Type
<1>5. ASSUME NEW type \in Duration, LogEnd(type)
      PROVE  Accounts
  <2>1. PICK ev \in OpenOfType(lines, type), ts \in Time :
          LogRow(Row(ev.id, type, "END", ts), FALSE)
    BY <1>5 DEF LogEnd
  <2>2. ev.id \in Id
    BY <1>3, RecordFields DEF OpenOfType
  <2> QED
    BY <1>2, <2>1, <2>2 DEF Type
<1>6. ASSUME NEW type \in Duration, LogIgnored(type)
      PROVE  Accounts
  BY <1>6 DEF LogIgnored, file, Accounts, Accounted
<1>7. ASSUME NEW type \in Instant \ {Reboot}, LogInstant(type)
      PROVE  Accounts
  BY <1>2, <1>7 DEF LogInstant, RoomToLog, Type
<1>8. CASE Boot
  <2>1. PICK ts \in Time : LogRow(Row(nextId, Reboot, "INSTANT", ts), FALSE)
    BY <1>8 DEF Boot
  <2>2. nextId \in Id /\ Reboot \in Type
    BY <1>8, LogAssumption DEF IInv, BootsWithId, Boot, Type
  <2> QED
    BY <1>2, <2>1, <2>2
<1>9. ASSUME NEW id \in Id, closeOpenEvent(id)
      PROVE  Accounts
  <2>1. PICK ev \in {e \in OpenEvents(lines) : e.id = id}, ts \in Time :
          LogRow(Row(id, ev.type, "END", ts), TRUE)
    BY <1>9 DEF closeOpenEvent
  <2>2. ev.type \in Type
    BY <1>3, <2>1, RecordFields
  <2> QED
    BY <1>2, <2>1, <2>2
<1> QED
  BY <1>4, <1>5, <1>6, <1>7, <1>8, <1>9

\* A rotation drops rows of events that are over.
LEMMA RotatedAccounts ==
  ASSUME IInv, Accounted, Rotated
  PROVE  Accounts
<1>1. TypeOK /\ Coherent(lines) /\ lines \in Seq(Line)
  BY DEF IInv, TypeOK
<1>2. UNCHANGED <<notified, repeated, misreported>>
      /\ removed' = removed \cup (Concluded(lines) \ Keys(lines'))
  BY DEF Rotated, RotationDue, RotationCycle, RotationFails, history
<1>3. lines' = lines \/ lines' = Copied(rotation)
  BY DEF Rotated, RotationDue, RotationCycle, RotationFails, file
<1>4. Keys(lines) \subseteq Keys(lines') \cup Concluded(lines)
  <2>1. CASE lines' = lines
    BY <2>1
  <2>2. CASE lines' = Copied(rotation)
    <3>1. PICK f : /\ LeftOf(lines', lines, f)
                   /\ \A j \in OpenLines(lines) : \E h \in Parsed(lines') : f[h] = j
      BY <1>1, <2>2, CopiedIsLeft
    <3> SUFFICES ASSUME NEW j \in Parsed(lines), KeyOf(lines[j]) \notin Concluded(lines)
                 PROVE  KeyOf(lines[j]) \in Keys(lines')
      BY DEF Keys, Readable
    <3>2. \A h \in Parsed(lines) : lines[h].id = lines[j].id => lines[h].status = "START"
      BY DEF Concluded, Readable
    <3>3. j \in OpenLines(lines)
      BY <3>2 DEF OpenLines
    <3>4. PICK h \in Parsed(lines') : f[h] = j
      BY <3>1, <3>3
    <3>5. lines'[h] = lines[j]
      BY <3>1, <3>4 DEF LeftOf
    <3> QED
      BY <3>5 DEF Keys, Readable
  <2> QED
    BY <1>3, <2>1, <2>2
<1> QED
  BY <1>2, <1>4 DEF Accounts, Accounted

LEMMA WipedAccounts ==
  ASSUME Accounted, Wiped
  PROVE  Accounts
BY DEF Wiped, handleResetLog, Accounts, Accounted

LEMMA AlertAsAssumed ==
  ASSUME EP!TypeOK, FatesKnown, NEW alert \in BOOLEAN, NEW asked \in BOOLEAN,
         alertOnFirstFsError(alert, asked),
         UNCHANGED <<whitelist, booted, active, due, rows, unrecorded, degraded, systemError>>,
         notified \subseteq notified'
  PROVE  [EP!Next]_(EP!vars) /\ FatesKnown'
<1> DEFINE told == alert /\ Len(queue) < MaxQueue
<1>1. PICK a \in SetToSeqs(IF told THEN Engine!AdminAlerts ELSE {}) :
        Engine!runRecoveryScan(asked, queue \o a, rows, << >>)
  BY DEF alertOnFirstFsError
<1>2. fate' = fate /\ FatesKnown'
  BY DEF alertOnFirstFsError, FatesKnown
<1>3. a \in EP!SetToSeqs(IF told THEN EP!AdminAlerts ELSE {})
  BY <1>1, SameMessages, SameSequences
<1>4. EP!runRecoveryScan(asked, queue \o a, rows, << >>)
  BY <1>1, SameScan
<1>5. told \in BOOLEAN /\ (told => Len(queue) < MaxQueue)
  OBVIOUS
<1> HIDE DEF told
<1>6. CASE asked
  <2>1. EP!NetworkRestored
    BY <1>2, <1>3, <1>4, <1>5, <1>6, Zenon DEF EP!NetworkRestored, EP!log
  <2> QED
    BY <1>2, <2>1 DEF EP!Next
<1>7. CASE ~asked
  <2>1. /\ queue' = (queue \o a) \o << >>
        /\ UNCHANGED <<scanInProgress, inFlight, hadPending, slipped>>
    BY <1>4, <1>7 DEF EP!runRecoveryScan, EP!NoScan, EP!scan
  <2>2. a \in EP!SetToSeqs(EP!AdminAlerts) \/ a \in EP!SetToSeqs({})
    BY <1>3
  <2>3. a \in Seq(EP!Message) /\ queue \in Seq(EP!Message)
    BY <2>2, EngineIsFit, EP!AlertSeqUntracked DEF EngineFits, EP!TypeOK
  <2>4. queue' = queue \o a
    BY <2>1, <2>3
  <2>5. CASE told
    <3>1. EP!AdminAlert
      BY <1>2, <1>3, <1>5, <2>1, <2>4, <2>5 DEF EP!AdminAlert, EP!log, EP!timer, EP!scan
    <3> QED
      BY <1>2, <3>1 DEF EP!Next
  <2>6. CASE ~told
    <3>1. a = << >>
      BY <1>3, <2>6, SameSequences, SequenceOfNothing
    <3>2. queue' = queue
      BY <2>3, <2>4, <3>1
    <3> QED
      BY <1>2, <2>1, <3>2 DEF EP!vars, EP!log, EP!timer, EP!scan
  <2> QED
    BY <2>5, <2>6
<1> QED
  BY <1>6, <1>7

LEMMA HeardAsAssumed ==
  ASSUME EP!TypeOK, FatesKnown, NEW alert \in BOOLEAN, NEW asked \in BOOLEAN,
         Heard(alert, asked),
         notified \subseteq notified', notified' \subseteq NoteKey, repeated' = {}
  PROVE  [EP!Next]_(EP!vars) /\ FatesKnown'
<1>1. UNCHANGED <<whitelist, booted, active, due, rows, unrecorded, degraded, systemError>>
  BY DEF Heard
<1>2. \/ \E k \in notified' \ notified : notifyUsers(k, asked)
      \/ alertOnFirstFsError(alert, asked)
  BY DEF Heard
<1> QED
  BY <1>1, <1>2, CallAsAssumed, AlertAsAssumed

LEMMA AloneAsAssumed ==
  ASSUME EP!IInv, FatesKnown, EP!ByItself, notified' = notified
  PROVE  EP!Next /\ FatesKnown'
<1>1. \A u \in User, k \in NoteKey : fate[u][k] = "unsent" => fate'[u][k] = "unsent"
  BY EngineIsFit, EP!UnsentStays DEF EngineFits
<1>2. EP!Next
  BY DEF EP!ByItself, EP!Next
<1> QED
  BY <1>1, <1>2 DEF FatesKnown

-----------------------------------------------------------------------------
(* Notifier.  The inductive invariant.                                     *)

NotifierIInv ==
  /\ IInv /\ Accounted /\ Notified
  /\ misreported = {} => EP!IInv /\ EP!AllKeptInMind /\ FatesKnown

\* What every step does.
NotifierStep ==
  /\ IInv' /\ Accounts /\ Notified'
  /\ misreported' = {} => [EP!Next]_(EP!vars) /\ FatesKnown'

LEMMA NotifiedAreKeys ==
  ASSUME TypeOK
  PROVE  notified \subseteq NoteKey
BY DEF TypeOK, NoteKey

\* A step that may have logged a row.
LEMMA HeardStep ==
  ASSUME NotifierIInv, IInv', Accounts, NEW alert \in BOOLEAN, NEW asked \in BOOLEAN,
         Heard(alert, asked)
  PROVE  NotifierStep
<1>1. notified \subseteq notified' /\ repeated' \subseteq notified'
      /\ misreported \subseteq misreported'
  BY DEF Accounts, Accounted
<1>2. notified' \subseteq NoteKey
  BY DEF IInv, TypeOK, NoteKey
<1>3. Notified'
  BY <1>1, <1>2, HeardNotifies DEF NotifierIInv
<1>4. ASSUME misreported' = {}
      PROVE  [EP!Next]_(EP!vars) /\ FatesKnown'
  <2>1. repeated' = {}
    BY <1>4 DEF IInv
  <2>2. EP!TypeOK /\ FatesKnown
    BY <1>1, <1>4 DEF NotifierIInv, Notified
  <2> QED
    BY <1>1, <1>2, <2>1, <2>2, HeardAsAssumed
<1> QED
  BY <1>3, <1>4 DEF NotifierStep

\* A step that the engine has no part in.
LEMMA QuietStep ==
  ASSUME NotifierIInv, IInv', Accounts, UNCHANGED engine
  PROVE  NotifierStep
<1>1. Notified'
  BY QuietNotifies DEF Accounts, NotifierIInv
<1>2. UNCHANGED EP!vars
  BY DEF engine, EP!vars, EP!log, EP!timer, EP!scan
<1>3. misreported' = {} => FatesKnown'
  BY DEF NotifierIInv, Accounts, FatesKnown, engine
<1> QED
  BY <1>1, <1>2, <1>3 DEF NotifierStep

\* One of the engine alone, or of a reset.
LEMMA EngineStep ==
  ASSUME NotifierIInv, IInv', EP!ByItself,
         UNCHANGED <<lines, notified, repeated, misreported, removed>>
  PROVE  NotifierStep
<1>1. Accounts
  BY DEF NotifierIInv, Accounts, Accounted
<1>2. Notified'
  BY AloneNotifies DEF NotifierIInv
<1>3. misreported' = {} => EP!Next /\ FatesKnown'
  BY AloneAsAssumed DEF NotifierIInv
<1> QED
  BY <1>1, <1>2, <1>3 DEF NotifierStep

LEMMA EveryNotifierStep ==
  ASSUME NotifierIInv, [NotifierNext]_allVars
  PROVE  NotifierStep
<1>1. IInv /\ Accounted
  BY DEF NotifierIInv
<1>2. ASSUME NEW type \in Duration, Transition(type)
      PROVE  NotifierStep
  <2>1. LogStart(type) \/ LogEnd(type) \/ LogIgnored(type)
    BY <1>2 DEF Transition
  <2>2. Heard(FirstError, type = NetworkIssue /\ said'[type] = "END")
    BY <1>2 DEF Transition
  <2>3. IInv'
    BY <1>1, <2>1, LogStartKeeps, LogEndKeeps, LogIgnoredKeeps
  <2>4. Accounts
    BY <1>1, <2>1, <2>2, LoggedAccounts DEF Heard
  <2>5. FirstError \in BOOLEAN /\ (type = NetworkIssue /\ said'[type] = "END") \in BOOLEAN
    BY DEF FirstError
  <2> QED
    BY <2>2, <2>3, <2>4, <2>5, HeardStep
<1>3. CASE Single
  <2>1. Boot \/ \E type \in Instant \ {Reboot} : LogInstant(type)
    BY <1>3 DEF Single
  <2>2. Heard(FirstError, FALSE)
    BY <1>3 DEF Single
  <2>3. IInv'
    BY <1>1, <2>1, BootKeeps, InstantKeeps
  <2>4. Accounts
    BY <1>1, <2>1, <2>2, LoggedAccounts DEF Heard
  <2> QED
    BY <2>2, <2>3, <2>4, HeardStep DEF FirstError
<1>4. CASE ByHand
  <2>1. PICK id \in Id : closeOpenEvent(id) /\ Heard(FALSE, FALSE)
    BY <1>4 DEF ByHand
  <2>2. IInv'
    BY <1>1, <2>1, CloseKeeps
  <2>3. Accounts
    BY <1>1, <2>1, LoggedAccounts DEF Heard
  <2> QED
    BY <2>1, <2>2, <2>3, HeardStep
<1>5. CASE Wiped
  <2>1. IInv'
    BY <1>1, <1>5, ResetLogKeeps DEF Wiped
  <2> QED
    BY <1>1, <1>5, <2>1, WipedAccounts, QuietStep DEF Wiped
<1>6. CASE Rotated
  <2>1. IInv'
    BY <1>1, <1>6, RotationDueKeeps, RotationCycleKeeps, RotationFailsKeeps DEF Rotated
  <2> QED
    BY <1>1, <1>6, <2>1, RotatedAccounts, QuietStep DEF Rotated
<1>7. CASE EngineAlone
  <2>1. UNCHANGED <<vars, removed>>
    BY <1>7 DEF EngineAlone
  <2>2. IInv'
    BY <1>1, <2>1, StutterKeeps
  <2>3. EP!ByItself
    BY <1>7, SameBootTasks, SameMaintenance, SameAdminAlert, SameWhitelistChange,
       SameResetNotif, SameTick, SameTimerElapses DEF EngineAlone, EP!ByItself
  <2>4. UNCHANGED <<lines, notified, repeated, misreported, removed>>
    BY <2>1 DEF vars, file, history
  <2> QED
    BY <2>2, <2>3, <2>4, EngineStep
<1>8. CASE PowerLost
  <2>1. IInv'
    BY <1>1, <1>8, CrashKeeps DEF PowerLost
  <2>2. EP!ByItself
    BY <1>8, SameCrash DEF PowerLost, EP!ByItself
  <2>3. UNCHANGED <<lines, notified, repeated, misreported, removed>>
    BY <1>8 DEF PowerLost, Crash, file
  <2> QED
    BY <2>1, <2>2, <2>3, EngineStep
<1>9. CASE UNCHANGED allVars
  <2>1. UNCHANGED vars /\ UNCHANGED engine /\ removed' = removed
    BY <1>9 DEF allVars
  <2>2. IInv'
    BY <1>1, <2>1, StutterKeeps
  <2>3. Accounts
    BY <1>1, <2>1 DEF Accounts, Accounted, vars, file, history
  <2> QED
    BY <2>1, <2>2, <2>3, QuietStep
<1> QED
  BY <1>2, <1>3, <1>4, <1>5, <1>6, <1>7, <1>8, <1>9 DEF NotifierNext

LEMMA NotifierNextKeeps ==
  ASSUME NotifierIInv, [NotifierNext]_allVars
  PROVE  /\ NotifierIInv'
         /\ misreported' = {} => [Engine!Next]_(Engine!vars)
<1>1. NotifierStep
  BY EveryNotifierStep
<1>2. IInv' /\ Accounted' /\ Notified' /\ misreported \subseteq misreported'
  BY <1>1 DEF NotifierStep, Accounts
<1>3. ASSUME misreported' = {}
      PROVE  EP!IInv' /\ EP!AllKeptInMind' /\ FatesKnown' /\ [EP!Next]_(EP!vars)
  <2>1. EP!IInv /\ EP!AllKeptInMind
    BY <1>2, <1>3 DEF NotifierIInv
  <2>2. [EP!Next]_(EP!vars) /\ FatesKnown'
    BY <1>1, <1>3 DEF NotifierStep
  <2> QED
    BY <2>1, <2>2, EngineKeeps
<1>4. misreported' = {} => [Engine!Next]_(Engine!vars)
  <2>1. UNCHANGED EP!vars => UNCHANGED Engine!vars
    BY DEF Engine!vars, EP!vars, Engine!timer, EP!timer, Engine!scan, EP!scan,
           Engine!log, EP!log
  <2> QED
    BY <1>3, <2>1, SameNext
<1> QED
  BY <1>2, <1>3, <1>4 DEF NotifierIInv

LEMMA NotifierInitKeeps == NotifierInit => NotifierIInv
<1> SUFFICES ASSUME NotifierInit
             PROVE  NotifierIInv
  OBVIOUS
<1>1. IInv
  BY InitIInv DEF NotifierInit
<1>2. EP!Init
  BY SameInit DEF NotifierInit
<1>3. EP!IInv /\ EP!AllKeptInMind /\ EP!TypeOK
  BY <1>2, EngineKeeps
<1>4. Accounted
  BY DEF NotifierInit, Init, Accounted
<1>5. EP!Within(queue, notified)
  BY <1>2 DEF EP!Init, EP!Within
<1>6. EP!PendingWithin(rows, notified)
  BY <1>2 DEF EP!Init, EP!PendingWithin, EP!NoRow
<1>7. FatesKnown
  BY <1>2 DEF EP!Init, FatesKnown
<1> QED
  BY <1>1, <1>3, <1>4, <1>5, <1>6, <1>7 DEF NotifierIInv, Notified

LEMMA NotifierInvariant == NotifierSpec => []NotifierIInv
<1>1. NotifierInit => NotifierIInv
  BY NotifierInitKeeps
<1>2. NotifierIInv /\ [NotifierNext]_allVars => NotifierIInv'
  BY NotifierNextKeeps
<1> QED
  BY <1>1, <1>2, PTL DEF NotifierSpec

\* Whatever is logged, closed by hand, rotated, wiped or lost in a reset, and
\* whatever the engine is doing when it is called: as long as no append was
\* misreported, every step of the two is one that NotificationEngine allows
\* its engine, so all that is proved of that module holds here.
THEOREM EngineUsedAsAssumedHolds == NotifierSpec => EngineUsedAsAssumed
<1>1. NotifierIInv /\ [NotifierNext]_allVars
        => [misreported' = {} => [Engine!Next]_(Engine!vars)]_allVars
  BY NotifierNextKeeps
<1> QED
  BY <1>1, NotifierInvariant, PTL DEF NotifierSpec, EngineUsedAsAssumed

\* Nobody is told twice of an event of the log, and nobody who was to be told
\* of it is forgotten, but for rows of the notification log that were lost.
THEOREM ToldOnceHolds == NotifierSpec => []ToldOnce
<1>1. NotifierIInv => ToldOnce
  <2>1. EP!AllKeptInMind => EP!NothingForgotten
    BY EngineIsFit, EP!InMindFollows DEF EngineFits
  <2> QED
    BY <2>1, EngineKeeps, SamePromises DEF NotifierIInv, ToldOnce
<1> QED
  BY <1>1, NotifierInvariant, PTL

\* What is queued or to be retried is about a row of the event log, or of one
\* that was wiped, or about an event that was over when its rows were rotated:
\* the row of an open event waits for its retries however long they take.
THEOREM RetriesFindTheirEventHolds == NotifierSpec => []RetriesFindTheirEvent
<1>1. NotifierIInv => RetriesFindTheirEvent
  <2> SUFFICES ASSUME NotifierIInv, NEW u \in User, NEW k \in NoteKey,
                      <<u, k>> \in Engine!TrackedIn(queue) \/ rows[u][k].state = "PENDING"
               PROVE  k \in notified
    BY DEF RetriesFindTheirEvent, NotifierIInv, Accounted
  <2>1. EP!Within(queue, notified) /\ EP!PendingWithin(rows, notified)
    BY DEF NotifierIInv, Notified
  <2>2. CASE <<u, k>> \in Engine!TrackedIn(queue)
    <3>1. <<u, k>> \in EP!TrackedIn(queue)
      BY <2>2, SamePromises
    <3>2. PICK i \in DOMAIN queue : queue[i].trackDelivery /\ <<u, k>> = EP!About(queue[i])
      BY <3>1 DEF EP!TrackedIn, EP!Range
    <3> QED
      BY <2>1, <3>2 DEF EP!Within, EP!About
  <2>3. CASE rows[u][k].state = "PENDING"
    BY <2>1, <2>3 DEF EP!PendingWithin
  <2> QED
    BY <2>2, <2>3
<1> QED
  BY <1>1, NotifierInvariant, PTL
=============================================================================
