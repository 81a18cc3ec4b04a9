-------------------------- MODULE StoreViewProofs ---------------------------
(***************************************************************************)
(* What those who use the store see of its tables, for every set of runs,  *)
(* jobs and keys and every waiting limit: the line of VerificationQueue,   *)
(* which the table implements, the responses the API makes of rows, and    *)
(* comparisons of two runs.                                                *)
(*                                                                         *)
(* queuePosition() counts, so the first part is about cardinalities: in a  *)
(* table in order it numbers the waiting runs from 1 to their count, each  *)
(* number once, and LineOf is the only sequence that lists them by it.     *)
(* Each method then has to renumber the runs the way the line moves.       *)
(***************************************************************************)
EXTENDS StoreViews, RunStoreProofs, SequenceTheorems

Ahead(db, r) == {w \in Waiting(db) : db[w].sequence <= db[r].sequence}

(* The table is in order, and its backlog can be counted. *)
InLineOK(db) == QueueOK(db) /\ BacklogOK(db)

LEMMA Positions ==
  ASSUME NEW db, InLineOK(db)
  PROVE  /\ IsFiniteSet(Waiting(db)) /\ WaitingCount(db) \in Nat
         /\ \A r \in Waiting(db) :
              /\ IsFiniteSet(Ahead(db, r)) /\ r \in Ahead(db, r)
              /\ Ahead(db, r) \in SUBSET Waiting(db)
              /\ QueuePosition(db, r) = Cardinality(Ahead(db, r))
              /\ QueuePosition(db, r) \in 1..WaitingCount(db)
         /\ \A r, s \in Waiting(db) :
              QueuePosition(db, r) = QueuePosition(db, s) => r = s
<1>1. IsFiniteSet(Waiting(db)) /\ WaitingCount(db) \in Nat
  BY BacklogCount DEF InLineOK, QueueOK, BacklogOK
<1>2. \A r \in Run : db[r].sequence \in Nat
  BY DEF InLineOK, QueueOK, Row
<1>3. ASSUME NEW r \in Waiting(db)
      PROVE  /\ IsFiniteSet(Ahead(db, r)) /\ r \in Ahead(db, r)
             /\ Ahead(db, r) \in SUBSET Waiting(db)
             /\ QueuePosition(db, r) = Cardinality(Ahead(db, r))
             /\ QueuePosition(db, r) \in 1..WaitingCount(db)
  <2>1. r \in Ahead(db, r) /\ Ahead(db, r) \in SUBSET Waiting(db)
    BY <1>2 DEF Ahead, Waiting
  <2>2. /\ IsFiniteSet(Ahead(db, r))
        /\ Cardinality(Ahead(db, r)) <= WaitingCount(db)
    BY <1>1, <2>1, FS_Subset DEF WaitingCount
  <2>3. Cardinality(Ahead(db, r)) \in Nat /\ Cardinality(Ahead(db, r)) # 0
    BY <2>1, <2>2, FS_CardinalityType, FS_EmptySet
  <2>4. QueuePosition(db, r) = Cardinality(Ahead(db, r))
    BY DEF QueuePosition, Ahead
  <2> QED
    BY <1>1, <2>1, <2>2, <2>3, <2>4
<1>4. ASSUME NEW r \in Waiting(db), NEW s \in Waiting(db),
             QueuePosition(db, r) = QueuePosition(db, s)
      PROVE  r = s
  <2>1. Ahead(db, r) \subseteq Ahead(db, s) \/ Ahead(db, s) \subseteq Ahead(db, r)
    BY <1>2 DEF Ahead, Waiting
  <2>2. Ahead(db, r) = Ahead(db, s)
    BY <1>3, <1>4, <2>1, FS_Subset
  <2>3. db[r].sequence = db[s].sequence
    BY <1>2, <1>3, <2>2 DEF Ahead, Waiting
  <2> QED
    BY <2>3 DEF InLineOK, QueueOK, Waiting, Present
<1> QED
  BY <1>1, <1>3, <1>4

(* The numbers are used up, by the pigeonhole principle.                   *)
LEMMA EveryPositionIsTaken ==
  ASSUME NEW db, InLineOK(db), NEW i \in 1..WaitingCount(db)
  PROVE  \E r \in Waiting(db) : QueuePosition(db, r) = i
<1> DEFINE n == WaitingCount(db)
           number == [r \in Waiting(db) |-> QueuePosition(db, r)]
<1>1. number \in Injection(Waiting(db), 1..n)
  BY Positions DEF Injection, IsInjective
<1>2. IsFiniteSet(1..n) /\ Cardinality(1..n) = n
  <2>1. n \in Nat
    BY Positions
  <2> QED
    BY <2>1, FS_Interval
<1>3. number \in Surjection(Waiting(db), 1..n)
  BY <1>1, <1>2, FS_Injection DEF WaitingCount
<1> QED
  BY <1>3 DEF Surjection

LEMMA LineIsRanked ==
  ASSUME NEW db, InLineOK(db)
  PROVE  /\ LineOf(db) \in [1..WaitingCount(db) -> Waiting(db)]
         /\ \A i \in 1..WaitingCount(db) : QueuePosition(db, LineOf(db)[i]) = i
         /\ Len(LineOf(db)) = WaitingCount(db)
         /\ LineOf(db) \in Seq(Waiting(db))
         /\ Waiting(db) = {LineOf(db)[i] : i \in DOMAIN LineOf(db)}
<1>1. \A i \in 1..WaitingCount(db) :
        /\ LineOf(db)[i] \in Waiting(db)
        /\ QueuePosition(db, LineOf(db)[i]) = i
  BY EveryPositionIsTaken DEF LineOf
<1>2. LineOf(db) \in [1..WaitingCount(db) -> Waiting(db)]
  BY <1>1 DEF LineOf
<1>3. WaitingCount(db) \in Nat
  BY Positions
<1>4. Len(LineOf(db)) = WaitingCount(db) /\ LineOf(db) \in Seq(Waiting(db))
  BY <1>2, <1>3
<1>5. ASSUME NEW r \in Waiting(db)
      PROVE  r \in {LineOf(db)[i] : i \in DOMAIN LineOf(db)}
  <2>1. /\ QueuePosition(db, r) \in 1..WaitingCount(db)
        /\ LineOf(db)[QueuePosition(db, r)] = r
    BY <1>1, Positions
  <2> QED
    BY <1>2, <2>1
<1> QED
  BY <1>1, <1>2, <1>4, <1>5

LEMMA RankedIsLine ==
  ASSUME NEW db, InLineOK(db),
         NEW line \in Seq(Waiting(db)), Len(line) = WaitingCount(db),
         \A i \in 1..WaitingCount(db) : QueuePosition(db, line[i]) = i
  PROVE  line = LineOf(db)
<1>1. \A i \in 1..WaitingCount(db) : line[i] = LineOf(db)[i]
  BY Positions, LineIsRanked, ElementOfSeq
<1> QED
  BY <1>1, LineIsRanked, SeqEqual

-----------------------------------------------------------------------------
(* An inserted run goes to the end of the line. *)
LEMMA InsertedLine ==
  ASSUME NEW db, InLineOK(db), NEW new, InLineOK(new),
         NEW r \in Run \ Present(db), NEW owner, NEW q,
         NEW n \in Nat, \A s \in Run : db[s].sequence < n,
         new = Inserted(db, r, owner, q, n)
  PROVE  /\ LineOf(new) = Append(LineOf(db), r)
         /\ WaitingCount(new) = WaitingCount(db) + 1
         /\ Waiting(new) = Waiting(db) \cup {r}
         /\ Present(new) = Present(db) \cup {r}
         /\ Running(new) = Running(db)
         /\ EndedIn(new) = EndedIn(db)
<1> DEFINE m == WaitingCount(db)
           line == Append(LineOf(db), r)
<1>1. /\ new[r].status = "QUEUED" /\ new[r].sequence = n
      /\ \A s \in Run : s # r => new[s] = db[s]
      /\ db[r].status = "ABSENT"
  BY DEF Inserted, NoRow, Present, InLineOK, QueueOK
<1>2. /\ Waiting(new) = Waiting(db) \cup {r} /\ r \notin Waiting(db)
      /\ Present(new) = Present(db) \cup {r}
      /\ Running(new) = Running(db)
      /\ EndedIn(new) = EndedIn(db)
  BY <1>1 DEF Waiting, Present, Running, EndedIn, Terminal
<1>3. m \in Nat /\ WaitingCount(new) = m + 1
  BY <1>2, Positions, FS_AddElement DEF WaitingCount
<1>4. \A s \in Run : db[s].sequence \in Nat
  BY DEF InLineOK, QueueOK, Row
<1>5. ASSUME NEW s \in Waiting(db)
      PROVE  QueuePosition(new, s) = QueuePosition(db, s)
  <2>1. s \in Run /\ s # r /\ s \in Waiting(new)
    BY <1>2 DEF Waiting
  <2>2. Ahead(new, s) = Ahead(db, s)
    BY <1>1, <1>2, <1>4, <2>1 DEF Ahead, Waiting
  <2> QED
    BY <2>1, <2>2, Positions
<1>6. QueuePosition(new, r) = m + 1
  <2>1. Ahead(new, r) = Waiting(new)
    BY <1>1, <1>2, <1>4 DEF Ahead, Waiting
  <2> QED
    BY <1>2, <1>3, <2>1, Positions DEF WaitingCount
<1>7. /\ line \in Seq(Waiting(new)) /\ Len(line) = m + 1
      /\ \A i \in 1..m : line[i] = LineOf(db)[i]
      /\ line[m + 1] = r
  <2>1. LineOf(db) \in Seq(Waiting(new)) /\ Len(LineOf(db)) = m
    BY <1>2, LineIsRanked, SeqMonotonic
  <2>2. r \in Waiting(new)
    BY <1>2
  <2> QED
    BY <1>3, <2>1, <2>2, AppendProperties
<1> HIDE DEF line
<1>8. \A i \in 1..WaitingCount(new) : QueuePosition(new, line[i]) = i
  <2> SUFFICES ASSUME NEW i \in 1..WaitingCount(new)
               PROVE  QueuePosition(new, line[i]) = i
    OBVIOUS
  <2>1. CASE i = m + 1
    BY <1>6, <1>7, <2>1
  <2>2. CASE i \in 1..m
    <3>1. line[i] = LineOf(db)[i]
      BY <1>7, <2>2
    <3>2. LineOf(db)[i] \in Waiting(db) /\ QueuePosition(db, LineOf(db)[i]) = i
      BY <2>2, LineIsRanked
    <3> QED
      BY <1>5, <3>1, <3>2
  <2> QED
    BY <1>3, <2>1, <2>2
<1>9. line = LineOf(new)
  BY <1>3, <1>7, <1>8, RankedIsLine
<1> QED
  BY <1>2, <1>3, <1>9 DEF line

(* The run claimNext() takes is the head of the line. *)
LEMMA ClaimedLine ==
  ASSUME NEW db, InLineOK(db), NEW new, InLineOK(new), NEW r \in Run,
         Claimable(db, r), new = Claimed(db, r)
  PROVE  /\ LineOf(db) # <<>>
         /\ Head(LineOf(db)) = r /\ LineOf(new) = Tail(LineOf(db))
         /\ Running(db) = {} /\ Running(new) = {r}
         /\ EndedIn(new) = EndedIn(db)
<1> DEFINE m == WaitingCount(db)
           line == Tail(LineOf(db))
<1>1. /\ r \in Waiting(db) /\ Running(db) = {}
      /\ \A w \in Waiting(db) : db[r].sequence <= db[w].sequence
  BY DEF Claimable, FirstInLine
<1>2. /\ new[r].status = "RUNNING"
      /\ \A s \in Run : new[s].sequence = db[s].sequence
      /\ \A s \in Run : s # r => new[s] = db[s]
  BY DEF Claimed, InLineOK, QueueOK, Row
<1>3. /\ Waiting(new) = Waiting(db) \ {r}
      /\ Running(new) = {r}
      /\ EndedIn(new) = EndedIn(db)
  BY <1>1, <1>2 DEF Waiting, Running, EndedIn, Terminal
<1>4. m \in Nat /\ m > 0 /\ WaitingCount(new) = m - 1
  <2>1. m \in Nat /\ QueuePosition(db, r) \in 1..m
    BY <1>1, Positions
  <2>2. IsFiniteSet(Waiting(db))
    BY Positions
  <2>3. Cardinality(Waiting(db) \ {r}) = Cardinality(Waiting(db)) - 1
    BY <1>1, <2>2, FS_RemoveElement
  <2>4. WaitingCount(new) = m - 1
    BY <1>3, <2>3 DEF WaitingCount
  <2> QED
    BY <2>1, <2>4
<1>5. QueuePosition(db, r) = 1
  <2>1. \A w \in Waiting(db) : db[w].sequence \in Nat
    BY DEF InLineOK, QueueOK, Row, Waiting
  <2>2. ASSUME NEW w \in Waiting(db), db[w].sequence <= db[r].sequence
        PROVE  w = r
    <3>1. db[w].sequence = db[r].sequence
      BY <1>1, <2>1, <2>2
    <3> QED
      BY <1>1, <3>1 DEF InLineOK, QueueOK, Present, Waiting
  <2>3. Ahead(db, r) = {r}
    BY <1>1, <2>1, <2>2 DEF Ahead
  <2> QED
    BY <1>1, <2>3, Positions, FS_Singleton
<1>6. ASSUME NEW s \in Waiting(new)
      PROVE  QueuePosition(new, s) = QueuePosition(db, s) - 1
  <2>1. s \in Waiting(db) /\ s # r
    BY <1>3
  <2>2. Ahead(new, s) = Ahead(db, s) \ {r} /\ r \in Ahead(db, s)
    BY <1>1, <1>2, <1>3, <2>1 DEF Ahead, Waiting
  <2> QED
    BY <2>1, <2>2, Positions, FS_RemoveElement
<1>7. /\ LineOf(db) # <<>> /\ Head(LineOf(db)) = r
      /\ LineOf(db)[1] = r
  <2>1. LineOf(db)[1] \in Waiting(db) /\ QueuePosition(db, LineOf(db)[1]) = 1
    BY <1>4, LineIsRanked
  <2>2. LineOf(db)[1] = r
    BY <1>1, <1>5, <2>1, Positions
  <2> QED
    BY <1>4, <2>2, LineIsRanked
<1>8. /\ line \in Seq(Waiting(db)) /\ Len(line) = WaitingCount(new)
      /\ \A i \in 1..WaitingCount(new) : line[i] = LineOf(db)[i + 1]
  BY <1>4, <1>7, LineIsRanked, HeadTailProperties
<1> HIDE DEF line
<1>9. ASSUME NEW i \in 1..WaitingCount(new)
      PROVE  line[i] \in Waiting(new) /\ QueuePosition(new, line[i]) = i
  <2>1. i \in Nat /\ i > 0 /\ i + 1 \in 1..m /\ line[i] = LineOf(db)[i + 1]
    BY <1>4, <1>8
  <2>2. line[i] \in Waiting(db) /\ QueuePosition(db, line[i]) = i + 1
    BY <2>1, LineIsRanked
  <2>3. line[i] # r
    <3> SUFFICES ASSUME line[i] = r PROVE FALSE
      OBVIOUS
    <3>1. i + 1 = 1
      BY <1>5, <2>2
    <3> QED
      BY <2>1, <3>1
  <2>4. line[i] \in Waiting(new)
    BY <1>3, <2>2, <2>3
  <2>5. QueuePosition(new, line[i]) = (i + 1) - 1
    BY <1>6, <2>2, <2>4
  <2> QED
    BY <2>1, <2>4, <2>5
<1>10. line \in Seq(Waiting(new))
  BY <1>8, <1>9, <1>4, LenProperties, SeqDef
<1>11. line = LineOf(new)
  BY <1>8, <1>9, <1>10, RankedIsLine
<1> QED
  BY <1>1, <1>3, <1>7, <1>11 DEF line

(* A refused run returns to the head: every run that waits came later.     *)
LEMMA PutBackLine ==
  ASSUME NEW db, InLineOK(db), NEW new, InLineOK(new),
         NEW r \in Running(db), SameIdentity(db, new),
         \A s \in Run : s # r => new[s] = db[s], new[r].status = "QUEUED"
  PROVE  /\ LineOf(new) = <<r>> \o LineOf(db)
         /\ Running(new) = {}
         /\ EndedIn(new) = EndedIn(db)
<1> DEFINE m == WaitingCount(db)
           line == <<r>> \o LineOf(db)
<1>1. r \in Run /\ db[r].status = "RUNNING"
  BY DEF Running
<1>2. Running(db) = {r}
  BY DEF InLineOK, QueueOK, OneRunning
<1>3. /\ Waiting(new) = Waiting(db) \cup {r} /\ r \notin Waiting(db)
      /\ Running(new) = {}
      /\ EndedIn(new) = EndedIn(db)
      /\ \A s \in Run : new[s].sequence = db[s].sequence
  BY <1>1, <1>2 DEF Waiting, Running, EndedIn, Terminal, SameIdentity
<1>4. m \in Nat /\ WaitingCount(new) = m + 1
  BY <1>3, Positions, FS_AddElement DEF WaitingCount
<1>5. \A s \in Run : db[s].sequence \in Nat
  BY DEF InLineOK, QueueOK, Row
<1>6. \A w \in Waiting(db) : db[r].sequence < db[w].sequence
  <2> SUFFICES ASSUME NEW w \in Waiting(db), ~(db[r].sequence < db[w].sequence)
               PROVE  FALSE
    OBVIOUS
  <2>1. w \in Present(db) /\ r \in Present(db) /\ w # r
    BY <1>1, <1>3 DEF Present, Waiting
  <2>2. db[w].sequence < db[r].sequence
    BY <1>5, <2>1 DEF InLineOK, QueueOK, Present
  <2>3. db[w].status \in Terminal
    BY <1>1, <2>1, <2>2 DEF InLineOK, QueueOK, InTurn
  <2> QED
    BY <2>3 DEF Waiting, Terminal
<1>7. QueuePosition(new, r) = 1
  <2>1. Ahead(new, r) = {r}
    BY <1>1, <1>3, <1>5, <1>6 DEF Ahead, Waiting
  <2> QED
    BY <1>3, <2>1, Positions, FS_Singleton
<1>8. ASSUME NEW s \in Waiting(db)
      PROVE  QueuePosition(new, s) = QueuePosition(db, s) + 1
  <2>1. s \in Waiting(new)
    BY <1>3
  <2>2. Ahead(new, s) = Ahead(db, s) \cup {r} /\ r \notin Ahead(db, s)
    BY <1>1, <1>3, <1>5, <1>6 DEF Ahead, Waiting
  <2>3. IsFiniteSet(Ahead(db, s))
    BY Positions
  <2>4. Cardinality(Ahead(new, s)) = Cardinality(Ahead(db, s)) + 1
    BY <2>2, <2>3, FS_AddElement
  <2> QED
    BY <2>1, <2>4, Positions
<1>9. /\ line \in Seq(Waiting(new)) /\ Len(line) = m + 1
      /\ line[1] = r
      /\ \A i \in 2..(m + 1) : line[i] = LineOf(db)[i - 1]
  <2>1. LineOf(db) \in Seq(Waiting(new)) /\ Len(LineOf(db)) = m
    BY <1>3, LineIsRanked, SeqMonotonic
  <2>2. <<r>> \in Seq(Waiting(new)) /\ Len(<<r>>) = 1
    BY <1>3
  <2>3. \A i \in 1..(1 + m) : line[i] = IF i <= 1 THEN <<r>>[i] ELSE LineOf(db)[i - 1]
    BY <2>1, <2>2, ConcatProperties
  <2>4. line \in Seq(Waiting(new)) /\ Len(line) = 1 + m
    BY <2>1, <2>2, ConcatProperties
  <2> QED
    BY <1>4, <2>3, <2>4
<1> HIDE DEF line
<1>10. \A i \in 1..WaitingCount(new) : QueuePosition(new, line[i]) = i
  <2> SUFFICES ASSUME NEW i \in 1..WaitingCount(new)
               PROVE  QueuePosition(new, line[i]) = i
    OBVIOUS
  <2>1. CASE i = 1
    BY <1>7, <1>9, <2>1
  <2>2. CASE i \in 2..(m + 1)
    <3>1. i - 1 \in 1..m /\ line[i] = LineOf(db)[i - 1]
      BY <1>4, <1>9, <2>2
    <3>2. /\ LineOf(db)[i - 1] \in Waiting(db)
          /\ QueuePosition(db, LineOf(db)[i - 1]) = i - 1
      BY <3>1, LineIsRanked
    <3>3. QueuePosition(new, line[i]) = (i - 1) + 1
      BY <1>8, <3>1, <3>2
    <3> QED
      BY <3>3
  <2> QED
    BY <1>4, <2>1, <2>2
<1>11. line = LineOf(new)
  BY <1>4, <1>9, <1>10, RankedIsLine
<1> QED
  BY <1>3, <1>11 DEF line

(* An outcome leaves the line alone. *)
LEMMA EndedLine ==
  ASSUME NEW db, InLineOK(db), NEW new, InLineOK(new),
         NEW r \in Running(db), SameIdentity(db, new),
         \A s \in Run : s # r => new[s] = db[s], new[r].status \in Terminal
  PROVE  /\ LineOf(new) = LineOf(db)
         /\ Running(new) = {}
         /\ EndedIn(new) = EndedIn(db) \cup {r}
<1>1. r \in Run /\ db[r].status = "RUNNING" /\ Running(db) = {r}
  BY DEF Running, InLineOK, QueueOK, OneRunning
<1>2. /\ Waiting(new) = Waiting(db)
      /\ Running(new) = {}
      /\ EndedIn(new) = EndedIn(db) \cup {r}
      /\ \A s \in Run : new[s].sequence = db[s].sequence
  BY <1>1 DEF Waiting, Running, EndedIn, Terminal, SameIdentity
<1>3. WaitingCount(new) = WaitingCount(db)
  BY <1>2 DEF WaitingCount
<1>4. \A s \in Waiting(db) : QueuePosition(new, s) = QueuePosition(db, s)
  BY <1>2 DEF QueuePosition, Waiting
<1>5. /\ LineOf(db) \in Seq(Waiting(new)) /\ Len(LineOf(db)) = WaitingCount(new)
      /\ \A i \in 1..WaitingCount(new) : QueuePosition(new, LineOf(db)[i]) = i
  BY <1>2, <1>3, <1>4, LineIsRanked
<1>6. LineOf(db) = LineOf(new)
  BY <1>5, RankedIsLine
<1> QED
  BY <1>2, <1>6

-----------------------------------------------------------------------------
(* The refinement.  A run without a row is unknown to the line. *)
LEMMA AbsentIsUnknown ==
  ASSUME InLineOK(rows)
  PROVE  Run \ Present(rows) \subseteq Queue!Unknown
<1>1. Queue!InLine = Waiting(rows)
  BY LineIsRanked DEF Queue!InLine
<1>2. Waiting(rows) \cup Running(rows) \cup EndedIn(rows) \subseteq Present(rows)
  BY DEF Waiting, Running, EndedIn, Present, Terminal
<1>3. ServedIn(rows) \in Running(rows) \cup {None}
  BY DEF ServedIn
<1>4. None \notin Run
  BY StoreAssumption
<1> QED
  BY <1>1, <1>2, <1>3, <1>4 DEF Queue!Unknown

LEMMA ServedIsRunning ==
  ASSUME NEW db, NEW r \in Running(db), OneRunning(db)
  PROVE  ServedIn(db) = r
BY DEF ServedIn, OneRunning

LEMMA AppendsRefines ==
  ASSUME InLineOK(rows), InLineOK(rows'), Appends(rows, rows')
  PROVE  Queue!Admit
<1>1. PICK r \in Run \ Present(rows), owner \in Owner, q \in Request :
        /\ WaitingCount(rows) < WaitingLimit
        /\ rows' = Inserted(rows, r, owner, q, NextSequence(rows))
  BY DEF Appends
<1>2. NextSequence(rows) \in Nat /\ \A s \in Run : rows[s].sequence < NextSequence(rows)
  BY NextSequenceIsLast DEF InLineOK, QueueOK
<1>3. /\ LineOf(rows') = Append(LineOf(rows), r)
      /\ Running(rows') = Running(rows) /\ EndedIn(rows') = EndedIn(rows)
  BY <1>1, <1>2, InsertedLine
<1>4. ServedIn(rows') = ServedIn(rows)
  BY <1>3 DEF ServedIn
<1>5. r \in Queue!Unknown /\ Len(LineOf(rows)) < WaitingLimit
  BY <1>1, AbsentIsUnknown, LineIsRanked
<1> QED
  BY <1>3, <1>4, <1>5 DEF Queue!Admit

LEMMA AppendTwice ==
  ASSUME NEW S, NEW line \in Seq(S), NEW b, NEW c
  PROVE  Append(Append(line, b), c) = line \o <<b, c>>
OBVIOUS

(* Both children of a job, by way of the table that has the baseline only. *)
LEMMA AppendsPairRefines ==
  ASSUME InLineOK(rows), InLineOK(rows'), AppendsPair(rows, rows')
  PROVE  Queue!AdmitPair
<1> DEFINE n == NextSequence(rows)
<1>1. PICK b \in Run \ Present(rows), c \in Run \ Present(rows),
           ob \in Owner, oc \in Owner, q \in Request :
        /\ b # c
        /\ WaitingCount(rows) + 2 <= WaitingLimit
        /\ rows' = Inserted(Inserted(rows, b, ob, q, n), c, oc, q, n + 1)
  BY DEF AppendsPair
<1> DEFINE mid == Inserted(rows, b, ob, q, n)
<1>2. /\ n \in Nat /\ n > 0 /\ \A s \in Run : rows[s].sequence < n
  BY NextSequenceIsLast DEF InLineOK, QueueOK
<1>3. WaitingCount(rows) \in Nat /\ WaitingLimit \in Nat
  BY Positions, StoreAssumption
<1>4. InLineOK(mid)
  <2>1. Appends(rows, mid)
    BY <1>1, <1>3 DEF Appends
  <2> QED
    BY <2>1, StepQueueOK, StepBacklogOK DEF InLineOK
<1>5. \A s \in Run : mid[s].sequence < n + 1
  BY <1>1, <1>2, InsertedQueueOK DEF InLineOK
<1> HIDE DEF n
<1>6. /\ LineOf(mid) = Append(LineOf(rows), b)
      /\ Present(mid) = Present(rows) \cup {b}
      /\ Running(mid) = Running(rows) /\ EndedIn(mid) = EndedIn(rows)
  BY <1>1, <1>2, <1>4, InsertedLine
<1>7. c \in Run \ Present(mid) /\ rows' = Inserted(mid, c, oc, q, n + 1)
  BY <1>1, <1>6
<1> HIDE DEF mid
<1>8. /\ LineOf(rows') = Append(LineOf(mid), c)
      /\ Running(rows') = Running(mid) /\ EndedIn(rows') = EndedIn(mid)
  BY <1>2, <1>4, <1>5, <1>7, InsertedLine
<1>9. LineOf(rows') = LineOf(rows) \o <<b, c>>
  <2>1. LineOf(rows) \in Seq(Waiting(rows))
    BY LineIsRanked
  <2>2. Append(Append(LineOf(rows), b), c) = LineOf(rows) \o <<b, c>>
    BY <2>1, AppendTwice
  <2> QED
    BY <1>6, <1>8, <2>2
<1>10. ServedIn(rows') = ServedIn(rows) /\ EndedIn(rows') = EndedIn(rows)
  BY <1>6, <1>8 DEF ServedIn
<1>11. /\ b \in Queue!Unknown /\ c \in Queue!Unknown
       /\ Len(LineOf(rows)) + 2 <= WaitingLimit
  BY <1>1, AbsentIsUnknown, LineIsRanked
<1> QED
  BY <1>1, <1>9, <1>10, <1>11 DEF Queue!AdmitPair

LEMMA ClaimsRefines ==
  ASSUME InLineOK(rows), InLineOK(rows'), Claims(rows, rows')
  PROVE  Queue!Serve
<1>1. PICK r \in Run : Claimable(rows, r) /\ rows' = Claimed(rows, r)
  BY DEF Claims
<1>2. /\ LineOf(rows) # <<>>
      /\ Head(LineOf(rows)) = r /\ LineOf(rows') = Tail(LineOf(rows))
      /\ Running(rows) = {} /\ Running(rows') = {r}
      /\ EndedIn(rows') = EndedIn(rows)
  BY <1>1, ClaimedLine
<1>3. ServedIn(rows) = None /\ ServedIn(rows') = r
  BY <1>2 DEF ServedIn
<1> QED
  BY <1>2, <1>3 DEF Queue!Serve

(* One run is running, so a step that settles RUNNING rows puts it back,   *)
(* ends it, or leaves it running.                                          *)
LEMMA SettlesRefines ==
  ASSUME InLineOK(rows), InLineOK(rows'), Settles(rows, rows')
  PROVE  Queue!PutBack \/ Queue!Finish \/ UNCHANGED Queue!queueVars
<1>1. /\ SameIdentity(rows, rows')
      /\ \A s \in Run \ Running(rows) : rows'[s] = rows[s]
      /\ rows \in [Run -> Row] /\ rows' \in [Run -> Row]
  BY DEF Settles, SettlesRunning, InLineOK, QueueOK
<1>2. None \notin Run
  BY StoreAssumption
<1>3. CASE Running(rows) = {}
  <2>1. rows' = rows
    BY <1>1, <1>3
  <2> QED
    BY <2>1 DEF Queue!queueVars
<1>4. ASSUME NEW r \in Running(rows)
      PROVE  Queue!PutBack \/ Queue!Finish \/ UNCHANGED Queue!queueVars
  <2>1. /\ Running(rows) = {r} /\ r \in Run /\ rows[r].status = "RUNNING"
        /\ ServedIn(rows) = r
    BY ServedIsRunning DEF InLineOK, QueueOK, OneRunning, Running
  <2>2. \A s \in Run : s # r => rows'[s] = rows[s]
    BY <1>1, <2>1
  <2>3. rows'[r].status \in {"QUEUED", "RUNNING"} \cup Terminal
    BY <1>1, <2>1 DEF SameIdentity, Row, Status
  <2>4. ASSUME rows'[r].status = "QUEUED" PROVE Queue!PutBack
    <3>1. /\ LineOf(rows') = <<r>> \o LineOf(rows)
          /\ Running(rows') = {} /\ EndedIn(rows') = EndedIn(rows)
      BY <1>1, <2>2, <2>4, PutBackLine
    <3>2. ServedIn(rows') = None
      BY <3>1 DEF ServedIn
    <3> QED
      BY <1>2, <2>1, <3>1, <3>2 DEF Queue!PutBack
  <2>5. ASSUME rows'[r].status \in Terminal PROVE Queue!Finish
    <3>1. /\ LineOf(rows') = LineOf(rows)
          /\ Running(rows') = {} /\ EndedIn(rows') = EndedIn(rows) \cup {r}
      BY <1>1, <2>2, <2>5, EndedLine
    <3>2. ServedIn(rows') = None
      BY <3>1 DEF ServedIn
    <3> QED
      BY <1>2, <2>1, <3>1, <3>2 DEF Queue!Finish
  <2>6. ASSUME rows'[r].status = "RUNNING" PROVE UNCHANGED Queue!queueVars
    <3>1. \A s \in Run : /\ rows'[s].status = rows[s].status
                         /\ rows'[s].sequence = rows[s].sequence
      BY <1>1, <2>1, <2>2, <2>6 DEF SameIdentity
    <3>2. /\ Waiting(rows') = Waiting(rows) /\ Running(rows') = Running(rows)
          /\ EndedIn(rows') = EndedIn(rows)
      BY <3>1 DEF Waiting, Running, EndedIn
    <3>3. \A s \in Waiting(rows) : QueuePosition(rows', s) = QueuePosition(rows, s)
      BY <3>1, <3>2 DEF QueuePosition, Waiting
    <3>4. /\ LineOf(rows) \in Seq(Waiting(rows')) 
          /\ Len(LineOf(rows)) = WaitingCount(rows')
          /\ \A i \in 1..WaitingCount(rows') : QueuePosition(rows', LineOf(rows)[i]) = i
      BY <3>2, <3>3, LineIsRanked DEF WaitingCount
    <3>5. LineOf(rows') = LineOf(rows)
      BY <3>4, RankedIsLine
    <3>6. ServedIn(rows') = ServedIn(rows)
      BY <3>2 DEF ServedIn
    <3> QED
      BY <3>2, <3>5, <3>6 DEF Queue!queueVars
  <2> QED
    BY <2>3, <2>4, <2>5, <2>6
<1> QED
  BY <1>3, <1>4

(* Whatever changes the table by the methods of the store moves the line.  *)
LEMMA StepRefines ==
  ASSUME InLineOK(rows), InLineOK(rows'),
         \/ Appends(rows, rows') \/ AppendsPair(rows, rows')
         \/ Claims(rows, rows') \/ Settles(rows, rows')
  PROVE  [Queue!QueueNext]_(Queue!queueVars)
BY AppendsRefines, AppendsPairRefines, ClaimsRefines, SettlesRefines DEF Queue!QueueNext

LEMMA EmptyRefines ==
  ASSUME InLineOK(rows), rows = [r \in Run |-> NoRow]
  PROVE  Queue!QueueInit
<1>1. Waiting(rows) = {} /\ Running(rows) = {} /\ EndedIn(rows) = {}
  BY DEF NoRow, Waiting, Running, EndedIn, Terminal
<1>2. LineOf(rows) = <<>>
  <2>1. WaitingCount(rows) = 0
    BY <1>1, FS_EmptySet DEF WaitingCount
  <2>2. LineOf(rows) \in Seq(Waiting(rows)) /\ Len(LineOf(rows)) = 0
    BY <2>1, LineIsRanked
  <2> QED
    BY <2>2, EmptySeq
<1> QED
  BY <1>1, <1>2 DEF ServedIn, Queue!QueueInit

(* Whoever calls the methods of the store, in whatever order, sees a       *)
(* bounded first-come first-served line with one run being served: every   *)
(* method is a step of it or changes nothing it tells apart.               *)
THEOREM StoreImplementsQueue == StoreSpec => ImplementsQueue
<1>1. InLineOK(rows) /\ StoreInit => Queue!QueueInit
  BY EmptyRefines DEF StoreInit
<1>2. InLineOK(rows) /\ InLineOK(rows)' /\ [StoreNext]_storeVars
        => [Queue!QueueNext]_(Queue!queueVars)
  <2> SUFFICES ASSUME InLineOK(rows), InLineOK(rows'), [StoreNext]_storeVars
               PROVE  [Queue!QueueNext]_(Queue!queueVars)
    OBVIOUS
  <2>1. CASE StoreNext
    BY <2>1, StoreStep, StepRefines DEF InLineOK, QueueOK
  <2>2. CASE UNCHANGED storeVars
    BY <2>2 DEF storeVars, Queue!queueVars
  <2> QED
    BY <2>1, <2>2
<1>3. StoreSpec => []InLineOK(rows)
  BY QueueAlwaysOK, BacklogAlwaysOK, PTL DEF InLineOK
<1> QED
  BY <1>1, <1>2, <1>3, PTL DEF StoreSpec, ImplementsQueue, Queue!QueueSpec

-----------------------------------------------------------------------------
(* The responses.  The shape of what inflate() builds, status by status.   *)
LEMMA ShownFits ==
  ASSUME NEW db, InLineOK(db), AllConsistent(db), NEW r \in Present(db)
  PROVE  /\ Shown(db, r) \in RunResponse
         /\ Shown(db, r).status = db[r].status
         /\ Shown(db, r).report = db[r].report
         /\ Shown(db, r).receipt = db[r].receipt
         /\ Inflatable(db, r)
         /\ db[r].status # "QUEUED" \/ QueuePosition(db, r) \in 1..LastPosition
              => RunResponseSchema(r, Shown(db, r))
<1> DEFINE row == db[r]
           shown == Shown(db, r)
<1>1. /\ r \in Run /\ row \in Row /\ row.status # "ABSENT"
      /\ Consistent(row, r)
  BY DEF Present, InLineOK, QueueOK, AllConsistent
<1>2. /\ None \notin Report /\ None \notin ErrorCode
      /\ None \notin Stage \cup {"SANDBOX"}
  BY StoreAssumption
<1>3. CASE row.status = "QUEUED"
  <2>1. shown = [status |-> "QUEUED", verdict |-> None, activeStage |-> None,
                 queuePosition |-> QueuePosition(db, r), report |-> None,
                 receipt |-> None, systemError |-> None]
    BY <1>3 DEF Shown, Blank
  <2>2. QueuePosition(db, r) \in Nat
    <3>1. r \in Waiting(db)
      BY <1>1, <1>3 DEF Waiting
    <3>2. QueuePosition(db, r) \in 1..WaitingCount(db)
      BY <3>1, Positions
    <3> QED
      BY <3>2
  <2>3. row.report = None /\ row.receipt = None
    BY <1>1, <1>3 DEF Consistent
  <2> HIDE DEF row, shown
  <2>4. shown \in RunResponse
    BY <2>1, <2>2 DEF RunResponse, Status
  <2>5. Inflatable(db, r)
    BY <1>3 DEF Inflatable, row
  <2>6. QueuePosition(db, r) \in 1..LastPosition => RunResponseSchema(r, shown)
    BY <2>1 DEF RunResponseSchema
  <2> QED
    BY <1>3, <2>1, <2>3, <2>4, <2>5, <2>6 DEF row, shown
<1>4. CASE row.status = "RUNNING"
  <2>1. shown = [status |-> "RUNNING", verdict |-> None, activeStage |-> row.stage,
                 queuePosition |-> 0, report |-> None,
                 receipt |-> None, systemError |-> None]
    BY <1>4 DEF Shown, Blank
  <2>2. row.stage \in Stage \cup {"SANDBOX", None} /\ row.stage # None
    BY <1>1, <1>4 DEF Consistent, Row
  <2>3. row.report = None /\ row.receipt = None
    BY <1>1, <1>4 DEF Consistent
  <2> HIDE DEF row, shown
  <2>4. shown \in RunResponse
    BY <2>1, <2>2 DEF RunResponse, Status
  <2>5. Inflatable(db, r)
    BY <1>4 DEF Inflatable, row
  <2>6. RunResponseSchema(r, shown)
    BY <2>1, <2>2 DEF RunResponseSchema
  <2> QED
    BY <1>4, <2>1, <2>3, <2>4, <2>5, <2>6 DEF row, shown
<1>5. CASE row.status = "SYSTEM_ERROR"
  <2>1. shown = [status |-> "SYSTEM_ERROR", verdict |-> "INCONCLUSIVE",
                 activeStage |-> None, queuePosition |-> 0, report |-> None,
                 receipt |-> None, systemError |-> row.error]
    BY <1>5 DEF Shown, Blank
  <2>2. row.error \in ErrorCode /\ row.error # None
    BY <1>1, <1>5 DEF Consistent, Row
  <2>3. row.report = None /\ row.receipt = None
    BY <1>1, <1>5 DEF Consistent
  <2> HIDE DEF row, shown
  <2>4. shown \in RunResponse
    BY <2>1, <2>2 DEF RunResponse, Status, Terminal
  <2>5. Inflatable(db, r)
    BY <1>5 DEF Inflatable, row
  <2>6. RunResponseSchema(r, shown)
    BY <2>1, <2>2 DEF RunResponseSchema
  <2> QED
    BY <1>5, <2>1, <2>3, <2>4, <2>5, <2>6 DEF row, shown
<1>6. CASE row.status \in {"COMPLETED", "TIMEOUT"}
  <2>1. /\ row.report \in Report /\ row.report # None /\ row.report.run = r
        /\ row.receipt = row.report /\ row.report.verdict \in Verdict
        /\ row.status = "TIMEOUT" => row.report.verdict = "INCONCLUSIVE"
    BY <1>1, <1>2, <1>6 DEF Consistent, Report
  <2>2. ReportFor(db, r) = row.report /\ ReceiptLink(db, r) = row.report
    BY <2>1 DEF ReportFor, ReceiptLink
  <2>3. shown = [status |-> row.status, verdict |-> row.report.verdict,
                 activeStage |-> None, queuePosition |-> 0, report |-> row.report,
                 receipt |-> row.report, systemError |-> None]
    BY <1>6, <2>1, <2>2 DEF Shown, Blank
  <2>4. Inflatable(db, r)
    BY <2>1, <2>2 DEF Inflatable
  <2> HIDE DEF row, shown
  <2>5. shown \in RunResponse
    BY <1>6, <2>1, <2>3 DEF RunResponse, Status, Terminal
  <2>6. RunResponseSchema(r, shown)
    BY <1>6, <2>1, <2>3 DEF RunResponseSchema
  <2> QED
    BY <1>6, <2>1, <2>3, <2>4, <2>5, <2>6 DEF row, shown
<1> QED
  BY <1>1, <1>3, <1>4, <1>5, <1>6 DEF Row, Status, Terminal

(* A run is readable unless it waits beyond the last position.             *)
LEMMA RunIsReadable ==
  ASSUME NEW db, InLineOK(db), AllConsistent(db), NEW r \in Present(db)
  PROVE  /\ Inflated(db, r) \in {Shown(db, r), Unreadable}
         /\ Shown(db, r) # Unreadable
         /\ Inflated(db, r) = Unreadable =>
              /\ r \in Waiting(db) /\ QueuePosition(db, r) > LastPosition
              /\ WaitingCount(db) > LastPosition
         /\ Inflated(db, r) # Unreadable => RunResponseSchema(r, Shown(db, r))
<1>1. Shown(db, r) # Unreadable
  BY ShownFits, ResponsesAssumption
<1>2. /\ Inflated(db, r) \in {Shown(db, r), Unreadable}
      /\ Inflated(db, r) # Unreadable => RunResponseSchema(r, Shown(db, r))
  BY DEF Inflated
<1>3. ASSUME Inflated(db, r) = Unreadable
      PROVE  /\ r \in Waiting(db) /\ QueuePosition(db, r) > LastPosition
             /\ WaitingCount(db) > LastPosition
  <2>1. db[r].status = "QUEUED" /\ QueuePosition(db, r) \notin 1..LastPosition
    BY <1>1, <1>3, ShownFits DEF Inflated
  <2>2. r \in Waiting(db)
    BY <2>1 DEF Waiting, Present
  <2>3. QueuePosition(db, r) \in 1..WaitingCount(db) /\ WaitingCount(db) \in Nat
    BY <2>2, Positions
  <2>4. LastPosition \in Nat
    BY StoreAssumption DEF LastPosition
  <2> QED
    BY <2>1, <2>2, <2>3, <2>4
<1> QED
  BY <1>1, <1>2, <1>3

(* One answer made of two responses: which of the four it is, and that the *)
(* contract accepts it.                                                    *)
Ended(response) == response.status \notin {"QUEUED", "RUNNING"}

LEMMA SummaryFits ==
  ASSUME NEW b \in RunResponse, NEW c \in RunResponse,
         \A s \in {b, c} : s.receipt # None <=> s.status \in {"COMPLETED", "TIMEOUT"}
  PROVE  /\ Summary(b, c) \in ReproducibilityResponse
         /\ Summary(b, c).status \in {"COMPLETED", "INCONCLUSIVE"}
              <=> Ended(b) /\ Ended(c)
         /\ Ended(b) /\ Ended(c) => Summary(b, c) = Concluded(b, c)
         /\ ReproducibilityResponseSchema(Summary(b, c), b, c)
<1> DEFINE sum == Summary(b, c)
<1>1. /\ b.report \in Report \cup {None} /\ c.report \in Report \cup {None}
      /\ None \notin Report
  BY StoreAssumption DEF RunResponse
<1>2. \A child \in {b, c} : child.status \in {"COMPLETED", "TIMEOUT"} <=> child.receipt # None
  OBVIOUS
<1>3. CASE ~(Ended(b) /\ Ended(c))
  <2>1. \/ sum = Pending
        \/ sum = [Pending EXCEPT !.status = "RUNNING"]
    BY <1>3 DEF Summary, Ended
  <2> HIDE DEF sum
  <2>2. PICK status \in {"QUEUED", "RUNNING"} :
          sum = [status |-> status, verdict |-> None, reasonCode |-> None, compared |-> FALSE]
    BY <2>1 DEF Pending
  <2>4. sum \in ReproducibilityResponse
    BY <2>2 DEF ReproducibilityResponse
  <2>3. ReproducibilityResponseSchema(sum, b, c)
    BY <1>2, <2>2 DEF ReproducibilityResponseSchema
  <2> QED
    BY <1>3, <2>2, <2>3, <2>4 DEF sum
<1>4. CASE Ended(b) /\ Ended(c)
  <2>1. sum = Concluded(b, c)
    BY <1>4 DEF Summary, Ended
  <2>2. CASE b.report = None \/ c.report = None
    <3>1. sum = [status |-> "INCONCLUSIVE", verdict |-> "INCONCLUSIVE",
                 reasonCode |-> "CHILD_RUN_UNAVAILABLE", compared |-> FALSE]
      BY <2>1, <2>2 DEF Concluded, Pending
    <3> HIDE DEF sum
    <3>2. sum \in ReproducibilityResponse
      BY <3>1 DEF ReproducibilityResponse, ReasonCode
    <3>3. ReproducibilityResponseSchema(sum, b, c)
      BY <1>2, <3>1 DEF ReproducibilityResponseSchema, ReasonCode
    <3> QED
      BY <1>4, <2>1, <3>1, <3>2, <3>3 DEF sum
  <2>3. CASE /\ b.report # None /\ c.report # None
             /\ Projection(b.report) # Projection(c.report)
    <3>1. sum = [status |-> "INCONCLUSIVE", verdict |-> "INCONCLUSIVE",
                 reasonCode |-> "NONDETERMINISTIC_RESULT", compared |-> TRUE]
      BY <2>1, <2>3 DEF Concluded, Pending
    <3> HIDE DEF sum
    <3>2. sum \in ReproducibilityResponse
      BY <3>1 DEF ReproducibilityResponse, ReasonCode
    <3>3. ReproducibilityResponseSchema(sum, b, c)
      BY <1>2, <3>1 DEF ReproducibilityResponseSchema, ReasonCode
    <3> QED
      BY <1>4, <2>1, <3>1, <3>2, <3>3 DEF sum
  <2>4. CASE /\ b.report # None /\ c.report # None
             /\ Projection(b.report) = Projection(c.report)
    <3>1. sum = [status |-> "COMPLETED", verdict |-> b.report.verdict,
                 reasonCode |-> None, compared |-> TRUE]
      BY <2>1, <2>4 DEF Concluded, Pending
    <3>2. b.report.verdict \in Verdict
      BY <1>1, <2>4 DEF Report
    <3> HIDE DEF sum
    <3>3. sum \in ReproducibilityResponse
      BY <3>1, <3>2 DEF ReproducibilityResponse
    <3>4. ReproducibilityResponseSchema(sum, b, c)
      BY <1>2, <3>1, <3>2 DEF ReproducibilityResponseSchema
    <3> QED
      BY <1>4, <2>1, <3>1, <3>3, <3>4 DEF sum
  <2> QED
    BY <2>2, <2>3, <2>4
<1> QED
  BY <1>3, <1>4

(* The tables as the responses need them. *)
TablesOK(db, jb) == InLineOK(db) /\ AllConsistent(db) /\ Linked(db, jb)

(* The answer for a job: its two rows are there, and while both are        *)
(* readable it is what responseFor() makes of them.                        *)
LEMMA JobIsReadable ==
  ASSUME NEW db, NEW jb, TablesOK(db, jb), NEW j \in Job, jb[j] # None
  PROVE  LET b == jb[j].baseline
             c == jb[j].candidate
         IN  /\ b \in Present(db) /\ c \in Present(db) /\ b # c
             /\ db[b].request = jb[j].request /\ db[c].request = jb[j].request
             /\ IF Inflated(db, b) = Unreadable \/ Inflated(db, c) = Unreadable
                THEN Reproduced(db, jb[j]) = Unreadable
                ELSE /\ Reproduced(db, jb[j]) = Summary(Shown(db, b), Shown(db, c))
                     /\ Reproduced(db, jb[j]) # Unreadable
<1> DEFINE b == jb[j].baseline
           c == jb[j].candidate
           sb == Shown(db, b)
           sc == Shown(db, c)
<1>1. /\ b \in Present(db) /\ c \in Present(db)
      /\ db[b].owner = <<j, "baseline">> /\ db[c].owner = <<j, "candidate">>
      /\ db[b].request = jb[j].request /\ db[c].request = jb[j].request
  BY DEF TablesOK, Linked, Children
<1>2. b # c
  BY <1>1
<1>3. CASE Inflated(db, b) = Unreadable \/ Inflated(db, c) = Unreadable
  BY <1>1, <1>2, <1>3 DEF Reproduced
<1>4. CASE Inflated(db, b) # Unreadable /\ Inflated(db, c) # Unreadable
  <2>1. /\ Inflated(db, b) = sb /\ Inflated(db, c) = sc
        /\ RunResponseSchema(b, sb) /\ RunResponseSchema(c, sc)
    BY <1>1, <1>4, RunIsReadable DEF TablesOK
  <2>2. sb \in RunResponse /\ sc \in RunResponse
    BY <1>1, ShownFits DEF TablesOK
  <2>3. \A s \in {sb, sc} : s.receipt # None <=> s.status \in {"COMPLETED", "TIMEOUT"}
    BY <2>1 DEF RunResponseSchema
  <2>4. /\ Summary(sb, sc) \in ReproducibilityResponse
        /\ ReproducibilityResponseSchema(Summary(sb, sc), sb, sc)
    BY <2>2, <2>3, SummaryFits
  <2>5. Reproduced(db, jb[j]) = Summary(sb, sc)
    BY <1>1, <1>4, <2>1, <2>4 DEF Reproduced
  <2>6. Summary(sb, sc) # Unreadable
    BY <2>4, ResponsesAssumption
  <2> QED
    BY <1>1, <1>2, <1>4, <2>5, <2>6
<1> QED
  BY <1>3, <1>4

LEMMA TablesAreReadable == TablesOK(rows, jobs) => EverythingIsReadable
<1> SUFFICES ASSUME TablesOK(rows, jobs) PROVE EverythingIsReadable
  OBVIOUS
<1>1. ASSUME NEW r \in Present(rows), Inflated(rows, r) = Unreadable
      PROVE  Overfull /\ QueuePosition(rows, r) > LastPosition
  BY <1>1, RunIsReadable DEF TablesOK, Overfull
<1>2. ASSUME NEW j \in Job, jobs[j] # None, Reproduced(rows, jobs[j]) = Unreadable
      PROVE  Overfull
  <2>1. \E r \in Present(rows) : Inflated(rows, r) = Unreadable
    BY <1>2, JobIsReadable
  <2> QED
    BY <1>1, <2>1
<1> QED
  BY <1>1, <1>2 DEF EverythingIsReadable

(* A job is settled exactly by the end of both runs; its answer is then    *)
(* made of their reports alone.                                            *)
LEMMA SettledIsConcluded ==
  ASSUME NEW db, NEW jb, TablesOK(db, jb), NEW j \in Job, jb[j] # None,
         Settled(Reproduced(db, jb[j]))
  PROVE  LET b == jb[j].baseline
             c == jb[j].candidate
         IN  /\ db[b].status \in Terminal /\ db[c].status \in Terminal
             /\ Reproduced(db, jb[j]) = Concluded(Shown(db, b), Shown(db, c))
<1> DEFINE b == jb[j].baseline
           c == jb[j].candidate
<1>1. /\ b \in Present(db) /\ c \in Present(db)
      /\ Inflated(db, b) # Unreadable /\ Inflated(db, c) # Unreadable
      /\ Reproduced(db, jb[j]) = Summary(Shown(db, b), Shown(db, c))
  BY JobIsReadable DEF Settled
<1>2. /\ Shown(db, b) \in RunResponse /\ Shown(db, c) \in RunResponse
      /\ Shown(db, b).status = db[b].status /\ Shown(db, c).status = db[c].status
  BY <1>1, ShownFits DEF TablesOK
<1>3. \A s \in {Shown(db, b), Shown(db, c)} :
        s.receipt # None <=> s.status \in {"COMPLETED", "TIMEOUT"}
  <2>1. RunResponseSchema(b, Shown(db, b)) /\ RunResponseSchema(c, Shown(db, c))
    BY <1>1, RunIsReadable DEF TablesOK
  <2> QED
    BY <2>1 DEF RunResponseSchema
<1>4. /\ Ended(Shown(db, b)) /\ Ended(Shown(db, c))
      /\ Reproduced(db, jb[j]) = Concluded(Shown(db, b), Shown(db, c))
  BY <1>1, <1>2, <1>3, SummaryFits DEF Settled
<1>5. \A r \in Present(db) : db[r].status \in {"QUEUED", "RUNNING"} \cup Terminal
  BY DEF TablesOK, InLineOK, QueueOK, Row, Status, Present
<1> QED
  BY <1>1, <1>2, <1>4, <1>5 DEF Ended

LEMMA TablesAreJustified == TablesOK(rows, jobs) => SummaryIsJustified
<1> SUFFICES ASSUME TablesOK(rows, jobs), NEW j \in Job, jobs[j] # None,
                    Settled(Reproduced(rows, jobs[j]))
             PROVE
               LET job == jobs[j]
                   summary == Reproduced(rows, job)
                   b == rows[job.baseline].report
                   c == rows[job.candidate].report
                   agree == [b EXCEPT !.run = job.candidate] = c
               IN  /\ job.baseline # job.candidate
                   /\ summary.status = "COMPLETED" <=> b # None /\ c # None /\ agree
                   /\ summary.reasonCode = "NONDETERMINISTIC_RESULT"
                        <=> b # None /\ c # None /\ ~agree
                   /\ b # None => b = rows[job.baseline].receipt
                   /\ c # None => c = rows[job.candidate].receipt
  BY DEF SummaryIsJustified
<1> DEFINE job == jobs[j]
           b == rows[job.baseline].report
           c == rows[job.candidate].report
           agree == [b EXCEPT !.run = job.candidate] = c
           summary == Reproduced(rows, job)
<1>1. /\ job.baseline \in Present(rows) /\ job.candidate \in Present(rows)
      /\ job.baseline # job.candidate
      /\ rows[job.baseline].request = job.request
      /\ rows[job.candidate].request = job.request
      /\ rows[job.baseline].status \in Terminal
      /\ rows[job.candidate].status \in Terminal
      /\ summary = Concluded(Shown(rows, job.baseline), Shown(rows, job.candidate))
  BY JobIsReadable, SettledIsConcluded
<1>2. /\ Shown(rows, job.baseline).report = b
      /\ Shown(rows, job.candidate).report = c
  BY <1>1, ShownFits DEF TablesOK
<1>3. ASSUME NEW r \in Present(rows), rows[r].status \in Terminal, rows[r].report # None
      PROVE  /\ rows[r].report \in Report /\ rows[r].report.run = r
             /\ rows[r].report.request = rows[r].request
             /\ rows[r].report = rows[r].receipt
  BY <1>3 DEF TablesOK, AllConsistent, Consistent, Present, Terminal
<1>4. ASSUME b # None, c # None
      PROVE  agree <=> b.verdict = c.verdict
  <2>1. /\ b \in Report /\ c \in Report /\ c.run = job.candidate
        /\ b.request = c.request
    BY <1>1, <1>3, <1>4
  <2> HIDE DEF b, c, job
  <2> QED
    BY <2>1 DEF Report
<1>5. summary = IF b = None \/ c = None
                THEN [status |-> "INCONCLUSIVE", verdict |-> "INCONCLUSIVE",
                      reasonCode |-> "CHILD_RUN_UNAVAILABLE", compared |-> FALSE]
                ELSE IF b.verdict # c.verdict
                THEN [status |-> "INCONCLUSIVE", verdict |-> "INCONCLUSIVE",
                      reasonCode |-> "NONDETERMINISTIC_RESULT", compared |-> TRUE]
                ELSE [status |-> "COMPLETED", verdict |-> b.verdict,
                      reasonCode |-> None, compared |-> TRUE]
  BY <1>1, <1>2 DEF Concluded, Projection, Pending
<1>6. None # "NONDETERMINISTIC_RESULT"
  BY ResponsesAssumption DEF ReasonCode
<1>7. /\ b # None => b = rows[job.baseline].receipt
      /\ c # None => c = rows[job.candidate].receipt
  BY <1>1, <1>3
<1> HIDE DEF b, c, summary, agree
<1>8. /\ summary.status = "COMPLETED" <=> b # None /\ c # None /\ agree
      /\ summary.reasonCode = "NONDETERMINISTIC_RESULT" <=> b # None /\ c # None /\ ~agree
  BY <1>4, <1>5, <1>6
<1> QED
  BY <1>1, <1>7, <1>8 DEF b, c, summary, agree

LEMMA TablesAlwaysOK == StoreSpec => []TablesOK(rows, jobs)
<1>1. OutcomeConsistent => AllConsistent(rows)
  BY DEF OutcomeConsistent, AllConsistent, Consistent
<1> QED
  BY <1>1, QueueAlwaysOK, BacklogAlwaysOK, LinkedAlways, OutcomeAlwaysConsistent, PTL
     DEF TablesOK, InLineOK

(* Whatever the store is made to write can be shown, and no job claims     *)
(* more than its two runs and their receipts can show.                     *)
THEOREM ResponsesAlwaysSound == StoreSpec => []ResponsesAreSound
<1>1. TablesOK(rows, jobs) => ResponsesAreSound
  BY TablesAreReadable, TablesAreJustified DEF ResponsesAreSound
<1> QED
  BY <1>1, TablesAlwaysOK, PTL

LEMMA FinalIsShownAgain ==
  ASSUME NEW db, NEW new, NEW r \in Run, db[r].status \in Terminal, new[r] = db[r]
  PROVE  Inflated(new, r) = Inflated(db, r)
<1>1. ReportFor(new, r) = ReportFor(db, r) /\ ReceiptLink(new, r) = ReceiptLink(db, r)
  BY DEF ReportFor, ReceiptLink
<1>2. Shown(new, r) = Shown(db, r)
  BY <1>1 DEF Shown, Terminal
<1>3. Inflatable(new, r) <=> Inflatable(db, r)
  BY <1>1 DEF Inflatable
<1> QED
  BY <1>2, <1>3 DEF Inflated

LEMMA StepKeepsJob ==
  ASSUME jobs \in [Job -> JobRow \cup {None}], StoreNext, NEW j \in Job, jobs[j] # None
  PROVE  jobs'[j] = jobs[j]
<1>1. CASE \E k \in Key, q \in Request : CreateReproducibility(k, q)
  BY <1>1 DEF CreateReproducibility
<1>2. CASE jobs' = jobs
  BY <1>2
<1> QED
  BY <1>1, <1>2 DEF StoreNext, Create, ClaimNext, Requeue, Heartbeat, Complete,
     SystemError, RecoverInterruptedRuns

(* The answer for a job that has settled is repeated for ever: its rows    *)
(* are final, and nothing else is in it.                                   *)
THEOREM SettledAlwaysFinal == StoreSpec => SettledIsFinal
<1> DEFINE Final ==
      \A j \in Job :
        jobs[j] # None /\ Settled(Reproduced(rows, jobs[j]))
          => Reproduced(rows', jobs'[j]) = Reproduced(rows, jobs[j])
<1>1. TablesOK(rows, jobs) /\ [StoreNext]_storeVars => [Final]_storeVars
  <2> SUFFICES ASSUME TablesOK(rows, jobs), StoreNext, NEW j \in Job, jobs[j] # None,
                      Settled(Reproduced(rows, jobs[j]))
               PROVE  Reproduced(rows', jobs'[j]) = Reproduced(rows, jobs[j])
    OBVIOUS
  <2> DEFINE b == jobs[j].baseline
             c == jobs[j].candidate
  <2>1. /\ b \in Run /\ c \in Run
        /\ rows[b].status \in Terminal /\ rows[c].status \in Terminal
    BY JobIsReadable, SettledIsConcluded DEF Present
  <2>2. jobs'[j] = jobs[j]
    BY StepKeepsJob DEF TablesOK, Linked
  <2>3. \A r \in Run : rows[r].status \in Terminal => rows'[r] = rows[r]
    BY StoreStep, StepIsFinal DEF TablesOK, InLineOK, QueueOK
  <2>4. rows'[b] = rows[b] /\ rows'[c] = rows[c]
    BY <2>1, <2>3
  <2>5. Inflated(rows', b) = Inflated(rows, b) /\ Inflated(rows', c) = Inflated(rows, c)
    BY <2>1, <2>4, FinalIsShownAgain
  <2> QED
    BY <2>2, <2>4, <2>5 DEF Reproduced
<1>2. StoreSpec => [][Final]_storeVars
  BY <1>1, TablesAlwaysOK, PTL DEF StoreSpec
<1> QED
  BY <1>2 DEF SettledIsFinal

-----------------------------------------------------------------------------
(* The comparison.  The type invariant is inductive and carries what the   *)
(* rest needs of the state: a receipt names its own run, and its run has a *)
(* row.  The rest then follows in every single state from the operators    *)
(* alone; ComparisonsStay is about a step, and needs that no step touches  *)
(* a row or a receipt that exists.                                         *)
LEMMA InitType == ComparisonInit => ComparisonTypeOK
BY DEF ComparisonInit, ComparisonTypeOK

LEMMA CreateType == ASSUME ComparisonTypeOK, NEW r \in ComparedRuns, CreateRow(r) PROVE ComparisonTypeOK'
<1>1. PICK new \in Rows : runRows' = [runRows EXCEPT ![r] = new]
  BY DEF CreateRow
<1>2. runRows' \in [ComparedRuns -> Rows \union {None}] /\ receipts' = receipts
  BY <1>1 DEF CreateRow, ComparisonTypeOK
<1>3. \A s \in ComparedRuns : receipts[s] # None => runRows'[s] = runRows[s]
  BY <1>1 DEF CreateRow, ComparisonTypeOK
<1> QED BY <1>2, <1>3 DEF ComparisonTypeOK

LEMMA IssueType == ASSUME ComparisonTypeOK, NEW r \in ComparedRuns, Issue(r) PROVE ComparisonTypeOK'
<1>1. PICK report \in ComparedReports :
        /\ receipts' = [receipts EXCEPT ![r] = [id |-> r, runId |-> r, report |-> report]]
        /\ IF runRows[r] = None
           THEN runRows' = [runRows EXCEPT ![r] = [subject |-> report.subject, contract |-> None]]
           ELSE runRows[r].subject = report.subject /\ UNCHANGED runRows
  BY DEF Issue
<1>2. report.subject \in Subjects
  BY ReportsAssumption DEF ComparedReportSchema
<1>3. [subject |-> report.subject, contract |-> None] \in Rows
  BY <1>2 DEF Rows
<1>4. [id |-> r, runId |-> r, report |-> report] \in ComparableReceipts
  BY DEF ComparableReceipts
<1>5. receipts' \in [ComparedRuns -> ComparableReceipts \union {None}]
  BY <1>1, <1>4 DEF ComparisonTypeOK
<1>6. /\ runRows' \in [ComparedRuns -> Rows \union {None}]
      /\ runRows'[r] \in Rows /\ runRows'[r].subject = report.subject
      /\ \A s \in ComparedRuns \ {r} : runRows'[s] = runRows[s]
  BY <1>1, <1>3 DEF ComparisonTypeOK
<1>7. /\ receipts'[r].id = r /\ receipts'[r].runId = r /\ receipts'[r].report = report
      /\ \A s \in ComparedRuns \ {r} : receipts'[s] = receipts[s]
  BY <1>1 DEF ComparisonTypeOK
<1>8. ASSUME NEW s \in ComparedRuns, receipts'[s] # None
      PROVE  /\ runRows'[s] # None /\ receipts'[s].id = s /\ receipts'[s].runId = s
             /\ receipts'[s].report.subject = runRows'[s].subject
  <2>1. CASE s = r
    BY <2>1, <1>6, <1>7, NoRowAssumption
  <2>2. CASE s # r
    BY <2>2, <1>6, <1>7, <1>8 DEF ComparisonTypeOK
  <2> QED BY <2>1, <2>2
<1> QED BY <1>5, <1>6, <1>8 DEF ComparisonTypeOK

(* Rows and receipts keep their shapes, and a receipt is of its run's      *)
(* subject, whichever of the two stores wrote first.                       *)
THEOREM ComparisonTypeCorrect == ComparisonSpec => []ComparisonTypeOK
<1>1. ComparisonTypeOK /\ [ComparisonNext]_comparisonVars => ComparisonTypeOK'
  <2> SUFFICES ASSUME ComparisonTypeOK, [ComparisonNext]_comparisonVars PROVE ComparisonTypeOK'
    OBVIOUS
  <2>1. CASE UNCHANGED comparisonVars
    BY <2>1 DEF comparisonVars, ComparisonTypeOK
  <2>2. ASSUME NEW r \in ComparedRuns, CreateRow(r) PROVE ComparisonTypeOK'
    BY <2>2, CreateType
  <2>3. ASSUME NEW r \in ComparedRuns, Issue(r) PROVE ComparisonTypeOK'
    BY <2>3, IssueType
  <2> QED BY <2>1, <2>2, <2>3 DEF ComparisonNext
<1> QED BY InitType, <1>1, PTL DEF ComparisonSpec

-----------------------------------------------------------------------------
(* What a comparison answers, by cases. *)
LEMMA CompareCases ==
  ASSUME ComparisonTypeOK, NEW b \in ComparedRuns, NEW c \in ComparedRuns
  PROVE  LET reasons == CompatibilityReasons(receipts[b].report, receipts[c].report,
                                             runRows[b].contract, runRows[c].contract)
             response == Response(receipts[b], receipts[c])
         IN  Compare(b, c) =
               IF receipts[b] = None \/ receipts[c] = None THEN ComparisonAnswer(404, {}, None)
               ELSE IF reasons # {} THEN ComparisonAnswer(422, reasons, None)
               ELSE IF ComparisonResponseSchema(response) THEN ComparisonAnswer(200, {}, response)
               ELSE ComparisonAnswer(500, {}, None)
<1>1. CASE receipts[b] = None \/ receipts[c] = None
  BY <1>1 DEF Compare, Resolve
<1>2. CASE receipts[b] # None /\ receipts[c] # None
  <2>1. receipts[b].runId = b /\ receipts[c].runId = c
    BY <1>2 DEF ComparisonTypeOK
  <2>2. Compare(b, c) = CompareVerifiedReceipts(receipts[b], receipts[c])
    BY <1>2 DEF Compare, Resolve
  <2> QED BY <1>2, <2>1, <2>2 DEF CompareVerifiedReceipts
<1> QED BY <1>1, <1>2

(* No reason is left exactly when all that the reasons are about agrees. *)
LEMMA NoReasons ==
  ASSUME NEW left, NEW right, NEW leftContract, NEW rightContract
  PROVE  CompatibilityReasons(left, right, leftContract, rightContract) = {}
           <=> /\ left.subject.repository = right.subject.repository
               /\ ContractCompatibilityProjection(leftContract)
                    = ContractCompatibilityProjection(rightContract)
               /\ left.subject.skill = right.subject.skill
               /\ left.runtime = right.runtime
BY DEF CompatibilityReasons, Flag

LEMMA ReceiptShape ==
  ASSUME ComparisonTypeOK, NEW r \in ComparedRuns, receipts[r] # None
  PROVE  /\ receipts[r].id = r /\ receipts[r].runId = r
         /\ receipts[r].report \in ComparedReports
         /\ ComparedReportSchema(receipts[r].report)
         /\ receipts[r].report.subject \in Subjects
<1>1. receipts[r] \in ComparableReceipts /\ receipts[r].id = r /\ receipts[r].runId = r
  BY DEF ComparisonTypeOK
<1>2. receipts[r].report \in ComparedReports
  BY <1>1 DEF ComparableReceipts
<1>3. ComparedReportSchema(receipts[r].report)
  BY <1>2, ReportsAssumption
<1> QED BY <1>1, <1>2, <1>3 DEF ComparedReportSchema

LEMMA CompatibleIsValid ==
  ASSUME ComparisonTypeOK, NEW b \in ComparedRuns, NEW c \in ComparedRuns,
         receipts[b] # None, receipts[c] # None,
         CompatibilityReasons(receipts[b].report, receipts[c].report,
                              runRows[b].contract, runRows[c].contract) = {}
  PROVE  ComparisonResponseSchema(Response(receipts[b], receipts[c]))
<1> DEFINE left == receipts[b].report
           right == receipts[c].report
           response == Response(receipts[b], receipts[c])
<1>1. /\ receipts[b].id = b /\ receipts[b].runId = b /\ left.subject \in Subjects
      /\ receipts[c].id = c /\ receipts[c].runId = c /\ right.subject \in Subjects
  BY ReceiptShape
<1>2. /\ left.subject.repository = right.subject.repository
      /\ left.subject.skill = right.subject.skill /\ left.runtime = right.runtime
  BY NoReasons
<1>3. left.subject = right.subject
  <2>1. /\ left.subject = [repository |-> left.subject.repository, skill |-> left.subject.skill]
        /\ right.subject = [repository |-> right.subject.repository, skill |-> right.subject.skill]
    BY <1>1, SubjectsAssumption
  <2> QED BY <2>1, <1>2
<1>4. /\ response.baseline = Side(receipts[b]) /\ response.candidate = Side(receipts[c])
      /\ response.compatibility.subject = left.subject
      /\ response.compatibility.runtime = left.runtime
  BY DEF Response, Compatibility
<1>5. ASSUME NEW r \in {b, c}
      PROVE  LET side == Side(receipts[r])
             IN  /\ side.runId = side.receipt.runId /\ side.receipt.id = side.runId
                 /\ side.verdict = side.receipt.report.verdict
                 /\ response.compatibility.subject = side.receipt.report.subject
                 /\ response.compatibility.runtime = side.receipt.report.runtime
  BY <1>1, <1>2, <1>3, <1>4 DEF Side
<1> HIDE DEF response
<1>6. ASSUME NEW side \in {response.baseline, response.candidate}
      PROVE  /\ side.runId = side.receipt.runId /\ side.receipt.id = side.runId
             /\ side.verdict = side.receipt.report.verdict
             /\ response.compatibility.subject = side.receipt.report.subject
             /\ response.compatibility.runtime = side.receipt.report.runtime
  <2>1. PICK r \in {b, c} : side = Side(receipts[r])
    BY <1>4
  <2> QED BY <2>1, <1>5
<1>7. ComparisonResponseSchema(response)
  BY <1>6, Zenon DEF ComparisonResponseSchema
<1> QED BY <1>7 DEF response

(* Compatible receipts never make a response that its schema refuses.      *)
THEOREM AnswersAlwaysValid == ComparisonSpec => []AnswersAreValid
<1>1. ComparisonTypeOK => AnswersAreValid
  <2> SUFFICES ASSUME ComparisonTypeOK, NEW b \in ComparedRuns, NEW c \in ComparedRuns
               PROVE  Compare(b, c).status # 500
    BY DEF AnswersAreValid
  <2> QED BY CompareCases, CompatibleIsValid DEF ComparisonAnswer
<1> QED BY ComparisonTypeCorrect, <1>1, PTL

(* The status of a comparison depends on the receipts and contracts only.  *)
LEMMA StatusCases ==
  ASSUME ComparisonTypeOK, NEW b \in ComparedRuns, NEW c \in ComparedRuns
  PROVE  LET reasons == CompatibilityReasons(receipts[b].report, receipts[c].report,
                                             runRows[b].contract, runRows[c].contract)
         IN  /\ receipts[b] = None \/ receipts[c] = None
                  => Compare(b, c) = ComparisonAnswer(404, {}, None)
             /\ receipts[b] # None /\ receipts[c] # None /\ reasons # {}
                  => Compare(b, c) = ComparisonAnswer(422, reasons, None)
             /\ receipts[b] # None /\ receipts[c] # None /\ reasons = {}
                  => Compare(b, c) = ComparisonAnswer(200, {}, Response(receipts[b], receipts[c]))
BY CompareCases, CompatibleIsValid

(* What is comparable with one run in the middle is comparable.            *)
THEOREM ChainsAlwaysComparable == ComparisonSpec => []ChainsAreComparable
<1>1. ComparisonTypeOK => ChainsAreComparable
  <2> SUFFICES ASSUME ComparisonTypeOK, NEW a \in ComparedRuns, NEW b \in ComparedRuns, NEW c \in ComparedRuns,
                      Compare(a, b).status = 200, Compare(b, c).status = 200
               PROVE  Compare(a, c).status = 200
    BY DEF ChainsAreComparable
  <2> DEFINE R(x, y) == CompatibilityReasons(receipts[x].report, receipts[y].report,
                                             runRows[x].contract, runRows[y].contract)
  <2>1. receipts[a] # None /\ receipts[b] # None /\ R(a, b) = {}
    BY StatusCases DEF ComparisonAnswer
  <2>2. receipts[c] # None /\ R(b, c) = {}
    BY StatusCases DEF ComparisonAnswer
  <2>3. R(a, c) = {}
    BY <2>1, <2>2, NoReasons
  <2> QED BY <2>1, <2>2, <2>3, StatusCases DEF ComparisonAnswer
<1> QED BY ComparisonTypeCorrect, <1>1, PTL

-----------------------------------------------------------------------------
LEMMA ReasonsMirror ==
  ASSUME NEW left, NEW right, NEW leftContract, NEW rightContract
  PROVE  CompatibilityReasons(left, right, leftContract, rightContract)
           = CompatibilityReasons(right, left, rightContract, leftContract)
BY DEF CompatibilityReasons, Flag

LEMMA OutcomesOfReport ==
  ASSUME NEW report, ComparedReportSchema(report), NEW id
  PROVE  /\ id \in DOMAIN report.checks
              => OutcomeOf(report, id) \in CheckOutcome /\ OutcomeOf(report, id) # None
         /\ id \notin DOMAIN report.checks => OutcomeOf(report, id) = None
BY NoneAssumption DEF ComparedReportSchema, OutcomeOf

LEMMA ClassificationMirrors ==
  ASSUME NEW left, NEW right, left # None \/ right # None
  PROVE  Classification(right, left) = Mirror(Classification(left, right))
BY DEF Classification, Mirror, IsNonPassing

LEMMA ChecksMirror ==
  ASSUME NEW left, NEW right,
         ComparedReportSchema(left), ComparedReportSchema(right)
  PROVE  LET forth == CompareChecks(left, right)
             back == CompareChecks(right, left)
         IN  /\ DOMAIN forth = DOMAIN back
             /\ \A id \in DOMAIN forth :
                  /\ back[id].classification = Mirror(forth[id].classification)
                  /\ SetDrift(back[id]) <=> SetDrift(forth[id])
                  /\ OutcomeDrift(back[id]) <=> OutcomeDrift(forth[id])
<1> DEFINE forth == CompareChecks(left, right)
           back == CompareChecks(right, left)
<1>1. DOMAIN forth = DOMAIN left.checks \union DOMAIN right.checks /\ DOMAIN back = DOMAIN forth
  BY DEF CompareChecks
<1>2. ASSUME NEW id \in DOMAIN forth
      PROVE  /\ back[id].classification = Mirror(forth[id].classification)
             /\ SetDrift(back[id]) <=> SetDrift(forth[id])
             /\ OutcomeDrift(back[id]) <=> OutcomeDrift(forth[id])
  <2> DEFINE l == OutcomeOf(left, id)
             r == OutcomeOf(right, id)
  <2>1. l # None \/ r # None
    BY <1>1, <1>2, OutcomesOfReport
  <2>2. /\ forth[id].classification = Classification(l, r)
        /\ forth[id].baselineOutcome = l /\ forth[id].candidateOutcome = r
        /\ back[id].classification = Classification(r, l)
        /\ back[id].baselineOutcome = r /\ back[id].candidateOutcome = l
    BY <1>1, <1>2 DEF CompareChecks
  <2> HIDE DEF l, r, forth, back
  <2>3. back[id].classification = Mirror(forth[id].classification)
    BY <2>1, <2>2, ClassificationMirrors
  <2>4. SetDrift(back[id]) <=> SetDrift(forth[id])
    BY <2>1, <2>2 DEF SetDrift, Classification
  <2>5. OutcomeDrift(back[id]) <=> OutcomeDrift(forth[id])
    BY <2>2 DEF OutcomeDrift
  <2> QED BY <2>3, <2>4, <2>5
<1> QED BY <1>1, <1>2

LEMMA LabelsMirror ==
  ASSUME NEW left, NEW right,
         ComparedReportSchema(left), ComparedReportSchema(right)
  PROVE  DriftLabels(left, right, CompareChecks(left, right))
           = DriftLabels(right, left, CompareChecks(right, left))
<1> DEFINE forth == CompareChecks(left, right)
           back == CompareChecks(right, left)
<1>1. /\ DOMAIN forth = DOMAIN back
      /\ \A id \in DOMAIN forth : /\ SetDrift(back[id]) <=> SetDrift(forth[id])
                                  /\ OutcomeDrift(back[id]) <=> OutcomeDrift(forth[id])
  BY ChecksMirror
<1> HIDE DEF forth, back
<1>2. (\E id \in DOMAIN forth : SetDrift(forth[id])) <=> (\E id \in DOMAIN back : SetDrift(back[id]))
  BY <1>1
<1>3. (\E id \in DOMAIN forth : OutcomeDrift(forth[id]))
        <=> (\E id \in DOMAIN back : OutcomeDrift(back[id]))
  BY <1>1
<1>4. DriftLabels(left, right, forth) = DriftLabels(right, left, back)
  BY <1>2, <1>3 DEF DriftLabels, Flag
<1> QED BY <1>4 DEF forth, back

(* A comparison read backwards mirrors itself.                             *)
THEOREM SwappingAlwaysMirrors == ComparisonSpec => []SwappingMirrors
<1>1. ComparisonTypeOK => SwappingMirrors
  <2> SUFFICES ASSUME ComparisonTypeOK, NEW b \in ComparedRuns, NEW c \in ComparedRuns
               PROVE  LET forth == Compare(b, c)
                          back == Compare(c, b)
                      IN  /\ forth.status = back.status /\ forth.reasons = back.reasons
                          /\ forth.status = 200 =>
                               /\ forth.response.driftLabels = back.response.driftLabels
                               /\ DOMAIN forth.response.checks = DOMAIN back.response.checks
                               /\ \A id \in DOMAIN forth.response.checks :
                                    back.response.checks[id].classification
                                      = Mirror(forth.response.checks[id].classification)
    BY DEF SwappingMirrors
  <2> DEFINE R(x, y) == CompatibilityReasons(receipts[x].report, receipts[y].report,
                                             runRows[x].contract, runRows[y].contract)
  <2>1. R(b, c) = R(c, b)
    BY ReasonsMirror
  <2>2. CASE receipts[b] = None \/ receipts[c] = None
    <3>1. Compare(b, c) = ComparisonAnswer(404, {}, None) /\ Compare(c, b) = ComparisonAnswer(404, {}, None)
      BY <2>2, StatusCases
    <3> HIDE DEF R
    <3> QED BY <3>1 DEF ComparisonAnswer
  <2>3. CASE receipts[b] # None /\ receipts[c] # None /\ R(b, c) # {}
    <3>1. Compare(b, c) = ComparisonAnswer(422, R(b, c), None)
      BY <2>3, StatusCases
    <3>2. Compare(c, b) = ComparisonAnswer(422, R(c, b), None)
      <4>1. R(c, b) # {}
        BY <2>1, <2>3
      <4> QED BY <4>1, <2>3, StatusCases
    <3> HIDE DEF R
    <3> QED BY <2>1, <3>1, <3>2 DEF ComparisonAnswer
  <2>4. CASE receipts[b] # None /\ receipts[c] # None /\ R(b, c) = {}
    <3> DEFINE left == receipts[b].report
               right == receipts[c].report
    <3>1. ComparedReportSchema(left) /\ ComparedReportSchema(right)
      BY <2>4, ReceiptShape
    <3>2. /\ Compare(b, c) = ComparisonAnswer(200, {}, Response(receipts[b], receipts[c]))
          /\ Compare(c, b) = ComparisonAnswer(200, {}, Response(receipts[c], receipts[b]))
      <4>1. R(c, b) = {}
        BY <2>1, <2>4
      <4> QED BY <4>1, <2>4, StatusCases
    <3>3. /\ Response(receipts[b], receipts[c]).checks = CompareChecks(left, right)
          /\ Response(receipts[c], receipts[b]).checks = CompareChecks(right, left)
          /\ Response(receipts[b], receipts[c]).driftLabels
               = DriftLabels(left, right, CompareChecks(left, right))
          /\ Response(receipts[c], receipts[b]).driftLabels
               = DriftLabels(right, left, CompareChecks(right, left))
      BY DEF Response
    <3> HIDE DEF left, right
    <3>4. DriftLabels(left, right, CompareChecks(left, right))
            = DriftLabels(right, left, CompareChecks(right, left))
      BY <3>1, LabelsMirror
    <3>5. /\ DOMAIN CompareChecks(left, right) = DOMAIN CompareChecks(right, left)
          /\ \A id \in DOMAIN CompareChecks(left, right) :
               CompareChecks(right, left)[id].classification
                 = Mirror(CompareChecks(left, right)[id].classification)
      BY <3>1, ChecksMirror
    <3> QED BY <3>2, <3>3, <3>4, <3>5 DEF ComparisonAnswer
  <2> QED BY <2>2, <2>3, <2>4
<1> QED BY ComparisonTypeCorrect, <1>1, PTL

-----------------------------------------------------------------------------
(* With the same outcome for every check, two reports pass together.       *)
LEMMA SameChecksSamePass ==
  ASSUME NEW left, NEW right,
         ComparedReportSchema(left), ComparedReportSchema(right),
         \A id \in DOMAIN CompareChecks(left, right) :
           ~SetDrift(CompareChecks(left, right)[id]) /\ ~OutcomeDrift(CompareChecks(left, right)[id]),
         left.verdict = "PASS"
  PROVE  right.verdict = "PASS"
<1> DEFINE checks == CompareChecks(left, right)
<1>1. ASSUME NEW id \in DOMAIN right.checks
      PROVE  right.checks[id] \in {"PASSED", "SKIPPED"}
  <2> DEFINE l == OutcomeOf(left, id)
             r == OutcomeOf(right, id)
  <2>1. /\ id \in DOMAIN checks
        /\ checks[id].classification = Classification(l, r)
        /\ checks[id].baselineOutcome = l /\ checks[id].candidateOutcome = r
    BY DEF CompareChecks
  <2>2. r = right.checks[id] /\ r # None
    BY OutcomesOfReport DEF OutcomeOf
  <2>3. l # None
    BY <2>1 DEF SetDrift, Classification
  <2>4. id \in DOMAIN left.checks /\ l = left.checks[id]
    BY <2>3 DEF OutcomeOf
  <2>5. l = r
    BY <2>1, <2>2, <2>3 DEF OutcomeDrift
  <2>6. left.checks[id] \in {"PASSED", "SKIPPED"}
    BY <2>4 DEF ComparedReportSchema
  <2> QED BY <2>2, <2>4, <2>5, <2>6
<1>2. right.verdict # "FAIL" /\ right.verdict # "INCONCLUSIVE"
  BY <1>1 DEF ComparedReportSchema
<1> QED BY <1>2 DEF ComparedReportSchema, PublicVerdict

(* No verdict turns to or from PASS without a check that shows it.         *)
THEOREM VerdictDriftAlwaysExplained == ComparisonSpec => []VerdictDriftIsExplained
<1>1. ComparisonTypeOK => VerdictDriftIsExplained
  <2> SUFFICES ASSUME ComparisonTypeOK, NEW b \in ComparedRuns, NEW c \in ComparedRuns,
                      Compare(b, c).status = 200,
                      Compare(b, c).response.baseline.verdict
                        # Compare(b, c).response.candidate.verdict,
                      "PASS" \in {Compare(b, c).response.baseline.verdict,
                                  Compare(b, c).response.candidate.verdict}
               PROVE  Compare(b, c).response.driftLabels
                        \intersect {"CHECK_SET_DRIFT", "CHECK_OUTCOME_DRIFT"} # {}
    BY DEF VerdictDriftIsExplained
  <2> DEFINE left == receipts[b].report
             right == receipts[c].report
             checks == CompareChecks(left, right)
  <2>1. /\ receipts[b] # None /\ receipts[c] # None
        /\ Compare(b, c).response = Response(receipts[b], receipts[c])
    BY StatusCases DEF ComparisonAnswer
  <2>2. ComparedReportSchema(left) /\ ComparedReportSchema(right)
    BY <2>1, ReceiptShape
  <2>3. /\ Compare(b, c).response.baseline.verdict = left.verdict
        /\ Compare(b, c).response.candidate.verdict = right.verdict
        /\ Compare(b, c).response.driftLabels = DriftLabels(left, right, checks)
    BY <2>1 DEF Response, Side
  <2> HIDE DEF left, right
  <2>4. left.verdict # right.verdict /\ "PASS" \in {left.verdict, right.verdict}
    BY <2>3
  <2>5. \E id \in DOMAIN checks : SetDrift(checks[id]) \/ OutcomeDrift(checks[id])
    <3>1. CASE left.verdict = "PASS"
      BY <2>2, <2>4, <3>1, SameChecksSamePass
    <3>2. CASE right.verdict = "PASS"
      <4>1. \E id \in DOMAIN CompareChecks(right, left) :
              SetDrift(CompareChecks(right, left)[id]) \/ OutcomeDrift(CompareChecks(right, left)[id])
        BY <2>2, <2>4, <3>2, SameChecksSamePass
      <4> QED BY <4>1, <2>2, ChecksMirror
    <3> QED BY <2>4, <3>1, <3>2
  <2> HIDE DEF checks
  <2>6. "CHECK_SET_DRIFT" \in DriftLabels(left, right, checks)
          \/ "CHECK_OUTCOME_DRIFT" \in DriftLabels(left, right, checks)
    BY <2>5 DEF DriftLabels, Flag
  <2> QED BY <2>3, <2>6
<1> QED BY ComparisonTypeCorrect, <1>1, PTL

-----------------------------------------------------------------------------
(* A comparison that has been given is given again.                        *)
THEOREM ComparisonsAlwaysStay == ComparisonSpec => ComparisonsStay
<1>1. ComparisonTypeOK /\ ComparisonTypeOK' /\ [ComparisonNext]_comparisonVars
        => [\A b, c \in ComparedRuns : Compare(b, c).status # 404 => Compare(b, c)' = Compare(b, c)]_comparisonVars
  <2> SUFFICES ASSUME ComparisonTypeOK, ComparisonTypeOK', ComparisonNext, NEW b \in ComparedRuns, NEW c \in ComparedRuns,
                      Compare(b, c).status # 404
               PROVE  Compare(b, c)' = Compare(b, c)
    OBVIOUS
  <2>1. receipts[b] # None /\ receipts[c] # None
    BY StatusCases DEF ComparisonAnswer
  <2>2. runRows[b] # None /\ runRows[c] # None /\ receipts[b].runId = b /\ receipts[c].runId = c
    BY <2>1 DEF ComparisonTypeOK
  <2>3. /\ runRows'[b] = runRows[b] /\ runRows'[c] = runRows[c]
        /\ receipts'[b] = receipts[b] /\ receipts'[c] = receipts[c]
    <3>1. PICK r \in ComparedRuns : CreateRow(r) \/ Issue(r)
      BY DEF ComparisonNext
    <3>2. CASE CreateRow(r)
      BY <2>2, <3>2 DEF CreateRow, ComparisonTypeOK
    <3>3. CASE Issue(r)
      BY <2>1, <2>2, <3>3 DEF Issue, ComparisonTypeOK
    <3> QED BY <3>1, <3>2, <3>3
  <2>4. Response(receipts[b], receipts[c])' = Response(receipts[b], receipts[c])
    BY <2>2, <2>3 DEF Response
  <2> QED BY <2>1, <2>2, <2>3, <2>4 DEF Compare, Resolve, CompareVerifiedReceipts
<1> QED BY ComparisonTypeCorrect, <1>1, PTL DEF ComparisonSpec, ComparisonsStay

(* Comparisons are sound for any runs, subjects, contracts and reports. *)
THEOREM ComparisonsAlwaysSound == ComparisonSpec => []ComparisonsAreSound
<1>1. AnswersAreValid /\ SwappingMirrors /\ ChainsAreComparable /\ VerdictDriftIsExplained => ComparisonsAreSound
  BY DEF ComparisonsAreSound
<1> QED
  BY <1>1, AnswersAlwaysValid, SwappingAlwaysMirrors, ChainsAlwaysComparable, VerdictDriftAlwaysExplained, PTL

(* What has been told of a job that has ended and of two compared runs is  *)
(* told again for ever, whatever happens to the tables behind it.          *)
THEOREM ShownAlwaysFinal == StoreSpec /\ ComparisonSpec => ShownIsFinal
BY SettledAlwaysFinal, ComparisonsAlwaysStay DEF ShownIsFinal
===============================================================================
