---------------------------- MODULE ZipArchiveProofs ----------------------------
(***************************************************************************)
(* The reader of archives and their writer agree, for any paths and data,  *)
(* any limits and any damage.                                              *)
(*                                                                         *)
(* Both are loops, defined as recursive functions of the number of steps.  *)
(* What is true of every step is proved by the least step of which it is   *)
(* not (UpTo), and that such a function has the values its definition      *)
(* demands by building the list of its first n states (LoopRuns).  Parts   *)
(* are never empty, so that an offset is that of one part only (EndsGrow), *)
(* and what the reader finds at an offset is the part that lies there.     *)
(* Then a step of the reader and a step of the writer keep what they have  *)
(* done the same (Follows): if the writer has written the next entry, the  *)
(* reader reads it (ReadOne), and if the reader accepts an entry, it is    *)
(* what the writer would have written there (AcceptOne).                   *)
(***************************************************************************)
EXTENDS ZipArchive, SequenceTheorems, WellFoundedInduction, TLAPS

(* A set of numbers has a least one. *)
LEMMA FirstMatch ==
  ASSUME NEW matching \in SUBSET Nat, matching # {}
  PROVE  Min(matching) \in matching /\ \A k \in matching : Min(matching) <= k
<1>1. PICK first \in matching : \A k \in matching : <<k, first>> \notin OpToRel(<, Nat)
  BY WFMin, NatLessThanWellFounded
<1>2. \A k \in matching : ~(k < first)
  BY <1>1 DEF OpToRel
<1>3. \A k \in matching : first =< k
  BY <1>2
<1> QED
  BY <1>1, <1>3 DEF Min

(* Induction over the positions of a list, by its least counterexample. *)
LEMMA UpTo ==
  ASSUME NEW n \in Nat, NEW good \in SUBSET (0..n), 0 \in good,
         \A k \in 1..n : k - 1 \in good => k \in good
  PROVE  good = 0..n
<1> SUFFICES ASSUME good # 0..n PROVE FALSE
  OBVIOUS
<1> DEFINE bad == (0..n) \ good
<1>1. bad # {} /\ bad \in SUBSET Nat
  <2>1. bad = {} => \A k \in 0..n : k \in good
    OBVIOUS
  <2>2. \A k \in good : k \in 0..n
    OBVIOUS
  <2>3. bad # {}
    BY <2>1, <2>2, Zenon
  <2> QED
    BY <2>3
<1> HIDE DEF bad
<1>2. Min(bad) \in bad /\ \A k \in bad : Min(bad) <= k
  BY <1>1, FirstMatch
<1> DEFINE least == Min(bad)
<1>3. least \in 1..n /\ least \notin good
  BY <1>2 DEF bad
<1> HIDE DEF least
<1>4. least - 1 \in 0..n /\ ~(least <= least - 1)
  BY <1>3
<1>5. least - 1 \notin bad
  BY <1>2, <1>4 DEF least
<1>6. least - 1 \in good
  BY <1>4, <1>5 DEF bad
<1> QED
  BY <1>3, <1>6

(* A loop of n steps has a list of states. *)
IsLoop(state, n, S, step, start) ==
  /\ state \in [0..n -> S] /\ state[0] = start
  /\ \A k \in 1..n : state[k] = step[<<k, state[k - 1]>>]

LEMMA LoopRuns ==
  ASSUME NEW n \in Nat, NEW S, NEW step \in [(1..n) \X S -> S], NEW start \in S
  PROVE  \E state : IsLoop(state, n, S, step, start)
<1> DEFINE good == {m \in 0..n : \E state : IsLoop(state, m, S, step, start)}
<1>1. 0 \in good
  <2>1. IsLoop([k \in 0..0 |-> start], 0, S, step, start)
    BY DEF IsLoop
  <2> QED
    BY <2>1
<1>2. ASSUME NEW m \in 1..n, m - 1 \in good PROVE m \in good
  <2>1. PICK state : IsLoop(state, m - 1, S, step, start)
    BY <1>2
  <2> DEFINE next == [k \in 0..m |-> IF k = m THEN step[<<m, state[m - 1]>>] ELSE state[k]]
  <2>2. state[m - 1] \in S /\ step[<<m, state[m - 1]>>] \in S
    BY <2>1 DEF IsLoop
  <2>3. next \in [0..m -> S]
    BY <2>1, <2>2 DEF IsLoop
  <2>4. next[0] = start
    BY <2>1 DEF IsLoop
  <2>5. ASSUME NEW k \in 1..m PROVE next[k] = step[<<k, next[k - 1]>>]
    <3>1. k - 1 \in 0..m /\ k - 1 # m /\ next[k - 1] = state[k - 1]
      OBVIOUS
    <3>2. CASE k = m
      BY <3>1, <3>2
    <3>3. CASE k # m
      BY <2>1, <3>1, <3>3 DEF IsLoop
    <3> QED
      BY <3>2, <3>3
  <2> HIDE DEF next
  <2>6. IsLoop(next, m, S, step, start)
    BY <2>3, <2>4, <2>5 DEF IsLoop
  <2> QED
    BY <2>6
<1> HIDE DEF good
<1>3. good \in SUBSET (0..n)
  BY DEF good
<1>4. good = 0..n
  BY <1>1, <1>2, <1>3, UpTo
<1> QED
  BY <1>4 DEF good

-----------------------------------------------------------------------------
(* The parts of an archive, damaged or not. *)
LocalPart == [kind : {"local"}, path : Paths, plain : BOOLEAN, crc : Data, bytes : Nat]
CentralPart == [kind : {"central"}, path : Paths, plain : BOOLEAN, crc : Data, bytes : Nat, offset : Nat]
EndPart == [kind : {"end"}, plain : BOOLEAN, onDisk : Nat, count : Nat, size : Int, offset : Nat]
DataPart == [kind : {"data"}, data : {d \in Data : DataLength(d) > 0}]
ForeignPart == [kind : {"foreign"}]
Part == LocalPart \union CentralPart \union EndPart \union DataPart \union ForeignPart

(* Every part has at least one byte. *)
LEMMA PartLength ==
  ASSUME NEW part \in Part
  PROVE  Length(part) \in Nat /\ Length(part) > 0
<1> USE ZipArchiveAssumption
<1>1. CASE part \in LocalPart
  BY <1>1 DEF LocalPart, Length
<1>2. CASE part \in CentralPart
  BY <1>2 DEF CentralPart, Length
<1>3. CASE part \in EndPart
  BY <1>3 DEF EndPart, Length
<1>4. CASE part \in DataPart
  BY <1>4 DEF DataPart, Length
<1>5. CASE part \in ForeignPart
  BY <1>5 DEF ForeignPart, Length
<1> QED
  BY <1>1, <1>2, <1>3, <1>4, <1>5 DEF Part

(* What the definition of Ends demands of its values, which it has. *)
EndsOK(at, parts) ==
  /\ at \in [0..Len(parts) -> Nat] /\ at[0] = 0
  /\ \A k \in 1..Len(parts) : at[k] = at[k - 1] + Length(parts[k])

LEMMA EndsAre ==
  ASSUME NEW parts \in Seq(Part)
  PROVE  EndsOK(Ends(parts), parts)
<1> DEFINE n == Len(parts)
           step == [x \in (1..n) \X Nat |-> x[2] + Length(parts[x[1]])]
<1>1. n \in Nat /\ \A k \in 1..n : Length(parts[k]) \in Nat
  BY PartLength
<1>2. step \in [(1..n) \X Nat -> Nat]
  BY <1>1
<1> HIDE DEF step
<1>3. PICK at : IsLoop(at, n, Nat, step, 0)
  BY <1>1, <1>2, LoopRuns
<1>4. \A k \in 1..n : at[k] = at[k - 1] + Length(parts[k])
  <2> SUFFICES ASSUME NEW k \in 1..n PROVE at[k] = at[k - 1] + Length(parts[k])
    OBVIOUS
  <2>1. k - 1 \in 0..n
    BY <1>1
  <2>2. at[k - 1] \in Nat
    BY <1>3, <2>1 DEF IsLoop
  <2>3. at[k] = step[<<k, at[k - 1]>>]
    BY <1>3 DEF IsLoop
  <2> QED
    BY <1>1, <2>2, <2>3 DEF step
<1>5. at = [k \in 0..n |-> IF k = 0 THEN 0 ELSE at[k - 1] + Length(parts[k])]
  BY <1>3, <1>4 DEF IsLoop
<1> DEFINE g == Ends(parts)
<1>6. g = [k \in 0..n |-> IF k = 0 THEN 0 ELSE g[k - 1] + Length(parts[k])]
  BY <1>5 DEF Ends
<1> HIDE DEF g
<1> DEFINE good == {k \in 0..n : g[k] = at[k]}
<1>7. 0 \in good
  BY <1>3, <1>6 DEF IsLoop
<1>8. \A k \in 1..n : k - 1 \in good => k \in good
  BY <1>4, <1>6
<1>9. good = 0..n
  <2> HIDE DEF good
  <2> QED
    BY <1>1, <1>7, <1>8, UpTo DEF good
<1>10. g = at
  BY <1>5, <1>6, <1>9
<1> QED
  BY <1>3, <1>4, <1>10 DEF IsLoop, EndsOK, g

(* No two parts start at the same offset. *)
LEMMA EndsGrow ==
  ASSUME NEW parts \in Seq(Part), NEW at, EndsOK(at, parts)
  PROVE  \A j, k \in 0..Len(parts) : j < k => at[j] < at[k]
<1> DEFINE n == Len(parts)
           good == {k \in 0..n : \A j \in 0..n : j < k => at[j] < at[k]}
<1>1. n \in Nat /\ 0 \in good
  OBVIOUS
<1>2. ASSUME NEW k \in 1..n, k - 1 \in good PROVE k \in good
  <2> SUFFICES ASSUME NEW j \in 0..n, j < k PROVE at[j] < at[k]
    OBVIOUS
  <2>1. Length(parts[k]) \in Nat /\ Length(parts[k]) > 0
    BY PartLength
  <2>2. k - 1 \in 0..n
    BY <1>1
  <2>3. at[k - 1] \in Nat /\ at[j] \in Nat /\ at[k] = at[k - 1] + Length(parts[k])
    BY <2>2 DEF EndsOK
  <2>4. j = k - 1 \/ at[j] < at[k - 1]
    <3>1. j = k - 1 \/ j < k - 1
      BY <1>1
    <3> QED
      BY <1>2, <3>1
  <2> QED
    BY <2>1, <2>3, <2>4
<1>3. good = 0..n
  <2> HIDE DEF good, n
  <2>1. good \in SUBSET (0..n)
    BY DEF good
  <2> QED
    BY <1>1, <1>2, <2>1, UpTo
<1> QED
  BY <1>3

(* A part is found where it starts, and nothing else is. *)
LEMMA PartFound ==
  ASSUME NEW parts \in Seq(Part), NEW offset, NEW kind
  PROVE  \/ /\ PartAt(parts, offset, kind) = Nothing
            /\ \A k \in 1..Len(parts) : ~(Ends(parts)[k - 1] = offset /\ parts[k].kind = kind)
         \/ \E k \in 1..Len(parts) :
              /\ Ends(parts)[k - 1] = offset /\ parts[k].kind = kind
              /\ PartAt(parts, offset, kind) = parts[k]
<1> DEFINE at == Ends(parts)
           found == {k \in DOMAIN parts : at[k - 1] = offset /\ parts[k].kind = kind}
<1>1. DOMAIN parts = 1..Len(parts) /\ found \in SUBSET Nat
  OBVIOUS
<1>2. CASE found = {}
  BY <1>1, <1>2 DEF PartAt
<1>3. CASE found # {}
  <2>1. Min(found) \in found
    <3> HIDE DEF found
    <3> QED
      BY <1>1, <1>3, FirstMatch
  <2>2. PartAt(parts, offset, kind) = parts[Min(found)]
    BY <1>3 DEF PartAt
  <2> QED
    BY <1>1, <2>1, <2>2
<1> QED
  BY <1>2, <1>3

(* A part that starts at an offset is the one found there. *)
LEMMA FoundThere ==
  ASSUME NEW parts \in Seq(Part), NEW at, EndsOK(at, parts), at = Ends(parts),
         NEW k \in 1..Len(parts), NEW offset, at[k - 1] = offset,
         NEW kind, parts[k].kind = kind
  PROVE  PartAt(parts, offset, kind) = parts[k]
<1>1. PICK j \in 1..Len(parts) : at[j - 1] = offset /\ PartAt(parts, offset, kind) = parts[j]
  BY PartFound
<1>2. j - 1 \in 0..Len(parts) /\ k - 1 \in 0..Len(parts)
  OBVIOUS
<1>3. at[j - 1] \in Nat /\ at[k - 1] \in Nat
  BY <1>2 DEF EndsOK
<1>4. ~(j - 1 < k - 1) /\ ~(k - 1 < j - 1)
  BY <1>1, <1>2, <1>3, EndsGrow
<1> QED
  BY <1>1, <1>2, <1>4

(* Where two archives have the same parts, they are equally long. *)
SameParts(p, i, q, j, m) ==
  i + m <= Len(p) /\ j + m <= Len(q) /\ \A k \in 1..m : p[i + k] = q[j + k]
SameDistance(a, i, b, j, m) == \A k \in 0..m : a[i + k] - a[i] = b[j + k] - b[j]

LEMMA SameLength ==
  ASSUME NEW p \in Seq(Part), NEW q \in Seq(Part), NEW a, EndsOK(a, p), NEW b, EndsOK(b, q),
         NEW i \in Nat, NEW j \in Nat, NEW m \in Nat, SameParts(p, i, q, j, m)
  PROVE  SameDistance(a, i, b, j, m)
<1>0. i + m <= Len(p) /\ j + m <= Len(q) /\ \A k \in 1..m : p[i + k] = q[j + k]
  BY DEF SameParts
<1> DEFINE good == {k \in 0..m : a[i + k] - a[i] = b[j + k] - b[j]}
<1>1. \A k \in 0..Len(p) : a[k] \in Nat
  BY DEF EndsOK
<1>2. \A k \in 0..Len(q) : b[k] \in Nat
  BY DEF EndsOK
<1>3. 0 \in good
  <2>1. i \in 0..Len(p) /\ j \in 0..Len(q) /\ i + 0 = i /\ j + 0 = j /\ 0 \in 0..m
    BY <1>0
  <2>2. a[i] \in Nat /\ b[j] \in Nat
    BY <1>1, <1>2, <2>1
  <2>3. \A x, y \in Nat : x - x = y - y
    OBVIOUS
  <2>4. a[i] - a[i] = b[j] - b[j]
    BY <2>2, <2>3
  <2> QED
    BY <2>1, <2>4
<1>4. ASSUME NEW k \in 1..m, k - 1 \in good PROVE k \in good
  <2> DEFINE u == i + k
             v == j + k
  <2>1. u \in 1..Len(p) /\ v \in 1..Len(q) /\ u - 1 = i + (k - 1) /\ v - 1 = j + (k - 1)
        /\ u - 1 \in 0..Len(p) /\ v - 1 \in 0..Len(q) /\ i \in 0..Len(p) /\ j \in 0..Len(q)
    BY <1>0
  <2>2. p[u] = q[v]
    BY <1>0
  <2>3. a[u - 1] - a[i] = b[v - 1] - b[j]
    BY <1>4, <2>1
  <2> HIDE DEF u, v
  <2>4. a[u] = a[u - 1] + Length(p[u]) /\ b[v] = b[v - 1] + Length(q[v])
    BY <2>1 DEF EndsOK
  <2>5. Length(p[u]) \in Nat
    BY <2>1, PartLength
  <2>6. a[u - 1] \in Nat /\ b[v - 1] \in Nat /\ a[i] \in Nat /\ b[j] \in Nat
    BY <1>1, <1>2, <2>1
  <2>7. \A x, y, z, w, l \in Nat : x - y = z - w => (x + l) - y = (z + l) - w
    OBVIOUS
  <2>8. a[u] - a[i] = b[v] - b[j]
    <3> DEFINE l == Length(p[u])
               x == a[u - 1]
               y == a[i]
               z == b[v - 1]
               w == b[j]
    <3>0. x \in Nat /\ y \in Nat /\ z \in Nat /\ w \in Nat /\ l \in Nat /\ x - y = z - w
      BY <2>3, <2>5, <2>6
    <3> HIDE DEF x, y, z, w, l
    <3>1. (x + l) - y = (z + l) - w
      BY <2>7, <3>0
    <3>2. a[u] = x + l /\ b[v] = z + l
      BY <2>2, <2>4 DEF x, z, l
    <3> QED
      BY <3>1, <3>2 DEF y, w
  <2> QED
    BY <2>8 DEF u, v
<1>5. good = 0..m
  <2> HIDE DEF good
  <2>1. good \in SUBSET (0..m)
    BY DEF good
  <2> QED
    BY <1>3, <1>4, <2>1, UpTo
<1> QED
  BY <1>5 DEF SameDistance

-----------------------------------------------------------------------------
(* What the writer has written after each entry. *)
WriterState == [locals : Seq(Part), centrals : Seq(Part), offset : Nat]

WrittenOK(w, list) ==
  /\ w \in [0..Len(list) -> WriterState]
  /\ w[0] = [locals |-> <<>>, centrals |-> <<>>, offset |-> 0]
  /\ \A k \in 1..Len(list) : w[k] = WriteEntry(w[k - 1], list[k])

(* The parts that are written for an entry. *)
LEMMA PartsOfEntry ==
  ASSUME NEW entry \in ArchiveEntries, NEW offset \in Nat
  PROVE  /\ Local(entry) \in Part /\ Central(entry, offset) \in Part
         /\ Stored(entry.data) \in Seq(Part)
         /\ IF DataLength(entry.data) = 0 THEN Stored(entry.data) = <<>>
            ELSE Len(Stored(entry.data)) = 1
                 /\ Stored(entry.data)[1] = [kind |-> "data", data |-> entry.data]
         /\ DataLength(entry.data) \in Nat /\ PathLength(entry.path) \in Nat
<1> USE ZipArchiveAssumption DEF ArchiveEntries
<1>1. /\ entry.path \in Paths /\ entry.data \in Data
      /\ DataLength(entry.data) \in Nat /\ PathLength(entry.path) \in Nat
  OBVIOUS
<1>2. Local(entry) \in Part
  BY <1>1 DEF Local, Part, LocalPart
<1>3. Central(entry, offset) \in Part
  BY <1>1 DEF Central, Part, CentralPart
<1>4. CASE DataLength(entry.data) = 0
  BY <1>1, <1>2, <1>3, <1>4 DEF Stored
<1>5. CASE DataLength(entry.data) # 0
  <2> DEFINE d == [kind |-> "data", data |-> entry.data]
  <2>1. d \in Part
    BY <1>1, <1>5 DEF Part, DataPart
  <2>2. Stored(entry.data) = <<d>>
    BY <1>5 DEF Stored
  <2> HIDE DEF d
  <2>3. <<d>> \in Seq(Part) /\ Len(<<d>>) = 1 /\ <<d>>[1] = d
    BY <2>1
  <2> QED
    BY <1>1, <1>2, <1>3, <1>5, <2>2, <2>3 DEF d
<1> QED
  BY <1>4, <1>5

LEMMA WriteEntryType ==
  ASSUME NEW state \in WriterState, NEW entry \in ArchiveEntries
  PROVE  WriteEntry(state, entry) \in WriterState
<1>1. /\ state.locals \in Seq(Part) /\ state.centrals \in Seq(Part) /\ state.offset \in Nat
  BY DEF WriterState
<1>2. /\ Local(entry) \in Part /\ Central(entry, state.offset) \in Part
      /\ Stored(entry.data) \in Seq(Part)
      /\ DataLength(entry.data) \in Nat /\ PathLength(entry.path) \in Nat
  BY <1>1, PartsOfEntry
<1>3. state.locals \o <<Local(entry)>> \o Stored(entry.data) \in Seq(Part)
  BY <1>1, <1>2
<1>4. Append(state.centrals, Central(entry, state.offset)) \in Seq(Part)
  BY <1>1, <1>2
<1>5. state.offset + 30 + PathLength(entry.path) + DataLength(entry.data) \in Nat
  BY <1>1, <1>2
<1> QED
  BY <1>3, <1>4, <1>5 DEF WriteEntry, WriterState

LEMMA WrittenAre ==
  ASSUME NEW list \in Seq(ArchiveEntries)
  PROVE  WrittenOK(Written(list), list)
<1> DEFINE n == Len(list)
           start == [locals |-> <<>>, centrals |-> <<>>, offset |-> 0]
           step == [x \in (1..n) \X WriterState |-> WriteEntry(x[2], list[x[1]])]
<1>1. n \in Nat /\ \A k \in 1..n : list[k] \in ArchiveEntries
  OBVIOUS
<1>2. step \in [(1..n) \X WriterState -> WriterState]
  BY <1>1, WriteEntryType
<1>3. start \in WriterState
  BY DEF WriterState
<1> HIDE DEF step, start
<1>4. PICK w : IsLoop(w, n, WriterState, step, start)
  BY <1>1, <1>2, <1>3, LoopRuns
<1>5. \A k \in 1..n : w[k] = WriteEntry(w[k - 1], list[k])
  <2> SUFFICES ASSUME NEW k \in 1..n PROVE w[k] = WriteEntry(w[k - 1], list[k])
    OBVIOUS
  <2>1. k - 1 \in 0..n
    BY <1>1
  <2>2. w[k - 1] \in WriterState
    BY <1>4, <2>1 DEF IsLoop
  <2>3. w[k] = step[<<k, w[k - 1]>>]
    BY <1>4 DEF IsLoop
  <2> QED
    BY <1>1, <2>2, <2>3 DEF step
<1>6. w = [k \in 0..n |-> IF k = 0 THEN start ELSE WriteEntry(w[k - 1], list[k])]
  BY <1>4, <1>5 DEF IsLoop
<1> DEFINE g == Written(list)
<1>7. g = [k \in 0..n |-> IF k = 0 THEN start ELSE WriteEntry(g[k - 1], list[k])]
  BY <1>6 DEF Written, start
<1> HIDE DEF g
<1> DEFINE good == {k \in 0..n : g[k] = w[k]}
<1>8. 0 \in good
  BY <1>4, <1>7 DEF IsLoop
<1>9. \A k \in 1..n : k - 1 \in good => k \in good
  BY <1>5, <1>7
<1>10. good = 0..n
  <2> HIDE DEF good
  <2>1. good \in SUBSET (0..n)
    BY DEF good
  <2> QED
    BY <1>1, <1>8, <1>9, <2>1, UpTo
<1>11. g = w
  BY <1>6, <1>7, <1>10
<1> QED
  BY <1>4, <1>5, <1>11 DEF IsLoop, WrittenOK, g, start

(* What one entry adds. *)
AddsEntry(before, after, entry) ==
  LET m == Len(before.locals) IN
  /\ m \in Nat /\ after.offset = before.offset + 30 + PathLength(entry.path) + DataLength(entry.data)
  /\ after.centrals = Append(before.centrals, Central(entry, before.offset))
  /\ \A i \in 1..m : after.locals[i] = before.locals[i]
  /\ after.locals[m + 1] = Local(entry)
  /\ IF DataLength(entry.data) = 0 THEN Len(after.locals) = m + 1
     ELSE Len(after.locals) = m + 2 /\ after.locals[m + 2] = [kind |-> "data", data |-> entry.data]

LEMMA EntryAdded ==
  ASSUME NEW state \in WriterState, NEW entry \in ArchiveEntries
  PROVE  AddsEntry(state, WriteEntry(state, entry), entry)
<1> DEFINE p == state.locals
           m == Len(p)
           x == Local(entry)
           d == [kind |-> "data", data |-> entry.data]
           q == p \o <<x>>
           all == q \o Stored(entry.data)
<1>1. p \in Seq(Part) /\ state.offset \in Nat
  BY DEF WriterState
<1>2. /\ x \in Part /\ Stored(entry.data) \in Seq(Part)
      /\ IF DataLength(entry.data) = 0 THEN Stored(entry.data) = <<>>
            ELSE Len(Stored(entry.data)) = 1 /\ Stored(entry.data)[1] = d
  BY <1>1, PartsOfEntry
<1> HIDE DEF p, x, d
<1>3. /\ q \in Seq(Part) /\ Len(q) = m + 1 /\ m \in Nat
      /\ \A i \in 1..m : q[i] = p[i]
      /\ q[m + 1] = x
  BY <1>1, <1>2
<1> HIDE DEF q, m
<1>4. CASE DataLength(entry.data) = 0
  <2>1. all = q
    BY <1>2, <1>3, <1>4
  <2> HIDE DEF all
  <2>2. /\ Len(all) = m + 1 /\ all[m + 1] = x /\ \A i \in 1..m : all[i] = p[i]
    BY <1>3, <2>1
  <2> QED
    BY <1>3, <1>4, <2>2 DEF AddsEntry, WriteEntry, all, q, p, x, m
<1>5. CASE DataLength(entry.data) # 0
  <2>1. /\ Len(all) = m + 2 /\ all[m + 2] = d
        /\ \A i \in 1..m + 1 : all[i] = q[i]
    <3> DEFINE more == Stored(entry.data)
    <3>1. more \in Seq(Part) /\ Len(more) = 1 /\ more[1] = d
      BY <1>2, <1>5
    <3> HIDE DEF more
    <3>2. /\ Len(q \o more) = m + 2
          /\ \A i \in 1..m + 2 : (q \o more)[i] = IF i <= m + 1 THEN q[i] ELSE more[i - (m + 1)]
      <4>1. /\ Len(q \o more) = Len(q) + Len(more)
            /\ \A i \in 1..Len(q) + Len(more) :
                 (q \o more)[i] = IF i <= Len(q) THEN q[i] ELSE more[i - Len(q)]
        BY <1>3, <3>1, ConcatProperties, Zenon
      <4>2. Len(q) = m + 1 /\ Len(q) + Len(more) = m + 2
        BY <1>3, <3>1
      <4> QED
        BY <4>1, <4>2
    <3>3. m + 2 \in 1..m + 2 /\ ~(m + 2 <= m + 1) /\ (m + 2) - (m + 1) = 1
          /\ \A i \in 1..m + 1 : i \in 1..m + 2 /\ i <= m + 1
      BY <1>3
    <3>4. Len(q \o more) = m + 2 /\ (q \o more)[m + 2] = d /\ \A i \in 1..m + 1 : (q \o more)[i] = q[i]
      BY <3>1, <3>2, <3>3, Zenon
    <3> QED
      BY <3>4 DEF more
  <2> HIDE DEF all
  <2>2. /\ all[m + 1] = x /\ \A i \in 1..m : all[i] = p[i]
    <3>1. m + 1 \in 1..m + 1 /\ \A i \in 1..m : i \in 1..m + 1
      BY <1>3
    <3> QED
      BY <1>3, <2>1, <3>1
  <2> QED
    BY <1>3, <1>5, <2>1, <2>2 DEF AddsEntry, WriteEntry, all, q, p, x, d, m
<1> QED
  BY <1>4, <1>5

-----------------------------------------------------------------------------
(* An archive has the parts a writer has written so far: those of the      *)
(* entries from its start, those of the directory behind its part c.       *)
Agree(parts, c, ws) ==
  /\ Len(ws.locals) <= Len(parts) /\ \A i \in 1..Len(ws.locals) : parts[i] = ws.locals[i]
  /\ c + Len(ws.centrals) <= Len(parts)
  /\ \A j \in 1..Len(ws.centrals) : parts[c + j] = ws.centrals[j]

Laid(parts, at, c, ws) ==
  ws \in WriterState /\ Agree(parts, c, ws) /\ at[Len(ws.locals)] = ws.offset

(* The parts of one more entry are there. *)
HasEntry(parts, m, i, entry, offset) ==
  /\ m + 1 <= Len(parts) /\ parts[m + 1] = Local(entry)
  /\ DataLength(entry.data) # 0 =>
       m + 2 <= Len(parts) /\ parts[m + 2] = [kind |-> "data", data |-> entry.data]
  /\ i <= Len(parts) /\ parts[i] = Central(entry, offset)

LEMMA CentralAdded ==
  ASSUME NEW state \in WriterState, NEW entry \in ArchiveEntries, NEW after, AddsEntry(state, after, entry)
  PROVE  LET k == Len(state.centrals) IN
         /\ k \in Nat /\ Len(after.centrals) = k + 1
         /\ after.centrals[k + 1] = Central(entry, state.offset)
         /\ \A j \in 1..k : after.centrals[j] = state.centrals[j]
<1> DEFINE c == state.centrals
           x == Central(entry, state.offset)
<1>1. c \in Seq(Part) /\ state.offset \in Nat
  BY DEF WriterState
<1>2. x \in Part
  BY <1>1, PartsOfEntry
<1>3. after.centrals = Append(c, x)
  BY DEF AddsEntry
<1> HIDE DEF c, x
<1>4. /\ Len(c) \in Nat /\ Len(Append(c, x)) = Len(c) + 1 /\ Append(c, x)[Len(c) + 1] = x
      /\ \A j \in 1..Len(c) : Append(c, x)[j] = c[j]
  BY <1>1, <1>2
<1> QED
  BY <1>3, <1>4 DEF c, x

(* An archive that agrees with the writer has the entry just written. *)
LEMMA EntryIsThere ==
  ASSUME NEW parts \in Seq(Part), NEW c \in Nat, NEW state \in WriterState, NEW entry \in ArchiveEntries,
         Agree(parts, c, WriteEntry(state, entry))
  PROVE  HasEntry(parts, Len(state.locals), c + Len(state.centrals) + 1, entry, state.offset)
<1> DEFINE after == WriteEntry(state, entry)
           m == Len(state.locals)
           k == Len(state.centrals)
<1>1. AddsEntry(state, after, entry)
  BY EntryAdded
<1>2. Agree(parts, c, after)
  OBVIOUS
<1> HIDE DEF after
<1>3. k \in Nat /\ Len(after.centrals) = k + 1 /\ after.centrals[k + 1] = Central(entry, state.offset)
  BY <1>1, CentralAdded
<1>4. c + k + 1 <= Len(parts) /\ parts[c + k + 1] = Central(entry, state.offset)
  <2>1. k + 1 \in 1..k + 1 /\ c + (k + 1) = c + k + 1
    BY <1>3
  <2> QED
    BY <1>2, <1>3, <2>1 DEF Agree
<1>5. m \in Nat /\ m + 1 <= Len(parts) /\ parts[m + 1] = Local(entry)
  <2>1. m \in Nat /\ m + 1 \in 1..Len(after.locals) /\ after.locals[m + 1] = Local(entry)
    BY <1>1 DEF AddsEntry
  <2> QED
    BY <1>2, <2>1 DEF Agree
<1>6. ASSUME DataLength(entry.data) # 0
      PROVE  m + 2 <= Len(parts) /\ parts[m + 2] = [kind |-> "data", data |-> entry.data]
  <2>1. m \in Nat /\ m + 2 \in 1..Len(after.locals)
        /\ after.locals[m + 2] = [kind |-> "data", data |-> entry.data]
    BY <1>1, <1>6 DEF AddsEntry
  <2> QED
    BY <1>2, <2>1 DEF Agree
<1> QED
  BY <1>4, <1>5, <1>6 DEF HasEntry

(* Where the parts of an entry are. *)
LEMMA EntryEnds ==
  ASSUME NEW parts \in Seq(Part), NEW at, EndsOK(at, parts), NEW entry \in ArchiveEntries,
         NEW m \in Nat, NEW i \in Nat, i > 0, NEW offset, HasEntry(parts, m, i, entry, offset),
         NEW from \in Nat, at[m] = from
  PROVE  /\ at[m + 1] = from + 30 + PathLength(entry.path)
         /\ DataLength(entry.data) # 0 =>
              at[m + 2] = from + 30 + PathLength(entry.path) + DataLength(entry.data)
         /\ at[i] = at[i - 1] + 46 + PathLength(entry.path)
         /\ at[i - 1] \in Nat
<1>1. PathLength(entry.path) \in Nat /\ DataLength(entry.data) \in Nat
  BY ZipArchiveAssumption DEF ArchiveEntries
<1>2. /\ Length(Local(entry)) = 30 + PathLength(entry.path)
      /\ Length(Central(entry, offset)) = 46 + PathLength(entry.path)
      /\ Length([kind |-> "data", data |-> entry.data]) = DataLength(entry.data)
  BY DEF Length, Local, Central
<1>3. at[m + 1] = at[m] + Length(parts[m + 1])
  <2>1. m + 1 \in 1..Len(parts) /\ (m + 1) - 1 = m
    BY DEF HasEntry
  <2> QED
    BY <2>1 DEF EndsOK
<1>4. at[m + 1] = from + 30 + PathLength(entry.path)
  BY <1>1, <1>2, <1>3 DEF HasEntry
<1>5. ASSUME DataLength(entry.data) # 0
      PROVE  at[m + 2] = from + 30 + PathLength(entry.path) + DataLength(entry.data)
  <2>1. m + 2 \in 1..Len(parts) /\ (m + 2) - 1 = m + 1
    BY <1>5 DEF HasEntry
  <2>2. at[m + 2] = at[m + 1] + Length(parts[m + 2])
    BY <2>1 DEF EndsOK
  <2>3. Length(parts[m + 2]) = DataLength(entry.data)
    BY <1>2, <1>5 DEF HasEntry
  <2> QED
    BY <1>1, <1>4, <2>2, <2>3
<1>6. i \in 1..Len(parts) /\ i - 1 \in 0..Len(parts)
  BY DEF HasEntry
<1>7. at[i] = at[i - 1] + Length(parts[i]) /\ at[i - 1] \in Nat
  BY <1>6 DEF EndsOK
<1>8. at[i] = at[i - 1] + 46 + PathLength(entry.path)
  BY <1>1, <1>2, <1>7 DEF HasEntry
<1> QED
  BY <1>4, <1>5, <1>7, <1>8

(* An archive with the next entry agrees with the writer's next state. *)
LEMMA LaidStep ==
  ASSUME NEW parts \in Seq(Part), NEW at, EndsOK(at, parts), NEW c \in Nat, NEW state, Laid(parts, at, c, state),
         NEW entry \in ArchiveEntries,
         HasEntry(parts, Len(state.locals), c + Len(state.centrals) + 1, entry, state.offset)
  PROVE  Laid(parts, at, c, WriteEntry(state, entry))
<1> DEFINE after == WriteEntry(state, entry)
           m == Len(state.locals)
           k == Len(state.centrals)
<1>0. state \in WriterState
  BY DEF Laid
<1>1. AddsEntry(state, after, entry) /\ after \in WriterState
  BY <1>0, EntryAdded, WriteEntryType
<1> HIDE DEF after
<1>2. m \in Nat /\ k \in Nat /\ state.offset \in Nat /\ at[m] = state.offset /\ Agree(parts, c, state)
  BY <1>0 DEF Laid, WriterState
<1>3. /\ Len(after.centrals) = k + 1 /\ after.centrals[k + 1] = Central(entry, state.offset)
      /\ \A j \in 1..k : after.centrals[j] = state.centrals[j]
  BY <1>0, <1>1, CentralAdded
<1>4. /\ at[m + 1] = state.offset + 30 + PathLength(entry.path)
      /\ DataLength(entry.data) # 0 =>
           at[m + 2] = state.offset + 30 + PathLength(entry.path) + DataLength(entry.data)
  <2>1. c + k + 1 \in Nat /\ c + k + 1 > 0
    BY <1>2
  <2> QED
    BY <1>2, <2>1, EntryEnds
<1>5. DataLength(entry.data) \in Nat /\ PathLength(entry.path) \in Nat
  BY ZipArchiveAssumption DEF ArchiveEntries
<1>6. at[Len(after.locals)] = after.offset
  <2>1. CASE DataLength(entry.data) = 0
    BY <1>1, <1>2, <1>4, <1>5, <2>1 DEF AddsEntry
  <2>2. CASE DataLength(entry.data) # 0
    BY <1>1, <1>2, <1>4, <1>5, <2>2 DEF AddsEntry
  <2> QED
    BY <2>1, <2>2
<1>7. /\ c + (k + 1) <= Len(parts)
      /\ \A j \in 1..k + 1 : parts[c + j] = after.centrals[j]
  <2>1. c + (k + 1) = c + k + 1 /\ \A j \in 1..k + 1 : j = k + 1 \/ j \in 1..k
    BY <1>2
  <2> QED
    BY <1>2, <1>3, <2>1 DEF Agree, HasEntry
<1>8. Len(after.locals) <= Len(parts) /\ \A i \in 1..Len(after.locals) : parts[i] = after.locals[i]
  <2>1. CASE DataLength(entry.data) = 0
    <3>1. Len(after.locals) = m + 1 /\ \A i \in 1..m + 1 : i = m + 1 \/ i \in 1..m
      BY <1>1, <1>2, <2>1 DEF AddsEntry
    <3> QED
      BY <1>1, <1>2, <3>1 DEF AddsEntry, Agree, HasEntry
  <2>2. CASE DataLength(entry.data) # 0
    <3>1. Len(after.locals) = m + 2
      BY <1>1, <2>2 DEF AddsEntry
    <3>2. \A i \in 1..m + 2 : i = m + 2 \/ i = m + 1 \/ i \in 1..m
      BY <1>2
    <3> QED
      BY <1>1, <1>2, <2>2, <3>1, <3>2 DEF AddsEntry, Agree, HasEntry
  <2> QED
    BY <2>1, <2>2
<1>9. Agree(parts, c, after)
  BY <1>3, <1>7, <1>8 DEF Agree
<1> QED
  BY <1>1, <1>6, <1>9 DEF Laid, after

-----------------------------------------------------------------------------
LEMMA SamePlace ==
  ASSUME NEW parts \in Seq(Part), NEW at, EndsOK(at, parts),
         NEW j \in 1..Len(parts), NEW i \in 0..Len(parts), at[j - 1] = at[i]
  PROVE  j = i + 1
<1>1. j - 1 \in 0..Len(parts)
  OBVIOUS
<1>2. at[j - 1] \in Nat /\ at[i] \in Nat
  BY <1>1 DEF EndsOK
<1>3. ~(j - 1 < i) /\ ~(i < j - 1)
  BY <1>1, <1>2, EndsGrow
<1> QED
  BY <1>1, <1>3

(* A part of a kind has the fields of that kind. *)
LEMMA KindOfPart ==
  ASSUME NEW part \in Part
  PROVE  /\ part # Nothing
         /\ part.kind = "local" => part \in LocalPart
         /\ part.kind = "central" => part \in CentralPart
         /\ part.kind = "end" => part \in EndPart
         /\ part.kind = "data" => part \in DataPart
<1>1. CASE part \in LocalPart
  BY <1>1 DEF LocalPart, Nothing
<1>2. CASE part \in CentralPart
  BY <1>2 DEF CentralPart, Nothing
<1>3. CASE part \in EndPart
  BY <1>3 DEF EndPart, Nothing
<1>4. CASE part \in DataPart
  BY <1>4 DEF DataPart, Nothing
<1>5. CASE part \in ForeignPart
  BY <1>5 DEF ForeignPart, Nothing
<1> QED
  BY <1>1, <1>2, <1>3, <1>4, <1>5 DEF Part

(* The reader's state. *)
Refusals == {"INVALID_ARCHIVE", "ARCHIVE_LIMIT_EXCEEDED", "UNSAFE_ARCHIVE_PATH", "DUPLICATE_ARCHIVE_PATH"}
ReaderState ==
  [reason : Refusals \union {"NONE"}, local : Nat, central : Nat, entries : Seq(ArchiveEntries)]

(* What the reader requires of an entry, and what it then knows. *)
Accepts(parts, state, central) ==
  /\ central # Nothing /\ ~(central.bytes > MAX_ENTRY_BYTES)
  /\ central.plain /\ central.offset = state.local
  /\ central.path \notin UnsafePaths
  /\ \A k \in DOMAIN state.entries : state.entries[k].path # central.path
  /\ PartAt(parts, central.offset, "local") # Nothing
  /\ SameHeader(PartAt(parts, central.offset, "local"), central)
  /\ DataAt(parts, central.offset + 30 + PathLength(central.path), central)

AfterEntry(state, central) ==
  [reason |-> "NONE", local |-> central.offset + 30 + PathLength(central.path) + central.bytes,
   central |-> state.central + 46 + PathLength(central.path),
   entries |-> Append(state.entries, [path |-> central.path, data |-> central.crc])]

LEMMA EntryRead ==
  ASSUME NEW parts, NEW state \in ReaderState, state.reason = "NONE",
         NEW central, central = PartAt(parts, state.central, "central")
  PROVE  \/ Accepts(parts, state, central) /\ ReadEntry(parts, state) = AfterEntry(state, central)
         \/ /\ ~Accepts(parts, state, central)
            /\ \E r \in Refusals : ReadEntry(parts, state) = [state EXCEPT !.reason = r]
<1> DEFINE local == PartAt(parts, central.offset, "local")
           here == DataAt(parts, central.offset + 30 + PathLength(central.path), central)
           same == SameHeader(local, central)
           again == \E k \in DOMAIN state.entries : state.entries[k].path = central.path
           after == AfterEntry(state, central)
           Stop(reason) == [state EXCEPT !.reason = reason]
<1>1. ReadEntry(parts, state) =
        IF central = Nothing THEN Stop("INVALID_ARCHIVE")
        ELSE IF central.bytes > MAX_ENTRY_BYTES THEN Stop("ARCHIVE_LIMIT_EXCEEDED")
        ELSE IF ~central.plain \/ central.offset # state.local THEN Stop("INVALID_ARCHIVE")
        ELSE IF central.path \in UnsafePaths THEN Stop("UNSAFE_ARCHIVE_PATH")
        ELSE IF again THEN Stop("DUPLICATE_ARCHIVE_PATH")
        ELSE IF local = Nothing \/ ~same \/ ~here THEN Stop("INVALID_ARCHIVE")
        ELSE after
  BY Zenon DEF ReadEntry, AfterEntry
<1>2. Accepts(parts, state, central) <=>
        /\ central # Nothing /\ ~(central.bytes > MAX_ENTRY_BYTES)
        /\ central.plain /\ central.offset = state.local
        /\ central.path \notin UnsafePaths /\ ~again /\ local # Nothing /\ same /\ here
  BY Zenon DEF Accepts
<1> HIDE DEF local, here, same, again, after
<1> DEFINE fails == \E r \in Refusals : ReadEntry(parts, state) = Stop(r)
<1>3. /\ "INVALID_ARCHIVE" \in Refusals /\ "ARCHIVE_LIMIT_EXCEEDED" \in Refusals
      /\ "UNSAFE_ARCHIVE_PATH" \in Refusals /\ "DUPLICATE_ARCHIVE_PATH" \in Refusals
  BY DEF Refusals
<1> HIDE DEF Stop
<1>4. fails \/ Accepts(parts, state, central)
  BY <1>1, <1>2, <1>3, Zenon
<1>5. Accepts(parts, state, central) => ReadEntry(parts, state) = after
  BY <1>1, <1>2, Zenon
<1> QED
  BY <1>4, <1>5 DEF after, Stop

LEMMA CentralFound ==
  ASSUME NEW parts \in Seq(Part), NEW offset
  PROVE  PartAt(parts, offset, "central") = Nothing \/ PartAt(parts, offset, "central") \in CentralPart
<1>1. CASE PartAt(parts, offset, "central") = Nothing
  BY <1>1
<1>2. CASE \E k \in 1..Len(parts) :
             /\ Ends(parts)[k - 1] = offset /\ parts[k].kind = "central"
             /\ PartAt(parts, offset, "central") = parts[k]
  BY <1>2, KindOfPart
<1> QED
  BY <1>1, <1>2, PartFound

(* A reading that has failed stays as it is. *)
LEMMA ReadEntryType ==
  ASSUME NEW parts \in Seq(Part), NEW state \in ReaderState
  PROVE  /\ ReadEntry(parts, state) \in ReaderState
         /\ state.reason # "NONE" => ReadEntry(parts, state) = state
<1>1. CASE state.reason # "NONE"
  BY <1>1 DEF ReadEntry
<1>2. CASE state.reason = "NONE"
  <2> DEFINE central == PartAt(parts, state.central, "central")
             after == ReadEntry(parts, state)
  <2>1. \/ Accepts(parts, state, central) /\ after = AfterEntry(state, central)
        \/ \E r \in Refusals : after = [state EXCEPT !.reason = r]
    BY <1>2, EntryRead
  <2>2. central = Nothing \/ central \in CentralPart
    BY CentralFound
  <2> HIDE DEF central, after
  <2>3. CASE \E r \in Refusals : after = [state EXCEPT !.reason = r]
    BY <1>2, <2>3 DEF ReaderState, after
  <2>4. CASE Accepts(parts, state, central) /\ after = AfterEntry(state, central)
    <3>1. central \in CentralPart
      BY <2>2, <2>4 DEF Accepts
    <3>2. central.path \in Paths /\ central.crc \in Data /\ central.bytes \in Nat /\ central.offset \in Nat
          /\ PathLength(central.path) \in Nat
      BY <3>1, ZipArchiveAssumption DEF CentralPart
    <3>3. [path |-> central.path, data |-> central.crc] \in ArchiveEntries
      BY <3>2 DEF ArchiveEntries
    <3> DEFINE x == [path |-> central.path, data |-> central.crc]
    <3>4. state.entries \in Seq(ArchiveEntries) /\ state.central \in Nat
      BY DEF ReaderState
    <3>5. Append(state.entries, x) \in Seq(ArchiveEntries)
      BY <3>3, <3>4
    <3> HIDE DEF x
    <3>6. after = [reason |-> "NONE", local |-> central.offset + 30 + PathLength(central.path) + central.bytes,
                   central |-> state.central + 46 + PathLength(central.path),
                   entries |-> Append(state.entries, x)]
      BY <2>4 DEF AfterEntry, x
    <3>7. after \in ReaderState
      <4> DEFINE l == central.offset + 30 + PathLength(central.path) + central.bytes
                 c == state.central + 46 + PathLength(central.path)
                 e == Append(state.entries, x)
      <4>1. l \in Nat /\ c \in Nat /\ e \in Seq(ArchiveEntries)
        BY <3>2, <3>4, <3>5
      <4>2. after = [reason |-> "NONE", local |-> l, central |-> c, entries |-> e]
        BY <3>6
      <4> HIDE DEF l, c, e
      <4> QED
        BY <4>1, <4>2 DEF ReaderState
    <3> QED
      BY <1>2, <3>7 DEF after
  <2> QED
    BY <2>1, <2>3, <2>4
<1> QED
  BY <1>1, <1>2

-----------------------------------------------------------------------------
(* Reader and writer have done the same entries. *)
Follows(parts, at, c, ws, state) ==
  /\ Laid(parts, at, c, ws)
  /\ state \in ReaderState /\ state.reason = "NONE" /\ state.local = ws.offset
  /\ state.central = at[c + Len(ws.centrals)]

FollowsNext(parts, at, c, ws, state, entry) ==
  /\ HasEntry(parts, Len(ws.locals), c + Len(ws.centrals) + 1, entry, ws.offset)
  /\ Follows(parts, at, c, WriteEntry(ws, entry), ReadEntry(parts, state))
  /\ ReadEntry(parts, state).entries = Append(state.entries, entry)

(* What the reader knows of an entry is what the writer would write. *)
LEMMA AfterIsNext ==
  ASSUME NEW parts \in Seq(Part), NEW at, EndsOK(at, parts), NEW c \in Nat, NEW ws, NEW state,
         Follows(parts, at, c, ws, state), NEW entry \in ArchiveEntries,
         HasEntry(parts, Len(ws.locals), c + Len(ws.centrals) + 1, entry, ws.offset),
         ReadEntry(parts, state) = AfterEntry(state, Central(entry, ws.offset))
  PROVE  FollowsNext(parts, at, c, ws, state, entry)
<1> DEFINE central == Central(entry, ws.offset)
           next == WriteEntry(ws, entry)
           after == ReadEntry(parts, state)
           k == Len(ws.centrals)
           i == c + k + 1
<1>1. ws \in WriterState /\ state \in ReaderState
  BY DEF Follows, Laid
<1>2. /\ k \in Nat /\ Len(ws.locals) \in Nat /\ ws.offset \in Nat /\ at[Len(ws.locals)] = ws.offset
      /\ state.central = at[c + k] /\ i \in Nat /\ i > 0 /\ i - 1 = c + k
  BY <1>1 DEF Follows, Laid, WriterState
<1>3. /\ AddsEntry(ws, next, entry) /\ Laid(parts, at, c, next)
  BY <1>1, EntryAdded, LaidStep DEF Follows
<1>4. Len(next.centrals) = k + 1
  BY <1>1, <1>3, CentralAdded
<1>5. at[i] = at[i - 1] + 46 + PathLength(entry.path)
  BY <1>2, EntryEnds
<1>6. after \in ReaderState
  BY <1>1, ReadEntryType
<1>7. /\ after.reason = "NONE"
      /\ after.local = ws.offset + 30 + PathLength(entry.path) + DataLength(entry.data)
      /\ after.central = state.central + 46 + PathLength(entry.path)
      /\ after.entries = Append(state.entries, [path |-> entry.path, data |-> entry.data])
  BY DEF AfterEntry, Central
<1>8. [path |-> entry.path, data |-> entry.data] = entry
  BY DEF ArchiveEntries
<1> HIDE DEF next, after
<1>9. after.local = next.offset
  BY <1>3, <1>7 DEF AddsEntry
<1>10. after.central = at[c + Len(next.centrals)]
  <2>1. c + Len(next.centrals) = i
    BY <1>2, <1>4
  <2>2. after.central = at[i]
    BY <1>2, <1>5, <1>7
  <2> QED
    BY <2>1, <2>2
<1>11. Follows(parts, at, c, next, after)
  BY <1>3, <1>6, <1>7, <1>9, <1>10 DEF Follows
<1> QED
  BY <1>7, <1>8, <1>11 DEF FollowsNext, next, after

-----------------------------------------------------------------------------
(* What both require of an entry behind those before it. *)
Fits(entry, before) ==
  /\ entry.path \notin UnsafePaths /\ ~(DataLength(entry.data) > MAX_ENTRY_BYTES)
  /\ \A k \in DOMAIN before : before[k].path # entry.path

(* The reader reads an entry that the writer has written. *)
LEMMA ReadOne ==
  ASSUME NEW parts \in Seq(Part), NEW at, EndsOK(at, parts), at = Ends(parts), NEW c \in Nat, NEW ws, NEW state,
         Follows(parts, at, c, ws, state), NEW entry \in ArchiveEntries,
         HasEntry(parts, Len(ws.locals), c + Len(ws.centrals) + 1, entry, ws.offset),
         Fits(entry, state.entries)
  PROVE  FollowsNext(parts, at, c, ws, state, entry)
<1> DEFINE m == Len(ws.locals)
           k == Len(ws.centrals)
           i == c + k + 1
           d == [kind |-> "data", data |-> entry.data]
           x == Local(entry)
           y == Central(entry, ws.offset)
<1>1. ws \in WriterState /\ state \in ReaderState /\ state.reason = "NONE"
  BY DEF Follows, Laid
<1>2. /\ k \in Nat /\ m \in Nat /\ ws.offset \in Nat /\ at[m] = ws.offset
      /\ state.central = at[c + k] /\ i \in Nat /\ i > 0 /\ i - 1 = c + k
      /\ state.local = ws.offset
  BY <1>1 DEF Follows, Laid, WriterState
<1>3. /\ at[m + 1] = ws.offset + 30 + PathLength(entry.path)
      /\ DataLength(entry.data) \in Nat /\ PathLength(entry.path) \in Nat
  <2>1. at[m + 1] = ws.offset + 30 + PathLength(entry.path)
    BY <1>2, EntryEnds
  <2> QED
    BY <2>1, ZipArchiveAssumption DEF ArchiveEntries
<1>4. PartAt(parts, state.central, "central") = y
  <2>1. i \in 1..Len(parts) /\ parts[i] = y /\ y.kind = "central"
    BY <1>2 DEF HasEntry, Central
  <2>2. at[i - 1] = state.central
    BY <1>2
  <2> HIDE DEF y, i
  <2> QED
    BY <2>1, <2>2, FoundThere
<1>5. PartAt(parts, ws.offset, "local") = x
  <2>1. m + 1 \in 1..Len(parts) /\ (m + 1) - 1 = m /\ parts[m + 1] = x /\ x.kind = "local"
    BY <1>2 DEF HasEntry, Local
  <2> QED
    BY <1>2, <2>1, FoundThere
<1>6. DataAt(parts, ws.offset + 30 + PathLength(entry.path), y)
  <2>1. y.bytes = DataLength(entry.data) /\ y.crc = entry.data
    BY DEF Central
  <2>2. CASE DataLength(entry.data) = 0
    BY <2>1, <2>2 DEF DataAt
  <2>3. CASE DataLength(entry.data) # 0
    <3>1. m + 2 \in 1..Len(parts) /\ (m + 2) - 1 = m + 1 /\ parts[m + 2] = d
      BY <1>2, <2>3 DEF HasEntry
    <3>2. d.kind = "data" /\ d.data = entry.data /\ d # Nothing
      BY DEF Nothing
    <3>3. PartAt(parts, ws.offset + 30 + PathLength(entry.path), "data") = d
      <4> DEFINE place == ws.offset + 30 + PathLength(entry.path)
                 j == m + 2
      <4>1. j \in 1..Len(parts) /\ at[j - 1] = place /\ parts[j] = d
        BY <1>3, <3>1
      <4> HIDE DEF d, j, place
      <4>2. PartAt(parts, place, "data") = d
        BY <3>2, <4>1, FoundThere
      <4> QED
        BY <4>2 DEF place
    <3> HIDE DEF d, y
    <3> QED
      BY <2>1, <3>2, <3>3 DEF DataAt
  <2> QED
    BY <2>2, <2>3
<1>7. y # Nothing /\ x # Nothing
  BY DEF Central, Local, Nothing
<1>8. SameHeader(x, y)
  BY DEF SameHeader, Local, Central
<1>9. /\ y.offset = ws.offset /\ y.path = entry.path /\ y.plain
      /\ y.bytes = DataLength(entry.data)
  BY DEF Central
<1> HIDE DEF x, y
<1>10. Accepts(parts, state, y)
  BY <1>2, <1>5, <1>6, <1>7, <1>8, <1>9 DEF Accepts, Fits
<1>11. ReadEntry(parts, state) = AfterEntry(state, y)
  BY <1>1, <1>4, <1>10, EntryRead
<1> QED
  BY <1>11, AfterIsNext DEF y

(* The reader accepts only an entry that the writer would have written. *)
LEMMA AcceptOne ==
  ASSUME NEW parts \in Seq(Part), NEW at, EndsOK(at, parts), at = Ends(parts), NEW c \in Nat, NEW ws, NEW state,
         Follows(parts, at, c, ws, state), ReadEntry(parts, state).reason = "NONE"
  PROVE  \E entry \in ArchiveEntries :
           Fits(entry, state.entries) /\ FollowsNext(parts, at, c, ws, state, entry)
<1> DEFINE m == Len(ws.locals)
           k == Len(ws.centrals)
           i == c + k + 1
           central == PartAt(parts, state.central, "central")
           entry == [path |-> central.path, data |-> central.crc]
           y == Central(entry, ws.offset)
<1>1. ws \in WriterState /\ state \in ReaderState /\ state.reason = "NONE" /\ Agree(parts, c, ws)
  BY DEF Follows, Laid
<1>2. /\ k \in Nat /\ m \in Nat /\ ws.offset \in Nat /\ at[m] = ws.offset
      /\ state.central = at[c + k] /\ i \in Nat /\ i > 0 /\ i - 1 = c + k
      /\ state.local = ws.offset /\ m \in 0..Len(parts) /\ c + k \in 0..Len(parts)
  BY <1>1 DEF Follows, Laid, WriterState, Agree
<1>3. Accepts(parts, state, central) /\ ReadEntry(parts, state) = AfterEntry(state, central)
  <2>1. \A r \in Refusals : [state EXCEPT !.reason = r].reason # "NONE"
    BY <1>1 DEF ReaderState, Refusals
  <2>2. \/ Accepts(parts, state, central) /\ ReadEntry(parts, state) = AfterEntry(state, central)
        \/ \E r \in Refusals : ReadEntry(parts, state) = [state EXCEPT !.reason = r]
    BY <1>1, EntryRead
  <2> HIDE DEF central
  <2> QED
    BY <2>1, <2>2
<1>4. PICK j \in 1..Len(parts) : at[j - 1] = state.central /\ parts[j].kind = "central" /\ central = parts[j]
  BY <1>3, PartFound DEF Accepts
<1>5. j = i
  BY <1>2, <1>4, SamePlace
<1>6. central \in CentralPart
  BY <1>4, KindOfPart
<1> HIDE DEF central
<1>7. central.offset = ws.offset /\ central.plain = TRUE
  BY <1>2, <1>3, <1>6 DEF Accepts, CentralPart
<1> DEFINE local == PartAt(parts, central.offset, "local")
<1>8. PICK l \in 1..Len(parts) : at[l - 1] = central.offset /\ parts[l].kind = "local" /\ local = parts[l]
  BY <1>3, PartFound DEF Accepts
<1>9. l = m + 1
  BY <1>2, <1>7, <1>8, SamePlace
<1>10. local \in LocalPart
  BY <1>8, KindOfPart
<1>11. SameHeader(local, central)
  BY <1>3 DEF Accepts
<1> HIDE DEF local
<1>12. entry \in ArchiveEntries
  BY <1>6 DEF CentralPart, ArchiveEntries
<1>13. DataLength(central.crc) \in Nat /\ PathLength(central.path) \in Nat
  BY <1>6, ZipArchiveAssumption DEF CentralPart
<1>14. local = [kind |-> "local", path |-> central.path, plain |-> TRUE, crc |-> central.crc, bytes |-> central.bytes]
  BY <1>10, <1>11 DEF LocalPart, SameHeader
<1> DEFINE place == central.offset + 30 + PathLength(central.path)
<1>15. DataAt(parts, place, central)
  BY <1>3 DEF Accepts
<1>16. at[m + 1] = place
  <2>1. m + 1 \in 1..Len(parts) /\ (m + 1) - 1 = m
    BY <1>2, <1>9
  <2>2. at[m + 1] = at[m] + Length(parts[m + 1])
    BY <2>1 DEF EndsOK
  <2>3. Length(parts[m + 1]) = 30 + PathLength(central.path)
    BY <1>8, <1>9, <1>14 DEF Length
  <2> QED
    BY <1>2, <1>7, <1>13, <2>2, <2>3
<1> HIDE DEF place
<1>17. /\ central.bytes = DataLength(central.crc)
       /\ DataLength(central.crc) # 0 =>
            m + 2 <= Len(parts) /\ parts[m + 2] = [kind |-> "data", data |-> central.crc]
  <2>1. CASE central.bytes = 0 /\ DataLength(central.crc) = 0
    BY <2>1
  <2>2. CASE ~(central.bytes = 0 /\ DataLength(central.crc) = 0)
    <3> DEFINE part == PartAt(parts, place, "data")
    <3>1. part # Nothing /\ part.data = central.crc /\ DataLength(part.data) = central.bytes
      BY <1>15, <2>2 DEF DataAt
    <3>2. PICK t \in 1..Len(parts) : at[t - 1] = place /\ parts[t].kind = "data" /\ part = parts[t]
      BY <3>1, PartFound
    <3>3. t = m + 2
      <4>1. m + 1 \in 0..Len(parts)
        BY <1>2, <1>9
      <4>2. t = (m + 1) + 1
        BY <1>16, <3>2, <4>1, SamePlace
      <4> QED
        BY <1>2, <4>2
    <3>4. part \in DataPart
      BY <3>2, KindOfPart
    <3> HIDE DEF part
    <3>5. part = [kind |-> "data", data |-> central.crc]
      BY <3>1, <3>4 DEF DataPart
    <3> QED
      BY <1>2, <3>1, <3>2, <3>3, <3>5
  <2> QED
    BY <2>1, <2>2
<1>18. central = y
  BY <1>6, <1>7, <1>17 DEF Central, CentralPart
<1>19. HasEntry(parts, m, i, entry, ws.offset)
  <2>1. m + 1 <= Len(parts) /\ parts[m + 1] = Local(entry)
    <3>1. m + 1 <= Len(parts) /\ parts[m + 1] = local
      BY <1>2, <1>8, <1>9
    <3>2. local = Local(entry)
      BY <1>14, <1>17 DEF Local
    <3> QED
      BY <3>1, <3>2
  <2>2. i <= Len(parts) /\ parts[i] = y
    BY <1>4, <1>5, <1>18
  <2> QED
    BY <1>17, <2>1, <2>2 DEF HasEntry
<1>20. Fits(entry, state.entries)
  BY <1>3, <1>17 DEF Accepts, Fits
<1>21. FollowsNext(parts, at, c, ws, state, entry)
  <2>1. ReadEntry(parts, state) = AfterEntry(state, y)
    BY <1>3, <1>18
  <2> HIDE DEF entry
  <2> QED
    BY <1>12, <1>19, <2>1, AfterIsNext
<1> QED
  BY <1>12, <1>20, <1>21

-----------------------------------------------------------------------------
(* What assertEntryInput() lets through. *)
ArchiveInput(list) ==
  /\ Len(list) \in 1..MAX_ENTRIES
  /\ \A k \in 1..Len(list) :
       /\ list[k].path \notin UnsafePaths /\ ~(DataLength(list[k].data) > MAX_ENTRY_BYTES)
       /\ \A j \in 1..k - 1 : list[j].path # list[k].path

LEMMA InputChecked ==
  ASSUME NEW list \in Seq(ArchiveEntries)
  PROVE  InputError(list) = "NONE" <=> ArchiveInput(list)
<1> DEFINE Unsafe(k) == list[k].path \in UnsafePaths
           Twice(k) == \E j \in 1..k - 1 : list[j].path = list[k].path
           Large(k) == DataLength(list[k].data) > MAX_ENTRY_BYTES
           wrong == {k \in DOMAIN list : Unsafe(k) \/ Twice(k) \/ Large(k)}
           limit == list = <<>> \/ Len(list) > MAX_ENTRIES
<1>1. InputError(list) =
        IF limit THEN "LIMIT" ELSE IF wrong = {} THEN "NONE"
        ELSE IF Unsafe(Min(wrong)) THEN "UNSAFE_ARCHIVE_PATH"
        ELSE IF Twice(Min(wrong)) THEN "DUPLICATE_ARCHIVE_PATH" ELSE "LIMIT"
  BY Zenon DEF InputError
<1>2. ~limit <=> Len(list) \in 1..MAX_ENTRIES
  BY ZipArchiveAssumption
<1>3. wrong = {} <=> \A k \in 1..Len(list) : ~Unsafe(k) /\ ~Twice(k) /\ ~Large(k)
  <2>1. DOMAIN list = 1..Len(list)
    OBVIOUS
  <2> HIDE DEF Unsafe, Twice, Large
  <2>2. \A k : k \in wrong <=> k \in DOMAIN list /\ (Unsafe(k) \/ Twice(k) \/ Large(k))
    OBVIOUS
  <2> HIDE DEF wrong
  <2> QED
    BY <2>1, <2>2, Zenon
<1>4. ArchiveInput(list) <=> ~limit /\ wrong = {}
  BY <1>2, <1>3, Zenon DEF ArchiveInput
<1> HIDE DEF wrong, limit, Unsafe, Twice, Large
<1> QED
  BY <1>1, <1>4

(* How far two lists agree, as much is written for them. *)
LEMMA WrittenSame ==
  ASSUME NEW list \in Seq(ArchiveEntries), NEW other \in Seq(ArchiveEntries), NEW n \in Nat,
         n <= Len(list), n <= Len(other), \A k \in 1..n : list[k] = other[k]
  PROVE  \A k \in 0..n : Written(list)[k] = Written(other)[k]
<1> DEFINE v == Written(list)
           w == Written(other)
           good == {k \in 0..n : v[k] = w[k]}
<1>1. WrittenOK(v, list) /\ WrittenOK(w, other)
  BY WrittenAre
<1> HIDE DEF v, w
<1>2. 0 \in good
  BY <1>1 DEF WrittenOK
<1>3. ASSUME NEW k \in 1..n, k - 1 \in good PROVE k \in good
  <2>1. k \in 1..Len(list) /\ k \in 1..Len(other)
    OBVIOUS
  <2>2. v[k] = WriteEntry(v[k - 1], list[k]) /\ w[k] = WriteEntry(w[k - 1], other[k])
    BY <1>1, <2>1 DEF WrittenOK
  <2> QED
    BY <1>3, <2>2
<1>4. good = 0..n
  <2>1. good \in SUBSET (0..n)
    OBVIOUS
  <2> HIDE DEF good
  <2> QED
    BY <1>2, <1>3, <2>1, UpTo
<1> QED
  BY <1>4 DEF v, w

LEMMA WrittenCentrals ==
  ASSUME NEW list \in Seq(ArchiveEntries), NEW w, WrittenOK(w, list)
  PROVE  \A k \in 0..Len(list) : w[k] \in WriterState /\ Len(w[k].centrals) = k
<1> DEFINE n == Len(list)
           good == {k \in 0..n : Len(w[k].centrals) = k}
<1>1. n \in Nat /\ 0 \in good
  BY DEF WrittenOK
<1>2. ASSUME NEW k \in 1..n, k - 1 \in good PROVE k \in good
  <2>1. k - 1 \in 0..n /\ w[k] = WriteEntry(w[k - 1], list[k]) /\ list[k] \in ArchiveEntries
    BY <1>1 DEF WrittenOK
  <2>2. w[k - 1] \in WriterState
    BY <2>1 DEF WrittenOK
  <2>3. AddsEntry(w[k - 1], w[k], list[k])
    BY <2>1, <2>2, EntryAdded
  <2>4. Len(w[k].centrals) = Len(w[k - 1].centrals) + 1
    BY <2>1, <2>2, <2>3, CentralAdded
  <2> QED
    BY <1>2, <2>1, <2>4
<1>3. good = 0..n
  <2>1. good \in SUBSET (0..n)
    OBVIOUS
  <2> HIDE DEF good, n
  <2> QED
    BY <1>1, <1>2, <2>1, UpTo
<1> QED
  BY <1>3 DEF WrittenOK

(* An archive that has what is written in the end has all that was. *)
LEMMA AgreeBefore ==
  ASSUME NEW parts \in Seq(Part), NEW c \in Nat, NEW state \in WriterState, NEW entry \in ArchiveEntries,
         Agree(parts, c, WriteEntry(state, entry))
  PROVE  Agree(parts, c, state)
<1> DEFINE after == WriteEntry(state, entry)
           k == Len(state.centrals)
           m == Len(state.locals)
<1>1. AddsEntry(state, after, entry) /\ Agree(parts, c, after) /\ after \in WriterState
  BY EntryAdded, WriteEntryType
<1> HIDE DEF after
<1>2. /\ k \in Nat /\ Len(after.centrals) = k + 1
      /\ \A j \in 1..k : after.centrals[j] = state.centrals[j]
  BY <1>1, CentralAdded
<1>3. /\ m \in Nat /\ Len(after.locals) \in Nat /\ m <= Len(after.locals)
      /\ \A i \in 1..m : after.locals[i] = state.locals[i]
  BY <1>1 DEF AddsEntry, WriterState
<1>4. \A j \in 1..k : j \in 1..k + 1
  BY <1>2
<1>5. \A i \in 1..m : i \in 1..Len(after.locals)
  BY <1>3
<1>6. m <= Len(parts) /\ c + k <= Len(parts)
  BY <1>1, <1>2, <1>3 DEF Agree
<1>7. \A i \in 1..m : parts[i] = state.locals[i]
  BY <1>1, <1>3, <1>5 DEF Agree
<1>8. \A j \in 1..k : parts[c + j] = state.centrals[j]
  BY <1>1, <1>2, <1>4 DEF Agree
<1> QED
  BY <1>6, <1>7, <1>8 DEF Agree

(* Where the parts of an archive lie is where the writer says. *)
LEMMA AllLaid ==
  ASSUME NEW list \in Seq(ArchiveEntries), NEW w, WrittenOK(w, list),
         NEW parts \in Seq(Part), NEW at, EndsOK(at, parts), NEW c \in Nat,
         Agree(parts, c, w[Len(list)])
  PROVE  \A k \in 0..Len(list) : Laid(parts, at, c, w[k])
<1> DEFINE n == Len(list)
           agree == {k \in 0..n : Agree(parts, c, w[n - k])}
           laid == {k \in 0..n : Laid(parts, at, c, w[k])}
<1>1. n \in Nat /\ 0 \in agree /\ n - 0 = n
  OBVIOUS
<1>2. ASSUME NEW k \in 1..n
      PROVE  /\ k - 1 \in 0..n /\ w[k - 1] \in WriterState /\ list[k] \in ArchiveEntries
             /\ w[k] = WriteEntry(w[k - 1], list[k])
  BY <1>1 DEF WrittenOK
<1>3. ASSUME NEW k \in 1..n, k - 1 \in agree PROVE k \in agree
  <2> DEFINE i == n - (k - 1)
  <2>1. i \in 1..n /\ i - 1 = n - k
    BY <1>1
  <2>2. Agree(parts, c, w[i])
    BY <1>3
  <2> HIDE DEF i
  <2>3. Agree(parts, c, w[i - 1])
    BY <1>2, <2>1, <2>2, AgreeBefore
  <2> QED
    BY <2>1, <2>3
<1>4. agree = 0..n
  <2>1. agree \in SUBSET (0..n)
    OBVIOUS
  <2> HIDE DEF agree, n
  <2> QED
    BY <1>1, <1>3, <2>1, UpTo
<1>5. \A k \in 0..n : Agree(parts, c, w[k])
  <2> SUFFICES ASSUME NEW k \in 0..n PROVE Agree(parts, c, w[k])
    OBVIOUS
  <2>1. n - k \in 0..n /\ n - (n - k) = k
    BY <1>1
  <2>2. n - k \in agree
    BY <1>4, <2>1
  <2> QED
    BY <2>1, <2>2
<1>6. 0 \in laid
  <2>1. w[0] = [locals |-> <<>>, centrals |-> <<>>, offset |-> 0] /\ w[0] \in WriterState
    BY <1>1 DEF WrittenOK
  <2>2. Len(w[0].locals) = 0 /\ w[0].offset = 0 /\ at[0] = 0 /\ 0 \in 0..n
    BY <1>1, <2>1 DEF EndsOK
  <2> QED
    BY <1>5, <2>1, <2>2 DEF Laid
<1>7. ASSUME NEW k \in 1..n, k - 1 \in laid PROVE k \in laid
  <2>1. Agree(parts, c, WriteEntry(w[k - 1], list[k]))
    BY <1>2, <1>5
  <2>2. HasEntry(parts, Len(w[k - 1].locals), c + Len(w[k - 1].centrals) + 1, list[k], w[k - 1].offset)
    BY <1>2, <2>1, EntryIsThere
  <2>3. Laid(parts, at, c, w[k - 1])
    BY <1>7
  <2>4. Laid(parts, at, c, WriteEntry(w[k - 1], list[k]))
    BY <1>2, <2>2, <2>3, LaidStep
  <2> QED
    BY <1>2, <2>4
<1>8. laid = 0..n
  <2>1. laid \in SUBSET (0..n)
    OBVIOUS
  <2> HIDE DEF laid, n
  <2> QED
    BY <1>1, <1>6, <1>7, <2>1, UpTo
<1> QED
  BY <1>8

-----------------------------------------------------------------------------
(* The reader's loop. *)
ReadingOK(r, parts, end) ==
  /\ r \in [0..end.count -> ReaderState]
  /\ r[0] = [reason |-> "NONE", local |-> 0, central |-> end.offset, entries |-> <<>>]
  /\ \A k \in 1..end.count : r[k] = ReadEntry(parts, r[k - 1])

LEMMA ReadingAre ==
  ASSUME NEW parts \in Seq(Part), NEW end \in EndPart
  PROVE  ReadingOK(Reading(parts, end), parts, end)
<1> DEFINE n == end.count
           start == [reason |-> "NONE", local |-> 0, central |-> end.offset, entries |-> <<>>]
           step == [x \in (1..n) \X ReaderState |-> ReadEntry(parts, x[2])]
<1>1. n \in Nat
  BY DEF EndPart
<1>2. step \in [(1..n) \X ReaderState -> ReaderState]
  BY <1>1, ReadEntryType
<1>3. start \in ReaderState
  BY DEF ReaderState, EndPart
<1> HIDE DEF step, start
<1>4. PICK w : IsLoop(w, n, ReaderState, step, start)
  BY <1>1, <1>2, <1>3, LoopRuns
<1>5. \A k \in 1..n : w[k] = ReadEntry(parts, w[k - 1])
  <2> SUFFICES ASSUME NEW k \in 1..n PROVE w[k] = ReadEntry(parts, w[k - 1])
    OBVIOUS
  <2>1. k - 1 \in 0..n
    BY <1>1
  <2>2. w[k - 1] \in ReaderState
    BY <1>4, <2>1 DEF IsLoop
  <2>3. w[k] = step[<<k, w[k - 1]>>]
    BY <1>4 DEF IsLoop
  <2> QED
    BY <1>1, <2>2, <2>3 DEF step
<1>6. w = [k \in 0..n |-> IF k = 0 THEN start ELSE ReadEntry(parts, w[k - 1])]
  BY <1>4, <1>5 DEF IsLoop
<1> DEFINE g == Reading(parts, end)
<1>7. g = [k \in 0..n |-> IF k = 0 THEN start ELSE ReadEntry(parts, g[k - 1])]
  BY <1>6 DEF Reading, start
<1> HIDE DEF g
<1> DEFINE good == {k \in 0..n : g[k] = w[k]}
<1>8. 0 \in good
  BY <1>1, <1>4, <1>7 DEF IsLoop
<1>9. \A k \in 1..n : k - 1 \in good => k \in good
  BY <1>1, <1>5, <1>7
<1>10. good = 0..n
  <2>1. good \in SUBSET (0..n)
    OBVIOUS
  <2> HIDE DEF good, n
  <2> QED
    BY <1>1, <1>8, <1>9, <2>1, UpTo
<1>11. g = w
  BY <1>6, <1>7, <1>10
<1> QED
  BY <1>4, <1>5, <1>11 DEF IsLoop, ReadingOK, g, start

(* A reading that fails stays failed. *)
LEMMA NeverFailed ==
  ASSUME NEW parts \in Seq(Part), NEW end \in EndPart, NEW r, ReadingOK(r, parts, end),
         r[end.count].reason = "NONE"
  PROVE  \A k \in 0..end.count : r[k].reason = "NONE"
<1> DEFINE n == end.count
           good == {k \in 0..n : r[n - k].reason = "NONE"}
<1>1. n \in Nat /\ n - 0 = n
  BY DEF EndPart
<1>2. 0 \in good
  BY <1>1
<1>3. ASSUME NEW k \in 1..n, k - 1 \in good PROVE k \in good
  <2> DEFINE i == n - (k - 1)
  <2>1. i \in 1..n /\ i - 1 = n - k /\ i - 1 \in 0..n
    BY <1>1
  <2>2. r[i].reason = "NONE"
    BY <1>3
  <2> HIDE DEF i
  <2>3. r[i] = ReadEntry(parts, r[i - 1]) /\ r[i - 1] \in ReaderState
    BY <2>1 DEF ReadingOK
  <2>4. r[i - 1].reason = "NONE"
    BY <2>2, <2>3, ReadEntryType
  <2> QED
    BY <2>1, <2>4
<1>4. good = 0..n
  <2>1. good \in SUBSET (0..n)
    OBVIOUS
  <2> HIDE DEF good, n
  <2> QED
    BY <1>1, <1>2, <1>3, <2>1, UpTo
<1> SUFFICES ASSUME NEW k \in 0..n PROVE r[k].reason = "NONE"
  OBVIOUS
<1>5. n - k \in 0..n /\ n - (n - k) = k
  BY <1>1
<1>6. n - k \in good
  BY <1>4, <1>5
<1> QED
  BY <1>5, <1>6

-----------------------------------------------------------------------------
(* The places of two lists and one more element behind each other. *)
LEMMA ListsBehind ==
  ASSUME NEW S, NEW a \in Seq(S), NEW b \in Seq(S), NEW x \in S
  PROVE  LET all == a \o b \o <<x>>
             m == Len(a)
             k == Len(b) IN
         /\ all \in Seq(S) /\ Len(all) = m + k + 1 /\ all[m + k + 1] = x
         /\ \A i \in 1..m : all[i] = a[i]
         /\ \A j \in 1..k : all[m + j] = b[j]
<1> DEFINE m == Len(a)
           k == Len(b)
           ab == a \o b
           all == ab \o <<x>>
<1>1. /\ ab \in Seq(S) /\ Len(ab) = m + k
      /\ \A i \in 1..m + k : ab[i] = IF i <= m THEN a[i] ELSE b[i - m]
  BY ConcatProperties, Zenon
<1>2. m \in Nat /\ k \in Nat
  OBVIOUS
<1> HIDE DEF ab, m, k
<1>3. /\ all \in Seq(S) /\ Len(all) = m + k + 1 /\ all[m + k + 1] = x
      /\ \A i \in 1..m + k : all[i] = ab[i]
  BY <1>1, <1>2
<1> HIDE DEF all
<1>4. \A i \in 1..m : i \in 1..m + k /\ i <= m
  BY <1>2
<1>5. \A i \in 1..m : all[i] = a[i]
  BY <1>1, <1>3, <1>4
<1>6. ASSUME NEW j \in 1..k PROVE all[m + j] = b[j]
  <2>1. m + j \in 1..m + k /\ ~(m + j <= m) /\ (m + j) - m = j
    BY <1>2
  <2> DEFINE i == m + j
  <2>2. i \in 1..m + k /\ ~(i <= m) /\ i - m = j
    BY <2>1
  <2> HIDE DEF i
  <2>3. all[i] = b[j]
    BY <1>1, <1>3, <2>2
  <2> QED
    BY <2>3 DEF i
<1> QED
  BY <1>3, <1>5, <1>6 DEF all, ab, m, k

LEMMA OnlyListsBehind ==
  ASSUME NEW S, NEW a \in Seq(S), NEW b \in Seq(S), NEW x \in S, NEW all \in Seq(S),
         Len(all) = Len(a) + Len(b) + 1, all[Len(a) + Len(b) + 1] = x,
         \A i \in 1..Len(a) : all[i] = a[i],
         \A j \in 1..Len(b) : all[Len(a) + j] = b[j]
  PROVE  all = a \o b \o <<x>>
<1> DEFINE m == Len(a)
           k == Len(b)
           other == a \o b \o <<x>>
<1>1. /\ other \in Seq(S) /\ Len(other) = m + k + 1 /\ other[m + k + 1] = x
      /\ \A i \in 1..m : other[i] = a[i]
      /\ \A j \in 1..k : other[m + j] = b[j]
  BY ListsBehind
<1>2. m \in Nat /\ k \in Nat
  OBVIOUS
<1>3. Len(all) = m + k + 1 /\ all[m + k + 1] = x
      /\ (\A i \in 1..m : all[i] = a[i]) /\ (\A j \in 1..k : all[m + j] = b[j])
  OBVIOUS
<1> HIDE DEF other, m, k
<1>4. ASSUME NEW i \in 1..m + k + 1 PROVE all[i] = other[i]
  <2>1. CASE i \in 1..m
    BY <1>1, <1>3, <2>1
  <2>2. CASE i = m + k + 1
    BY <1>1, <1>3, <2>2
  <2>3. CASE i \notin 1..m /\ i # m + k + 1
    <3>1. PICK j \in 1..k : i = m + j
      <4>1. i - m \in 1..k /\ i = m + (i - m)
        BY <1>2, <2>3
      <4> QED
        BY <4>1
    <3> QED
      BY <1>1, <1>3, <3>1
  <2> QED
    BY <2>1, <2>2, <2>3
<1>5. all = other
  BY <1>1, <1>3, <1>4
<1> QED
  BY <1>5 DEF other

(* The parts of an archive that is written. *)
EndOf(list) ==
  LET last == Written(list)[Len(list)]
  IN  [kind |-> "end", plain |-> TRUE, onDisk |-> Len(list), count |-> Len(list),
       size |-> Size(last.centrals), offset |-> last.offset]

LEMMA SizeIsNat ==
  ASSUME NEW parts \in Seq(Part)
  PROVE  Size(parts) \in Nat
<1>1. Len(parts) \in 0..Len(parts)
  OBVIOUS
<1> QED
  BY <1>1, EndsAre DEF EndsOK, Size

LEMMA EndIsPart ==
  ASSUME NEW list \in Seq(ArchiveEntries)
  PROVE  EndOf(list) \in EndPart /\ EndOf(list) \in Part
<1> DEFINE last == Written(list)[Len(list)]
<1>1. last \in WriterState
  <2>1. Len(list) \in 0..Len(list)
    OBVIOUS
  <2> QED
    BY <2>1, WrittenAre DEF WrittenOK
<1> HIDE DEF last
<1>2. Size(last.centrals) \in Nat /\ last.offset \in Nat /\ Len(list) \in Nat
  BY <1>1, SizeIsNat DEF WriterState
<1>3. EndOf(list) \in EndPart
  BY <1>2 DEF EndOf, EndPart, last
<1> QED
  BY <1>3 DEF Part

WrittenParts(parts, list) ==
  LET last == Written(list)[Len(list)]
      m == Len(last.locals) IN
  /\ last \in WriterState /\ Len(last.centrals) = Len(list) /\ m \in Nat
  /\ parts \in Seq(Part) /\ Len(parts) = m + Len(list) + 1
  /\ Agree(parts, m, last) /\ parts[m + Len(list) + 1] = EndOf(list)

LEMMA PartsAre ==
  ASSUME NEW list \in Seq(ArchiveEntries)
  PROVE  WrittenParts(Parts(list), list)
<1> DEFINE n == Len(list)
           last == Written(list)[n]
           a == last.locals
           b == last.centrals
           x == EndOf(list)
           parts == Parts(list)
<1>1. last \in WriterState /\ Len(b) = n /\ n \in Nat
  <2>1. n \in 0..n
    OBVIOUS
  <2> QED
    BY <2>1, WrittenAre, WrittenCentrals
<1>2. a \in Seq(Part) /\ b \in Seq(Part) /\ x \in Part
  BY <1>1, EndIsPart DEF WriterState
<1>3. parts = a \o b \o <<x>>
  BY DEF Parts, EndOf
<1> HIDE DEF a, b, x, parts, n
<1>4. /\ parts \in Seq(Part) /\ Len(parts) = Len(a) + Len(b) + 1 /\ parts[Len(a) + Len(b) + 1] = x
      /\ \A i \in 1..Len(a) : parts[i] = a[i]
      /\ \A j \in 1..Len(b) : parts[Len(a) + j] = b[j]
  BY <1>2, <1>3, ListsBehind
<1>5. Len(a) \in Nat
  BY <1>2
<1>6. Len(a) <= Len(parts) /\ Len(a) + Len(b) <= Len(parts)
  BY <1>1, <1>4, <1>5
<1>7. Agree(parts, Len(a), last)
  BY <1>4, <1>6 DEF Agree, a, b
<1> QED
  BY <1>1, <1>4, <1>5, <1>7 DEF WrittenParts, a, b, x, parts, n

(* What the reader requires of the whole archive. *)
WholeArchive(size, end, result) ==
  /\ ~(size > MAX_BUNDLE_BYTES) /\ ~(size < 22) /\ end # Nothing /\ end.plain
  /\ ~(end.count > MAX_ENTRIES) /\ end.count # 0 /\ end.onDisk = end.count
  /\ end.offset + end.size = size - 22
  /\ result.reason = "NONE" /\ CompleteReading(result, end, size)

LEMMA ReadIs ==
  ASSUME NEW parts, NEW size, size = Size(parts), NEW end, end = PartAt(parts, size - 22, "end"),
         NEW result, result = Reading(parts, end)[end.count]
  PROVE  \/ /\ WholeArchive(size, end, result)
            /\ Read(parts) = [reason |-> "NONE", entries |-> result.entries]
         \/ ~WholeArchive(size, end, result) /\ Read(parts).reason # "NONE"
<1>1. Read(parts) =
        IF size > MAX_BUNDLE_BYTES THEN Refused("ARCHIVE_LIMIT_EXCEEDED")
        ELSE IF size < 22 \/ end = Nothing \/ ~end.plain THEN Refused("INVALID_ARCHIVE")
        ELSE IF end.count > MAX_ENTRIES THEN Refused("ARCHIVE_LIMIT_EXCEEDED")
        ELSE IF end.count = 0 \/ end.onDisk # end.count \/ end.offset + end.size # size - 22
             THEN Refused("INVALID_ARCHIVE")
        ELSE IF result.reason # "NONE" THEN Refused(result.reason)
        ELSE IF ~CompleteReading(result, end, size) THEN Refused("INVALID_ARCHIVE")
        ELSE [reason |-> "NONE", entries |-> result.entries]
  BY Zenon DEF Read
<1>2. /\ Refused("ARCHIVE_LIMIT_EXCEEDED").reason # "NONE" /\ Refused("INVALID_ARCHIVE").reason # "NONE"
      /\ result.reason # "NONE" => Refused(result.reason).reason # "NONE"
  BY DEF Refused
<1> DEFINE reading == [reason |-> "NONE", entries |-> result.entries]
           over == end.offset + end.size = size - 22
           large == size > MAX_BUNDLE_BYTES
           small == size < 22
           many == end.count > MAX_ENTRIES
           done == CompleteReading(result, end, size)
<1>3. WholeArchive(size, end, result) <=>
        /\ ~large /\ ~small /\ end # Nothing /\ end.plain /\ ~many /\ end.count # 0
        /\ end.onDisk = end.count /\ over /\ result.reason = "NONE" /\ done
  BY Zenon DEF WholeArchive
<1> HIDE DEF reading, over, large, small, many, done
<1>4. CASE WholeArchive(size, end, result)
  <2>1. Read(parts) = reading
    BY <1>1, <1>3, <1>4, Zenon DEF reading, over, large, small, many, done
  <2> QED
    BY <1>4, <2>1 DEF reading
<1>5. CASE ~WholeArchive(size, end, result)
  <2>1. Read(parts).reason # "NONE"
    BY <1>1, <1>2, <1>3, <1>5, Zenon DEF reading, over, large, small, many, done
  <2> QED
    BY <1>5, <2>1
<1> QED
  BY <1>4, <1>5

-----------------------------------------------------------------------------
(* How long the directory is. *)
LEMMA DirectoryLength ==
  ASSUME NEW parts \in Seq(Part), NEW at, EndsOK(at, parts), NEW ws \in WriterState, NEW c \in Nat,
         Agree(parts, c, ws)
  PROVE  at[c + Len(ws.centrals)] - at[c] = Size(ws.centrals)
<1> DEFINE q == ws.centrals
           n == Len(q)
           b == Ends(q)
<1>1. q \in Seq(Part) /\ n \in Nat
  BY DEF WriterState
<1>2. c + n <= Len(parts) /\ \A j \in 1..n : parts[c + j] = q[j]
  BY DEF Agree
<1>3. EndsOK(b, q)
  BY <1>1, EndsAre
<1>4. Size(ws.centrals) = b[n]
  BY DEF Size
<1>5. b[n] \in Nat /\ b[0] = 0
  BY <1>1, <1>3 DEF EndsOK
<1> HIDE DEF q, n, b
<1>6. PICK j \in Nat : j = 0
  OBVIOUS
<1>7. SameParts(parts, c, q, j, n)
  BY <1>1, <1>2, <1>6 DEF n, SameParts
<1>8. SameDistance(at, c, b, j, n)
  BY <1>1, <1>3, <1>7, SameLength
<1>9. at[c + n] - at[c] = b[n] - b[0]
  <2>1. n \in 0..n /\ j + n = n
    BY <1>1, <1>6
  <2> QED
    BY <1>6, <1>8, <2>1 DEF SameDistance
<1> QED
  BY <1>4, <1>5, <1>9 DEF q, n

ReadSoFar(state, list, k) ==
  Len(state.entries) = k /\ \A i \in 1..k : state.entries[i] = list[i]

(* The reader goes through all the entries of an archive that is written. *)
LEMMA ReadsEntries ==
  ASSUME NEW list \in Seq(ArchiveEntries), ArchiveInput(list),
         NEW parts \in Seq(Part), NEW at, at = Ends(parts), EndsOK(at, parts), NEW c \in Nat,
         \A k \in 0..Len(list) : Laid(parts, at, c, Written(list)[k]),
         NEW end \in EndPart, end.count = Len(list), end.offset = at[c],
         NEW r, ReadingOK(r, parts, end)
  PROVE  /\ Follows(parts, at, c, Written(list)[Len(list)], r[Len(list)])
         /\ r[Len(list)].entries = list
<1> DEFINE n == Len(list)
           w == Written(list)
           good == {k \in 0..n : Follows(parts, at, c, w[k], r[k]) /\ ReadSoFar(r[k], list, k)}
<1>1. n \in Nat /\ WrittenOK(w, list) /\ \A k \in 0..n : Laid(parts, at, c, w[k])
  BY WrittenAre
<1> HIDE DEF w
<1>2. \A k \in 0..n : w[k] \in WriterState /\ Len(w[k].centrals) = k
  BY <1>1, WrittenCentrals
<1>3. \A k \in 0..n : r[k] \in ReaderState
  BY DEF ReadingOK
<1>4. 0 \in good
  <2>1. 0 \in 0..n /\ w[0].offset = 0 /\ Len(w[0].centrals) = 0 /\ c + 0 = c
    BY <1>1, <1>2 DEF WrittenOK
  <2>2. r[0] = [reason |-> "NONE", local |-> 0, central |-> at[c], entries |-> <<>>]
    BY DEF ReadingOK
  <2>3. Follows(parts, at, c, w[0], r[0])
    BY <1>1, <1>3, <2>1, <2>2 DEF Follows
  <2>4. ReadSoFar(r[0], list, 0)
    BY <2>2 DEF ReadSoFar
  <2> QED
    BY <2>1, <2>3, <2>4
<1>5. ASSUME NEW k \in 1..n, k - 1 \in good PROVE k \in good
  <2> DEFINE j == k - 1
             entry == list[k]
  <2>1. j \in 0..n /\ k \in 0..n /\ j + 1 = k /\ entry \in ArchiveEntries
    BY <1>1
  <2>2. Follows(parts, at, c, w[j], r[j]) /\ ReadSoFar(r[j], list, j)
    BY <1>5
  <2>3. w[k] = WriteEntry(w[j], entry) /\ r[k] = ReadEntry(parts, r[j])
    BY <1>1 DEF WrittenOK, ReadingOK
  <2>4. r[j].entries \in Seq(ArchiveEntries)
    BY <1>3, <2>1 DEF ReaderState
  <2>5. Fits(entry, r[j].entries)
    <3>1. DOMAIN r[j].entries = 1..j
      BY <2>2, <2>4 DEF ReadSoFar
    <3>2. \A i \in 1..j : r[j].entries[i].path # entry.path
      BY <2>2 DEF ReadSoFar, ArchiveInput
    <3>3. entry.path \notin UnsafePaths /\ ~(DataLength(entry.data) > MAX_ENTRY_BYTES)
      BY DEF ArchiveInput
    <3> HIDE DEF entry, j
    <3> QED
      BY <3>1, <3>2, <3>3 DEF Fits
  <2>6. HasEntry(parts, Len(w[j].locals), c + Len(w[j].centrals) + 1, entry, w[j].offset)
    <3>1. Agree(parts, c, WriteEntry(w[j], entry))
      BY <1>1, <2>1, <2>3 DEF Laid
    <3>2. w[j] \in WriterState
      BY <1>2, <2>1
    <3> HIDE DEF j, entry
    <3> QED
      BY <2>1, <3>1, <3>2, EntryIsThere
  <2> HIDE DEF j, entry
  <2>7. FollowsNext(parts, at, c, w[j], r[j], entry)
    BY <2>1, <2>2, <2>5, <2>6, ReadOne
  <2>8. Follows(parts, at, c, w[k], r[k]) /\ r[k].entries = Append(r[j].entries, entry)
    BY <2>3, <2>7 DEF FollowsNext
  <2>9. ReadSoFar(r[k], list, k)
    <3> DEFINE old == r[j].entries
    <3>1. Len(old) = j /\ \A i \in 1..j : old[i] = list[i]
      BY <2>2 DEF ReadSoFar
    <3> HIDE DEF old
    <3>2. old \in Seq(ArchiveEntries)
      BY <2>4 DEF old
    <3>3. /\ Len(Append(old, entry)) = j + 1 /\ Append(old, entry)[j + 1] = entry
          /\ \A i \in 1..j : Append(old, entry)[i] = old[i]
      BY <2>1, <3>1, <3>2
    <3>4. \A i \in 1..k : i \in 1..j \/ i = k
      BY <2>1
    <3>5. r[k].entries = Append(old, entry) /\ entry = list[k]
      BY <2>8 DEF old, entry
    <3> QED
      BY <2>1, <3>1, <3>3, <3>4, <3>5 DEF ReadSoFar
  <2> QED
    BY <2>1, <2>8, <2>9
<1>6. good = 0..n
  <2>1. good \in SUBSET (0..n)
    OBVIOUS
  <2> HIDE DEF good, n
  <2> QED
    BY <1>1, <1>4, <1>5, <2>1, UpTo
<1>7. n \in 0..n
  BY <1>1
<1>8. Follows(parts, at, c, w[n], r[n]) /\ ReadSoFar(r[n], list, n)
  BY <1>6, <1>7
<1>9. r[n].entries = list
  <2> DEFINE es == r[n].entries
  <2>1. es \in Seq(ArchiveEntries)
    BY <1>3, <1>7 DEF ReaderState
  <2>2. Len(es) = n /\ \A i \in 1..n : es[i] = list[i]
    BY <1>8 DEF ReadSoFar
  <2> HIDE DEF es
  <2>3. es = list
    BY <2>1, <2>2
  <2> QED
    BY <2>3 DEF es
<1> QED
  BY <1>8, <1>9 DEF w

(* The reader accepts what is written and reads what it was made of. *)
LEMMA ReadsAllWritten ==
  ASSUME NEW list \in Seq(ArchiveEntries), ArchiveInput(list), ~(Size(Parts(list)) > MAX_BUNDLE_BYTES)
  PROVE  Read(Parts(list)) = [reason |-> "NONE", entries |-> list]
<1> DEFINE n == Len(list)
           w == Written(list)
           parts == Parts(list)
           at == Ends(parts)
           m == Len(w[n].locals)
           end == EndOf(list)
           i == m + n + 1
           size == Size(parts)
           r == Reading(parts, end)
<1>1. WrittenParts(parts, list)
  BY PartsAre
<1>2. /\ w[n] \in WriterState /\ Len(w[n].centrals) = n /\ m \in Nat
      /\ parts \in Seq(Part) /\ Len(parts) = i /\ Agree(parts, m, w[n]) /\ parts[i] = end
  BY <1>1 DEF WrittenParts
<1>3. n \in Nat /\ WrittenOK(w, list)
  BY WrittenAre
<1>4. /\ end \in EndPart /\ end.count = n /\ end.onDisk = n /\ end.plain = TRUE /\ end.kind = "end"
      /\ end.offset = w[n].offset /\ end.size = Size(w[n].centrals)
  BY EndIsPart DEF EndOf
<1>5. ~(size > MAX_BUNDLE_BYTES) /\ size = Size(parts) /\ ArchiveInput(list)
  OBVIOUS
<1> HIDE DEF w, parts, end, size
<1>6. EndsOK(at, parts)
  BY <1>2, EndsAre
<1>7. size = at[i] /\ at = Ends(parts)
  BY <1>2, <1>5 DEF Size
<1> HIDE DEF at, r
<1>8. \A k \in 0..n : Laid(parts, at, m, w[k])
  <2> HIDE DEF m
  <2> QED
    BY <1>2, <1>3, <1>6, AllLaid
<1>9. at[m] = w[n].offset
  BY <1>3, <1>8 DEF Laid
<1>10. i \in 1..Len(parts) /\ i - 1 = m + n /\ m + n \in 0..Len(parts) /\ m \in 0..Len(parts)
  BY <1>2, <1>3
<1>11. at[i] = at[m + n] + 22 /\ at[m + n] \in Nat /\ at[m] \in Nat /\ at[i - 1] = at[m + n]
  <2>1. at[i] = at[i - 1] + Length(parts[i])
    BY <1>6, <1>10 DEF EndsOK
  <2>2. Length(parts[i]) = 22
    BY <1>2, <1>4 DEF Length
  <2> QED
    BY <1>6, <1>10, <2>1, <2>2 DEF EndsOK
<1>12. PartAt(parts, size - 22, "end") = end
  <2>1. at[i - 1] = size - 22
    BY <1>7, <1>11
  <2> HIDE DEF i
  <2> QED
    BY <1>2, <1>4, <1>6, <1>7, <1>10, <2>1, FoundThere
<1>13. ReadingOK(r, parts, end)
  BY <1>2, <1>4, ReadingAre DEF r
<1>14. Follows(parts, at, m, w[n], r[n]) /\ r[n].entries = list
  <2> HIDE DEF m
  <2> QED
    BY <1>2, <1>4, <1>5, <1>6, <1>7, <1>8, <1>9, <1>13, ReadsEntries DEF w
<1>15. at[m + n] - at[m] = end.size
  <2> HIDE DEF m
  <2> QED
    BY <1>2, <1>4, <1>6, DirectoryLength
<1>16. end.size \in Nat /\ end.offset \in Nat
  BY <1>4, <1>11, <1>9, <1>2, SizeIsNat DEF WriterState
<1>17. end.offset + end.size = size - 22
  BY <1>4, <1>7, <1>9, <1>11, <1>15, <1>16
<1>18. r[n].reason = "NONE" /\ CompleteReading(r[n], end, size)
  <2>1. r[n].reason = "NONE" /\ r[n].local = w[n].offset /\ r[n].central = at[m + n]
    BY <1>2, <1>14 DEF Follows
  <2>2. at[m + n] = size - 22
    BY <1>7, <1>11
  <2> QED
    BY <1>4, <2>1, <2>2 DEF CompleteReading
<1>19. WholeArchive(size, end, r[n])
  <2>1. end # Nothing
    BY <1>4, KindOfPart DEF Part
  <2>2. n # 0 /\ ~(n > MAX_ENTRIES)
    BY <1>5, ZipArchiveAssumption DEF ArchiveInput
  <2>3. ~(size < 22)
    BY <1>7, <1>11
  <2> QED
    BY <1>4, <1>5, <1>17, <1>18, <2>1, <2>2, <2>3 DEF WholeArchive
<1>20. Read(parts) = [reason |-> "NONE", entries |-> r[n].entries]
  <2>1. r[n] = Reading(parts, end)[end.count] /\ end = PartAt(parts, size - 22, "end")
    BY <1>4, <1>12 DEF r
  <2> QED
    BY <1>5, <1>19, <2>1, ReadIs
<1> QED
  BY <1>14, <1>20 DEF parts

-----------------------------------------------------------------------------
(* What the reader has read is what the writer would write for it. *)
ReadCanonical(parts, at, c, state, k) ==
  /\ state.entries \in Seq(ArchiveEntries) /\ Len(state.entries) = k
  /\ \A i \in 1..k :
       /\ state.entries[i].path \notin UnsafePaths
       /\ ~(DataLength(state.entries[i].data) > MAX_ENTRY_BYTES)
       /\ \A j \in 1..i - 1 : state.entries[j].path # state.entries[i].path
  /\ Follows(parts, at, c, Written(state.entries)[k], state)

(* An entry that is accepted goes on being what would be written. *)
LEMMA CanonicalStep ==
  ASSUME NEW parts \in Seq(Part), NEW at, EndsOK(at, parts), at = Ends(parts), NEW c \in Nat,
         NEW k \in Nat, NEW state, ReadCanonical(parts, at, c, state, k),
         ReadEntry(parts, state).reason = "NONE"
  PROVE  ReadCanonical(parts, at, c, ReadEntry(parts, state), k + 1)
<1> DEFINE es == state.entries
           ws == Written(es)[k]
           after == ReadEntry(parts, state)
<1>1. /\ es \in Seq(ArchiveEntries) /\ Len(es) = k /\ Follows(parts, at, c, ws, state)
      /\ \A i \in 1..k :
           /\ es[i].path \notin UnsafePaths /\ ~(DataLength(es[i].data) > MAX_ENTRY_BYTES)
           /\ \A j \in 1..i - 1 : es[j].path # es[i].path
  BY DEF ReadCanonical
<1>2. PICK entry \in ArchiveEntries :
        Fits(entry, es) /\ FollowsNext(parts, at, c, ws, state, entry)
  <2> HIDE DEF ws
  <2> QED
    BY <1>1, AcceptOne
<1> DEFINE more == Append(es, entry)
<1>3. after.entries = more /\ Follows(parts, at, c, WriteEntry(ws, entry), after)
  BY <1>2 DEF FollowsNext
<1> HIDE DEF es, ws, after
<1>4. /\ more \in Seq(ArchiveEntries) /\ Len(more) = k + 1 /\ more[k + 1] = entry
      /\ \A i \in 1..k : more[i] = es[i]
  BY <1>1
<1> HIDE DEF more
<1>5. Written(more)[k + 1] = WriteEntry(ws, entry)
  <2>1. WrittenOK(Written(more), more)
    BY <1>4, WrittenAre
  <2>2. k + 1 \in 1..Len(more) /\ (k + 1) - 1 = k
    BY <1>4
  <2>3. Written(more)[k + 1] = WriteEntry(Written(more)[k], entry)
    BY <1>4, <2>1, <2>2 DEF WrittenOK
  <2>4. \A i \in 0..k : Written(es)[i] = Written(more)[i]
    <3>1. k <= Len(es) /\ k <= Len(more) /\ \A i \in 1..k : es[i] = more[i]
      BY <1>1, <1>4
    <3> QED
      BY <1>1, <1>4, <3>1, WrittenSame
  <2>5. k \in 0..k
    OBVIOUS
  <2> QED
    BY <2>3, <2>4, <2>5 DEF ws
<1>6. ASSUME NEW i \in 1..k + 1
      PROVE  /\ more[i].path \notin UnsafePaths /\ ~(DataLength(more[i].data) > MAX_ENTRY_BYTES)
             /\ \A j \in 1..i - 1 : more[j].path # more[i].path
  <2>1. CASE i \in 1..k
    <3>1. \A j \in 1..i - 1 : j \in 1..k
      BY <2>1
    <3> QED
      BY <1>1, <1>4, <2>1, <3>1
  <2>2. CASE i = k + 1
    <3>1. DOMAIN es = 1..k /\ i - 1 = k
      BY <1>1, <2>2
    <3>2. more[i] = entry /\ \A j \in 1..i - 1 : more[j] = es[j]
      BY <1>4, <2>2, <3>1
    <3> QED
      BY <1>2, <3>1, <3>2 DEF Fits
  <2> QED
    BY <2>1, <2>2
<1>7. Follows(parts, at, c, Written(more)[k + 1], after)
  BY <1>3, <1>5
<1> QED
  BY <1>3, <1>4, <1>6, <1>7 DEF ReadCanonical, after

LEMMA AcceptsEntries ==
  ASSUME NEW parts \in Seq(Part), NEW at, EndsOK(at, parts), at = Ends(parts),
         NEW c \in 0..Len(parts), NEW end \in EndPart, end.offset = at[c],
         NEW r, ReadingOK(r, parts, end), r[end.count].reason = "NONE"
  PROVE  ReadCanonical(parts, at, c, r[end.count], end.count)
<1> DEFINE n == end.count
           good == {k \in 0..n : ReadCanonical(parts, at, c, r[k], k)}
<1>1. n \in Nat /\ c \in Nat
  BY DEF EndPart
<1>2. \A k \in 0..n : r[k].reason = "NONE" /\ r[k] \in ReaderState
  BY NeverFailed DEF ReadingOK
<1>3. 0 \in good
  <2>1. r[0] = [reason |-> "NONE", local |-> 0, central |-> at[c], entries |-> <<>>] /\ 0 \in 0..n
    BY <1>1 DEF ReadingOK
  <2>2. <<>> \in Seq(ArchiveEntries) /\ Len(<<>>) = 0
    OBVIOUS
  <2> DEFINE w == Written(<<>>)
  <2>3. WrittenOK(w, <<>>)
    BY <2>2, WrittenAre
  <2> HIDE DEF w
  <2>4. w[0] = [locals |-> <<>>, centrals |-> <<>>, offset |-> 0]
    BY <2>3 DEF WrittenOK
  <2>5. w[0] \in WriterState /\ Len(w[0].locals) = 0 /\ Len(w[0].centrals) = 0 /\ w[0].offset = 0
    BY <2>4 DEF WriterState
  <2>6. Agree(parts, c, w[0])
    BY <1>1, <2>5 DEF Agree
  <2>7. Laid(parts, at, c, w[0])
    BY <2>5, <2>6 DEF Laid, EndsOK
  <2>8. Follows(parts, at, c, w[0], r[0])
    BY <1>1, <1>2, <2>1, <2>5, <2>7 DEF Follows
  <2>9. ReadCanonical(parts, at, c, r[0], 0)
    BY <2>1, <2>2, <2>8 DEF ReadCanonical, w
  <2> QED
    BY <2>1, <2>9
<1>4. ASSUME NEW k \in 1..n, k - 1 \in good PROVE k \in good
  <2> DEFINE j == k - 1
  <2>1. j \in Nat /\ j + 1 = k /\ k \in 0..n
    BY <1>1
  <2>2. r[k] = ReadEntry(parts, r[j])
    BY DEF ReadingOK
  <2>3. ReadCanonical(parts, at, c, r[j], j)
    BY <1>4
  <2> HIDE DEF j
  <2>4. ReadEntry(parts, r[j]).reason = "NONE"
    BY <1>2, <2>1, <2>2
  <2>5. ReadCanonical(parts, at, c, ReadEntry(parts, r[j]), j + 1)
    BY <1>1, <2>1, <2>3, <2>4, CanonicalStep
  <2> QED
    BY <2>1, <2>2, <2>5
<1>5. good = 0..n
  <2>1. good \in SUBSET (0..n)
    OBVIOUS
  <2> HIDE DEF good, n
  <2> QED
    BY <1>1, <1>3, <1>4, <2>1, UpTo
<1> QED
  BY <1>1, <1>5

(* Whatever is accepted is the archive of the entries read from it. *)
LEMMA AcceptsOnlyWritten ==
  ASSUME NEW parts \in Seq(Part), Read(parts).reason = "NONE"
  PROVE  CreateArchive(Read(parts).entries) = [error |-> "NONE", parts |-> parts]
<1> DEFINE size == Size(parts)
           at == Ends(parts)
           end == PartAt(parts, size - 22, "end")
           n == end.count
           r == Reading(parts, end)
           es == r[n].entries
<1>1. WholeArchive(size, end, r[n]) /\ Read(parts) = [reason |-> "NONE", entries |-> es]
  BY ReadIs
<1>2. EndsOK(at, parts) /\ size = at[Len(parts)] /\ at = Ends(parts)
  BY EndsAre DEF Size
<1>3. PICK t \in 1..Len(parts) : at[t - 1] = size - 22 /\ parts[t].kind = "end" /\ end = parts[t]
  BY <1>1, PartFound DEF WholeArchive
<1>4. end \in EndPart
  BY <1>3, KindOfPart
<1>5. ReadingOK(r, parts, end)
  BY <1>4, ReadingAre
<1>6. n \in Nat /\ n # 0 /\ r[n].reason = "NONE"
  BY <1>1, <1>4 DEF WholeArchive, EndPart
<1>7. size = Size(parts)
  OBVIOUS
<1> HIDE DEF end, at, r, size
<1>8. PICK j \in 1..Len(parts) : at[j - 1] = end.offset
  <2>1. 0 \in 0..n /\ 1 \in 1..n /\ 1 \in 0..n /\ 1 - 1 = 0
    BY <1>6
  <2>2. r[1].reason = "NONE" /\ r[0].reason = "NONE" /\ r[0] \in ReaderState
    BY <1>4, <1>5, <1>6, <2>1, NeverFailed DEF ReadingOK
  <2>3. r[1] = ReadEntry(parts, r[0])
    BY <1>5, <2>1 DEF ReadingOK
  <2> DEFINE central == PartAt(parts, r[0].central, "central")
  <2>4. Accepts(parts, r[0], central)
    <3>1. \A x \in Refusals : [r[0] EXCEPT !.reason = x].reason # "NONE"
      BY <2>2 DEF ReaderState, Refusals
    <3>2. \/ Accepts(parts, r[0], central) /\ ReadEntry(parts, r[0]) = AfterEntry(r[0], central)
          \/ \E x \in Refusals : ReadEntry(parts, r[0]) = [r[0] EXCEPT !.reason = x]
      BY <2>2, EntryRead
    <3> HIDE DEF central
    <3> QED
      BY <2>2, <2>3, <3>1, <3>2
  <2>5. \E i \in 1..Len(parts) : at[i - 1] = r[0].central
    BY <2>4, PartFound DEF Accepts, at
  <2>6. r[0].central = end.offset
    BY <1>5 DEF ReadingOK
  <2> QED
    BY <2>5, <2>6
<1> DEFINE c == j - 1
<1>9. c \in 0..Len(parts) /\ c \in Nat /\ at[c] = end.offset /\ j = c + 1
  BY <1>8
<1> HIDE DEF c
<1>10. ReadCanonical(parts, at, c, r[n], n)
  BY <1>2, <1>4, <1>5, <1>6, <1>9, AcceptsEntries
<1> HIDE DEF n
<1> DEFINE ws == Written(es)[n]
           m == Len(ws.locals)
<1>11. /\ es \in Seq(ArchiveEntries) /\ Len(es) = n /\ Follows(parts, at, c, ws, r[n])
       /\ \A i \in 1..n :
            /\ es[i].path \notin UnsafePaths /\ ~(DataLength(es[i].data) > MAX_ENTRY_BYTES)
            /\ \A k \in 1..i - 1 : es[k].path # es[i].path
  BY <1>10 DEF ReadCanonical
<1>12. ws \in WriterState /\ Len(ws.centrals) = n
  <2>1. n \in 0..n
    BY <1>6
  <2> QED
    BY <1>11, <2>1, WrittenAre, WrittenCentrals
<1> HIDE DEF es, ws
<1>13. /\ Agree(parts, c, ws) /\ at[m] = ws.offset /\ r[n].local = ws.offset /\ r[n].central = at[c + n]
       /\ m \in Nat
  BY <1>11, <1>12 DEF Follows, Laid, WriterState
<1>14. m = c
  <2>1. at[j - 1] = at[m]
    BY <1>1, <1>8, <1>13 DEF WholeArchive, CompleteReading
  <2>2. m \in 0..Len(parts)
    BY <1>13 DEF Agree
  <2> HIDE DEF m
  <2> QED
    BY <1>2, <1>9, <1>13, <2>1, <2>2, SamePlace
<1>15. t = c + n + 1 /\ c + n \in 0..Len(parts)
  <2>1. at[t - 1] = at[c + n]
    BY <1>1, <1>3, <1>13 DEF WholeArchive, CompleteReading
  <2>2. c + n \in 0..Len(parts)
    BY <1>6, <1>9, <1>12, <1>13 DEF Agree
  <2> QED
    BY <1>2, <2>1, <2>2, SamePlace
<1>16. at[t] = size
  <2>1. t - 1 \in 0..Len(parts) /\ at[t] = at[t - 1] + Length(parts[t])
    BY <1>2 DEF EndsOK
  <2>2. at[t - 1] \in Nat
    BY <1>2, <2>1 DEF EndsOK
  <2>3. Length(parts[t]) = 22
    BY <1>3 DEF Length
  <2> DEFINE x == at[t - 1]
  <2>4. x \in Nat /\ x = size - 22 /\ at[t] = x + 22
    BY <1>3, <2>1, <2>2, <2>3
  <2>5. size \in Nat
    BY <1>7, SizeIsNat
  <2> HIDE DEF x
  <2> QED
    BY <2>4, <2>5
<1>17. t = Len(parts)
  <2>1. Len(parts) \in 0..Len(parts) /\ t \in 0..Len(parts) /\ size \in Nat
    BY <1>7, SizeIsNat
  <2>2. ~(at[t] < at[Len(parts)])
    BY <1>2, <1>16, <2>1
  <2>3. ~(t < Len(parts))
    BY <1>2, <2>1, <2>2, EndsGrow
  <2> QED
    BY <2>1, <2>3
<1>18. end.size = Size(ws.centrals)
  <2>1. at[c + n] - at[c] = Size(ws.centrals)
    BY <1>2, <1>9, <1>12, <1>13, DirectoryLength
  <2>2. end.offset + end.size = at[c + n]
    BY <1>1, <1>13 DEF WholeArchive, CompleteReading
  <2>3. at[c + n] \in Nat /\ at[c] \in Nat
    BY <1>2, <1>9, <1>15 DEF EndsOK
  <2>4. end.size \in Int
    BY <1>4 DEF EndPart
  <2> DEFINE x == at[c + n]
             y == at[c]
  <2>5. x - y = Size(ws.centrals) /\ y + end.size = x /\ x \in Nat /\ y \in Nat
    BY <1>9, <2>1, <2>2, <2>3
  <2> HIDE DEF x, y
  <2> QED
    BY <2>4, <2>5
<1>19. end = EndOf(es)
  <2>1. end.kind = "end" /\ end.plain = TRUE /\ end.onDisk = n /\ end.count = n /\ end.offset = ws.offset
    BY <1>1, <1>4, <1>9, <1>13, <1>14 DEF WholeArchive, EndPart, n
  <2>2. EndOf(es) = [kind |-> "end", plain |-> TRUE, onDisk |-> n, count |-> n,
                     size |-> Size(ws.centrals), offset |-> ws.offset]
    BY <1>11 DEF EndOf, ws
  <2> QED
    BY <1>4, <1>18, <2>1, <2>2 DEF EndPart
<1>20. parts = Parts(es)
  <2> DEFINE a == ws.locals
             b == ws.centrals
  <2>1. a \in Seq(Part) /\ b \in Seq(Part) /\ end \in Part
    BY <1>4, <1>12 DEF WriterState, Part
  <2>2. Parts(es) = a \o b \o <<end>>
    BY <1>11, <1>19 DEF Parts, EndOf, ws
  <2>3. /\ Len(a) = c /\ Len(b) = n /\ (\A i \in 1..Len(a) : parts[i] = a[i])
        /\ \A i \in 1..n : parts[c + i] = b[i]
    BY <1>12, <1>13, <1>14 DEF Agree
  <2>4. Len(parts) = c + n + 1 /\ parts[c + n + 1] = end
    BY <1>3, <1>15, <1>17
  <2> HIDE DEF a, b
  <2>5. /\ Len(parts) = Len(a) + Len(b) + 1 /\ parts[Len(a) + Len(b) + 1] = end
        /\ (\A i \in 1..Len(a) : parts[i] = a[i]) /\ \A k \in 1..Len(b) : parts[Len(a) + k] = b[k]
    BY <2>3, <2>4
  <2>6. parts = a \o b \o <<end>>
    BY <2>1, <2>5, OnlyListsBehind, Zenon
  <2> QED
    BY <2>2, <2>6
<1>21. ArchiveInput(es)
  BY <1>1, <1>6, <1>11, ZipArchiveAssumption DEF ArchiveInput, WholeArchive, n
<1>22. InputError(es) = "NONE"
  BY <1>11, <1>21, InputChecked
<1>23. ~(Size(Parts(es)) > MAX_BUNDLE_BYTES)
  BY <1>1, <1>7, <1>20 DEF WholeArchive
<1>24. Read(parts).entries = es
  BY <1>1 DEF es
<1> QED
  BY <1>20, <1>22, <1>23, <1>24 DEF CreateArchive

-----------------------------------------------------------------------------
(* Damage leaves a sequence of parts. *)
LEMMA DamagedIsPart ==
  ASSUME NEW part \in Part, NEW damaged \in DamagedPart(part)
  PROVE  damaged \in Part
<1>0. /\ \A d \in Data : DataLength(d) \in Nat
      /\ part # Nothing
  BY KindOfPart, ZipArchiveAssumption
<1>1. CASE part \in LocalPart
  <2>1. part.kind = "local" /\ part.bytes \in Nat
    BY <1>1 DEF LocalPart
  <2>2. \/ damaged = [part EXCEPT !.plain = FALSE]
        \/ \E p \in Paths : damaged = [part EXCEPT !.path = p]
        \/ \E d \in Data : damaged = [part EXCEPT !.crc = d, !.bytes = DataLength(d)]
        \/ damaged = [part EXCEPT !.bytes = part.bytes + 1]
    BY <2>1 DEF DamagedPart
  <2>3. damaged \in LocalPart
    <3>1. CASE damaged = [part EXCEPT !.plain = FALSE]
      BY <1>0, <1>1, <2>1, <3>1 DEF LocalPart
    <3>2. CASE \E p \in Paths : damaged = [part EXCEPT !.path = p]
      BY <1>0, <1>1, <2>1, <3>2 DEF LocalPart
    <3>3. CASE \E d \in Data : damaged = [part EXCEPT !.crc = d, !.bytes = DataLength(d)]
      BY <1>0, <1>1, <2>1, <3>3 DEF LocalPart
    <3>4. CASE damaged = [part EXCEPT !.bytes = part.bytes + 1]
      BY <1>0, <1>1, <2>1, <3>4 DEF LocalPart
    <3> QED
      BY <2>2, <3>1, <3>2, <3>3, <3>4
  <2> QED
    BY <2>3 DEF Part
<1>2. CASE part \in CentralPart
  <2>1. part.kind = "central" /\ part.bytes \in Nat /\ part.offset \in Nat
    BY <1>2 DEF CentralPart
  <2>2. \/ damaged = [part EXCEPT !.plain = FALSE]
        \/ \E p \in Paths : damaged = [part EXCEPT !.path = p]
        \/ \E d \in Data : damaged = [part EXCEPT !.crc = d, !.bytes = DataLength(d)]
        \/ damaged = [part EXCEPT !.bytes = part.bytes + 1]
        \/ damaged = [part EXCEPT !.offset = part.offset + 1]
    BY <2>1 DEF DamagedPart
  <2>3. damaged \in CentralPart
    <3>1. CASE damaged = [part EXCEPT !.plain = FALSE]
      BY <1>0, <1>2, <2>1, <3>1 DEF CentralPart
    <3>2. CASE \E p \in Paths : damaged = [part EXCEPT !.path = p]
      BY <1>0, <1>2, <2>1, <3>2 DEF CentralPart
    <3>3. CASE \E d \in Data : damaged = [part EXCEPT !.crc = d, !.bytes = DataLength(d)]
      BY <1>0, <1>2, <2>1, <3>3 DEF CentralPart
    <3>4. CASE damaged = [part EXCEPT !.bytes = part.bytes + 1]
      BY <1>0, <1>2, <2>1, <3>4 DEF CentralPart
    <3>5. CASE damaged = [part EXCEPT !.offset = part.offset + 1]
      BY <1>0, <1>2, <2>1, <3>5 DEF CentralPart
    <3> QED
      BY <2>2, <3>1, <3>2, <3>3, <3>4, <3>5
  <2> QED
    BY <2>3 DEF Part
<1>3. CASE part \in EndPart
  <2>1. part.kind = "end" /\ part.onDisk \in Nat /\ part.count \in Nat /\ part.size \in Int /\ part.offset \in Nat
    BY <1>3 DEF EndPart
  <2>2. \/ damaged = [part EXCEPT !.plain = FALSE]
        \/ damaged = [part EXCEPT !.offset = part.offset + 1]
        \/ damaged = [part EXCEPT !.size = part.size + 1]
        \/ damaged = [part EXCEPT !.count = part.count + 1]
        \/ damaged = [part EXCEPT !.count = part.count + 1, !.onDisk = part.onDisk + 1]
        \/ damaged = [part EXCEPT !.offset = part.offset + 1, !.size = part.size - 1]
    BY <2>1 DEF DamagedPart
  <2>3. damaged \in EndPart
    <3>1. CASE damaged = [part EXCEPT !.plain = FALSE]
      BY <1>0, <1>3, <2>1, <3>1 DEF EndPart
    <3>2. CASE damaged = [part EXCEPT !.offset = part.offset + 1]
      BY <1>0, <1>3, <2>1, <3>2 DEF EndPart
    <3>3. CASE damaged = [part EXCEPT !.size = part.size + 1]
      BY <1>0, <1>3, <2>1, <3>3 DEF EndPart
    <3>4. CASE damaged = [part EXCEPT !.count = part.count + 1]
      BY <1>0, <1>3, <2>1, <3>4 DEF EndPart
    <3>5. CASE damaged = [part EXCEPT !.count = part.count + 1, !.onDisk = part.onDisk + 1]
      <4> DEFINE x == part.count + 1
                 y == part.onDisk + 1
      <4>1. x \in Nat /\ y \in Nat /\ damaged = [part EXCEPT !.count = x, !.onDisk = y]
        BY <2>1, <3>5
      <4> HIDE DEF x, y
      <4> QED
        BY <1>3, <4>1 DEF EndPart
    <3>6. CASE damaged = [part EXCEPT !.offset = part.offset + 1, !.size = part.size - 1]
      <4> DEFINE x == part.offset + 1
                 y == part.size - 1
      <4>1. x \in Nat /\ y \in Int /\ damaged = [part EXCEPT !.offset = x, !.size = y]
        BY <2>1, <3>6
      <4> HIDE DEF x, y
      <4> QED
        BY <1>3, <4>1 DEF EndPart
    <3> QED
      BY <2>2, <3>1, <3>2, <3>3, <3>4, <3>5, <3>6
  <2> QED
    BY <2>3 DEF Part
<1>4. CASE part \in DataPart
  <2>1. part.kind = "data"
    BY <1>4 DEF DataPart
  <2>2. PICK d \in Data : DataLength(d) > 0 /\ damaged = [part EXCEPT !.data = d]
    BY <2>1 DEF DamagedPart
  <2>3. damaged \in DataPart
    BY <1>4, <2>2 DEF DataPart
  <2> QED
    BY <2>3 DEF Part
<1>5. CASE part \in ForeignPart
  BY <1>5 DEF ForeignPart, DamagedPart
<1> QED
  BY <1>1, <1>2, <1>3, <1>4, <1>5 DEF Part

LEMMA ForeignIsPart == [kind |-> "foreign"] \in Part
  BY DEF Part, ForeignPart

LEMMA DamagedSequence ==
  ASSUME NEW parts \in Seq(Part), NEW part \in Part
  PROVE  /\ \A k \in 1..Len(parts) : [parts EXCEPT ![k] = part] \in Seq(Part)
         /\ \A k \in 1..Len(parts) : RemoveAt(parts, k) \in Seq(Part)
         /\ \A k \in 1..Len(parts) + 1 : InsertAt(parts, k, part) \in Seq(Part)
<1>1. ASSUME NEW k \in 1..Len(parts) PROVE [parts EXCEPT ![k] = part] \in Seq(Part)
  OBVIOUS
<1>2. ASSUME NEW k \in 1..Len(parts) PROVE RemoveAt(parts, k) \in Seq(Part)
  <2>1. SubSeq(parts, 1, k - 1) \in Seq(Part) /\ SubSeq(parts, k + 1, Len(parts)) \in Seq(Part)
    BY SubSeqProperties
  <2> QED
    BY <2>1 DEF RemoveAt
<1>3. ASSUME NEW k \in 1..Len(parts) + 1 PROVE InsertAt(parts, k, part) \in Seq(Part)
  <2>1. SubSeq(parts, 1, k - 1) \in Seq(Part) /\ SubSeq(parts, k, Len(parts)) \in Seq(Part)
    BY SubSeqProperties
  <2> QED
    BY <2>1 DEF InsertAt
<1> QED
  BY <1>1, <1>2, <1>3

-----------------------------------------------------------------------------
(* An archive consists of parts, in whatever order damage has put them; as *)
(* long as there is no damage it is what the writer has made.              *)
ArchiveIInv ==
  /\ given \in BoundedSeq(ArchiveEntries, MAX_ENTRIES + 1)
  /\ archive = [error |-> CreateArchive(given).error, parts |-> archive.parts]
  /\ archive.error # "NONE" => archive.parts = <<>>
  /\ archive.parts \in Seq(Part)
  /\ archiveDamage \in Nat /\ (archiveDamage = 0 => archive = CreateArchive(given))

LEMMA ArchiveInitial == ZipArchiveInit => ArchiveIInv
<1> SUFFICES ASSUME ZipArchiveInit PROVE ArchiveIInv
  OBVIOUS
<1>1. /\ given \in BoundedSeq(ArchiveEntries, MAX_ENTRIES + 1)
      /\ archive = CreateArchive(given) /\ archiveDamage = 0
  BY DEF ZipArchiveInit
<1>2. given \in Seq(ArchiveEntries)
  BY <1>1 DEF BoundedSeq, SeqOf
<1>3. Parts(given) \in Seq(Part)
  BY <1>2, PartsAre DEF WrittenParts
<1>4. archive.parts \in Seq(Part)
  BY <1>1, <1>3 DEF CreateArchive
<1>5. /\ archive = [error |-> CreateArchive(given).error, parts |-> archive.parts]
      /\ archive.error # "NONE" => archive.parts = <<>>
  BY <1>1 DEF CreateArchive
<1> QED
  BY <1>1, <1>4, <1>5 DEF ArchiveIInv

LEMMA ArchiveStep == ArchiveIInv /\ [ZipArchiveNext]_zipArchiveVars => ArchiveIInv'
<1> SUFFICES ASSUME ArchiveIInv, [ZipArchiveNext]_zipArchiveVars PROVE ArchiveIInv'
  OBVIOUS
<1>1. ASSUME NEW parts \in Seq(Part), Change(parts) PROVE ArchiveIInv'
  <2>1. /\ archive.error = "NONE" /\ archive' = [archive EXCEPT !.parts = parts] /\ given' = given
        /\ archiveDamage' = archiveDamage + 1
    BY <1>1 DEF Change
  <2> DEFINE error == CreateArchive(given).error
  <2>2. archive = [error |-> error, parts |-> archive.parts]
    BY DEF ArchiveIInv
  <2> HIDE DEF error
  <2>3. archive' = [error |-> error, parts |-> archive'.parts] /\ archive'.error = "NONE"
    BY <2>1, <2>2
  <2>4. archive'.parts \in Seq(Part)
    BY <2>1, <2>2
  <2>5. archiveDamage' \in Nat /\ archiveDamage' # 0
    BY <2>1 DEF ArchiveIInv
  <2> QED
    BY <2>1, <2>3, <2>4, <2>5 DEF ArchiveIInv, error
<1>2. CASE UNCHANGED zipArchiveVars
  BY <1>2 DEF zipArchiveVars, ArchiveIInv
<1>3. archive.parts \in Seq(Part) /\ \A k \in DOMAIN archive.parts : archive.parts[k] \in Part
  BY DEF ArchiveIInv
<1> DEFINE parts == archive.parts
<1>4. DOMAIN parts = 1..Len(parts) /\ \A k \in 1..Len(parts) : k \in 1..Len(parts) + 1
  BY <1>3
<1>5. CASE Overwrite
  <2>1. PICK k \in DOMAIN parts : \E part \in DamagedPart(parts[k]) : Change([parts EXCEPT ![k] = part])
    BY <1>5 DEF Overwrite
  <2>2. PICK part \in DamagedPart(parts[k]) : Change([parts EXCEPT ![k] = part])
    BY <2>1
  <2>3. [parts EXCEPT ![k] = part] \in Seq(Part)
    BY <1>3, <1>4, DamagedIsPart, DamagedSequence
  <2> QED
    BY <1>1, <2>2, <2>3
<1>6. CASE Lose
  <2>1. PICK k \in DOMAIN parts : Change(RemoveAt(parts, k))
    BY <1>6 DEF Lose
  <2>2. RemoveAt(parts, k) \in Seq(Part)
    BY <1>3, <1>4, ForeignIsPart, DamagedSequence
  <2> QED
    BY <1>1, <2>1, <2>2
<1>7. CASE Repeat
  <2>1. PICK k \in DOMAIN parts : Change(InsertAt(parts, k, parts[k]))
    BY <1>7 DEF Repeat
  <2>2. InsertAt(parts, k, parts[k]) \in Seq(Part)
    BY <1>3, <1>4, DamagedSequence
  <2> QED
    BY <1>1, <2>1, <2>2
<1>8. CASE Insert
  <2>1. PICK k \in 1..Len(parts) + 1 : Change(InsertAt(parts, k, [kind |-> "foreign"]))
    BY <1>8 DEF Insert
  <2>2. InsertAt(parts, k, [kind |-> "foreign"]) \in Seq(Part)
    BY <1>3, ForeignIsPart, DamagedSequence
  <2> QED
    BY <1>1, <2>1, <2>2
<1> QED
  BY <1>2, <1>5, <1>6, <1>7, <1>8 DEF ZipArchiveNext

LEMMA ArchiveTyped == ArchiveIInv => ZipArchiveTypeOK
<1> SUFFICES ASSUME ArchiveIInv PROVE ZipArchiveTypeOK
  OBVIOUS
<1> DEFINE error == InputError(given)
           result == Read(archive.parts)
<1>1. given \in Seq(ArchiveEntries)
  BY DEF ArchiveIInv, BoundedSeq, SeqOf
<1>2. archive.error = CreateArchive(given).error
  BY DEF ArchiveIInv
<1>3. error \in {"NONE", "LIMIT", "UNSAFE_ARCHIVE_PATH", "DUPLICATE_ARCHIVE_PATH"}
  BY DEF InputError
<1>4. archive.error \in {error, "LIMIT"} /\ (archive.error = "NONE" => error = "NONE")
  <2> HIDE DEF error
  <2> QED
    BY <1>2 DEF CreateArchive, error
<1>5. ASSUME error = "NONE"
      PROVE  \A k \in 1..Len(given) : /\ given[k].path \notin UnsafePaths
                                      /\ \A j \in 1..k - 1 : given[j].path # given[k].path
  BY <1>1, <1>5, InputChecked DEF ArchiveInput
<1>6. ASSUME error = "NONE", NEW j \in DOMAIN given, NEW k \in DOMAIN given,
             given[j].path = given[k].path
      PROVE  j = k
  <2>1. j \in 1..Len(given) /\ k \in 1..Len(given)
    BY <1>1
  <2>2. ~(j < k) /\ ~(k < j)
    BY <1>5, <1>6, <2>1
  <2> QED
    BY <2>1, <2>2
<1>7. result.reason # "NONE" => result.entries = <<>>
  BY DEF Read, Refused
<1>8. DOMAIN given = 1..Len(given)
  BY <1>1
<1> HIDE DEF error, result
<1> QED
  BY <1>3, <1>4, <1>5, <1>6, <1>7, <1>8 DEF ZipArchiveTypeOK, ArchiveIInv, result

(* The reader reads back every archive the writer has made, and accepts,   *)
(* of all that damage may make of one, only what the writer would have     *)
(* made itself: for any paths and data, any limits and any damage.         *)
THEOREM ReaderAlwaysMatchesWriter == ZipArchiveSpec => []ReaderMatchesWriter
<1>1. ArchiveIInv => WrittenIsRead
  <2> SUFFICES ASSUME ArchiveIInv, archive.error = "NONE", archiveDamage = 0
               PROVE  Read(archive.parts) = [reason |-> "NONE", entries |-> given]
    BY DEF WrittenIsRead
  <2>1. given \in Seq(ArchiveEntries)
    BY DEF ArchiveIInv, BoundedSeq, SeqOf
  <2>2. archive = CreateArchive(given)
    BY DEF ArchiveIInv
  <2>3. /\ InputError(given) = "NONE" /\ ~(Size(Parts(given)) > MAX_BUNDLE_BYTES)
        /\ archive.parts = Parts(given)
    BY <2>2 DEF CreateArchive
  <2>4. ArchiveInput(given)
    BY <2>1, <2>3, InputChecked
  <2> QED
    BY <2>1, <2>3, <2>4, ReadsAllWritten
<1>2. ArchiveIInv => AcceptedIsCanonical
  <2> SUFFICES ASSUME ArchiveIInv, Read(archive.parts).reason = "NONE"
               PROVE  CreateArchive(Read(archive.parts).entries) = [error |-> "NONE", parts |-> archive.parts]
    BY DEF AcceptedIsCanonical
  <2>1. archive.parts \in Seq(Part)
    BY DEF ArchiveIInv
  <2> QED
    BY <2>1, AcceptsOnlyWritten
<1> QED
  BY <1>1, <1>2, ArchiveInitial, ArchiveStep, PTL DEF ZipArchiveSpec, ReaderMatchesWriter
=================================================================================
