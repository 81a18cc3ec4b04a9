---------------------------- MODULE PeripheryProofs ----------------------------
(***************************************************************************)
(* The parts that stand around the service and share no variable with it:  *)
(* a start is safe for any number of processes and of crashes, whatever    *)
(* prefix of the migrations an older program has left; a command ends      *)
(* whole for any limit on its output and any order of its callbacks; an    *)
(* inspection is true of one commit; and pages show what is theirs.        *)
(***************************************************************************)
EXTENDS Periphery, FiniteSetTheorems, SequenceTheorems, TLAPS

-----------------------------------------------------------------------------
(* Schema migrations. *)

ChildrenIndex == "reproducibility_jobs_children_idx"

(* raw_logs is the last table of version 1, and version 6 needs it: this   *)
(* is what keeps the receipt store, which asks for the first table only,   *)
(* from serving a part of version 1.                                       *)
TablesInOrder == "raw_logs" \in schema => Tables \subseteq schema

(* What a process has passed in its second round, as a receipt store. *)
PassedIsDone ==
  \A p \in Processes :
    /\ \A v \in 1..6 : position[p] > v + 6 => v \in recorded
    /\ position[p] > 11 => ChildrenIndex \in schema
    /\ position[p] > 12 => "raw_logs" \in schema

MigrationsIInv ==
  /\ MigrationsTypeOK /\ TablesInOrder /\ PassedIsDone
  /\ RecordedIsThere /\ RunStoreFailsClosed

-----------------------------------------------------------------------------
(* The files, and the steps of a start. *)
LEMMA Files ==
  /\ Version = 1..6
  /\ Objects(1) = Tables \cup {"run_metadata_fifo_idx", "raw_logs_expiry_idx"}
  /\ Objects(5) = {"reproducibility_jobs", ChildrenIndex}
<1>1. Version = 1..6
  BY DEF Version, Statements
<1>2. Objects(1) = Tables \cup {"run_metadata_fifo_idx", "raw_logs_expiry_idx"}
  BY DEF Objects, ToSet, Statements, Tables
<1>3. Objects(5) = {"reproducibility_jobs", ChildrenIndex}
  BY DEF Objects, ToSet, Statements, ChildrenIndex
<1> QED
  BY <1>1, <1>2, <1>3

LEMMA Steps == Serving = 13 /\ DOMAIN Startup = 1..12
<1>1. DOMAIN Startup = 1..12
  BY DEF Startup
<1>2. Startup \in Seq([store : {"run", "receipt"}, version : 1..6])
  BY DEF Startup
<1>3. Len(Startup) = 12
  BY <1>1, <1>2
<1> QED
  BY <1>1, <1>3 DEF Serving

LEMMA Positions ==
  ASSUME NEW p \in Processes, NEW v \in 1..6, At(p, v), position[p] \in 0..13
  PROVE  /\ position[p] \in {v, v + 6}
         /\ Opening(p, "run") => position[p] = v
         /\ Opening(p, "receipt") => position[p] = v + 6
BY DEF At, Opening, Startup

(* The initial schema. *)
LEMMA PrefixIsOfFile ==
  ASSUME NEW v \in 1..6, NEW n, n \in {0} \cup DOMAIN Statements[v]
  PROVE  {Statements[v][i] : i \in 1..n} \subseteq Objects(v)
<1>1. \E k \in 1..6 : DOMAIN Statements[v] = 1..k
  <2>1. DOMAIN Statements[1] = 1..6
    BY DEF Statements
  <2>2. DOMAIN Statements[2] = 1..4
    BY DEF Statements
  <2>3. DOMAIN Statements[3] = 1..1
    BY DEF Statements
  <2>4. DOMAIN Statements[4] = 1..1
    BY DEF Statements
  <2>5. DOMAIN Statements[5] = 1..2
    BY DEF Statements
  <2>6. DOMAIN Statements[6] = 1..3
    BY DEF Statements
  <2> QED
    BY <2>1, <2>2, <2>3, <2>4, <2>5, <2>6
<1>2. 1..n \subseteq DOMAIN Statements[v]
  BY <1>1
<1> QED
  BY <1>2 DEF Objects, ToSet

LEMMA InitialTables ==
  ASSUME NEW n \in 0..6, "raw_logs" \in {Statements[1][i] : i \in 1..n}
  PROVE  Tables \subseteq {Statements[1][i] : i \in 1..n}
<1>1. Statements[1] = <<"run_metadata", "normalized_checks", "signed_receipts", "raw_logs",
                        "run_metadata_fifo_idx", "raw_logs_expiry_idx">>
  BY DEF Statements
<1>2. PICK i \in 1..n : Statements[1][i] = "raw_logs"
  OBVIOUS
<1>3. i = 4
  BY <1>1, <1>2
<1>4. {1, 2, 3, 4} \subseteq 1..n
  BY <1>3
<1> QED
  BY <1>1, <1>4 DEF Tables

LEMMA MigrationsInitial == MigrationsInit => MigrationsIInv
<1> SUFFICES ASSUME MigrationsInit PROVE MigrationsIInv
  OBVIOUS
<1>0. PICK v \in 1..6 : \E n \in {0} \cup DOMAIN Statements[v] : Interrupted(v, n)
  BY Files DEF MigrationsInit
<1>1. PICK n \in {0} \cup DOMAIN Statements[v] : Interrupted(v, n)
  BY <1>0
<1>2. {Statements[v][i] : i \in 1..n} \subseteq Objects(v)
  BY <1>0, <1>1, PrefixIsOfFile
<1>3. /\ schema \subseteq UNION {Objects(w) : w \in Version} /\ recorded = 1..v - 1
      /\ \A w \in recorded : Objects(w) \subseteq schema
  <2> DEFINE before == UNION {Objects(w) : w \in 1..v - 1}
  <2>1. 1..v - 1 \subseteq Version /\ v \in Version
    BY Files
  <2>2. schema = before \cup {Statements[v][i] : i \in 1..n} /\ recorded = 1..v - 1
    BY <1>1 DEF Interrupted
  <2> QED
    BY <1>2, <2>1, <2>2
<1>4. TablesInOrder
  <2>1. CASE v = 1
    <3>1. schema = (UNION {Objects(w) : w \in 1..1 - 1}) \cup {Statements[1][i] : i \in 1..n}
      BY <1>1, <2>1 DEF Interrupted
    <3>2. 1..1 - 1 = {}
      OBVIOUS
    <3>3. UNION {Objects(w) : w \in 1..1 - 1} = {}
      BY <3>2
    <3>4. schema = {Statements[1][i] : i \in 1..n}
      BY <3>1, <3>3
    <3>5. n \in 0..6
      BY <1>1, <2>1 DEF Statements
    <3> QED
      BY <2>1, <3>4, <3>5, InitialTables DEF TablesInOrder
  <2>2. CASE v # 1
    BY <1>3, <2>2, Files DEF TablesInOrder
  <2> QED
    BY <2>1, <2>2
<1>5. \A p \in Processes : position[p] = 0 /\ looked[p] = None
  BY DEF MigrationsInit
<1>6. MigrationsTypeOK
  BY <1>3, <1>5, Files, Steps, MigrationsAssumption DEF MigrationsInit, MigrationsTypeOK
<1>7. RecordedIsThere
  BY <1>3 DEF RecordedIsThere
<1>8. PassedIsDone /\ RunStoreFailsClosed
  BY <1>5 DEF PassedIsDone, RunStoreFailsClosed, Processes
<1> QED
  BY <1>4, <1>6, <1>7, <1>8 DEF MigrationsIInv

-----------------------------------------------------------------------------
(* A process that starts, looks, refuses or dies changes nothing in the    *)
(* database.                                                               *)
LEMMA StayKeeps ==
  ASSUME MigrationsIInv, NEW p \in Processes, UNCHANGED <<schema, recorded>>,
         NEW to \in {position[p], 0, FirstStep(p)}, to = FirstStep(p) => position[p] \in {0, to},
         position' = [position EXCEPT ![p] = to],
         NEW seen, looked' = [looked EXCEPT ![p] = seen],
         \/ seen = None
         \/ seen = schema /\ to = position[p] /\ (At(p, 1) \/ At(p, 5)),
         crashes' \in 0..MaxCrashes
  PROVE  MigrationsIInv'
<1> USE DEF MigrationsIInv
<1>1. FirstStep(p) \in {1, 7} /\ (p \in ProductionApis => FirstStep(p) = 1)
  BY DEF FirstStep
<1>2. \A q \in Processes \ {p} : position'[q] = position[q] /\ looked'[q] = looked[q]
  BY DEF MigrationsTypeOK
<1>3. position'[p] = to /\ looked'[p] = seen
  BY DEF MigrationsTypeOK
<1>4. MigrationsTypeOK'
  <2>1. position' \in [Processes -> 0..Serving]
    BY <1>1, Steps DEF MigrationsTypeOK
  <2>3. looked' \in [Processes -> {None} \cup SUBSET (UNION {Objects(v) : v \in Version})]
    BY DEF MigrationsTypeOK
  <2>2. \A q \in Processes : \/ looked'[q] = None
                             \/ looked'[q] \subseteq schema' /\ (At(q, 1) \/ At(q, 5))'
    BY <1>2, <1>3 DEF MigrationsTypeOK, At
  <2> QED
    BY <2>1, <2>2, <2>3 DEF MigrationsTypeOK
<1>5. PassedIsDone' /\ RunStoreFailsClosed'
  BY <1>1, <1>2, <1>3 DEF PassedIsDone, RunStoreFailsClosed, MigrationsTypeOK, Processes
<1>6. TablesInOrder' /\ RecordedIsThere'
  BY DEF TablesInOrder, RecordedIsThere
<1> QED
  BY <1>4, <1>5, <1>6

LEMMA RefuseKeeps ==
  ASSUME MigrationsIInv, NEW p \in Processes, Refuse(p)
  PROVE  MigrationsIInv'
<1>1. FirstStep(p) # 0
  BY DEF FirstStep
<1>2. crashes' \in 0..MaxCrashes
  BY DEF Refuse, MigrationsIInv, MigrationsTypeOK
<1> QED
  BY <1>1, <1>2, StayKeeps DEF Refuse

(* A process passes a step: what the step stands for is there. *)
LEMMA AdvanceKeeps ==
  ASSUME MigrationsIInv, NEW p \in Processes, NEW v \in 1..6, At(p, v), Advance(p),
         schema \subseteq schema', schema' \subseteq schema \cup Objects(v),
         recorded' = recorded \cup {v},
         v # 1 => Objects(v) \ {ChildrenIndex} \subseteq schema',
         position[p] = 1 => Tables \subseteq schema',
         position[p] = 11 => ChildrenIndex \in schema',
         position[p] = 12 => "raw_logs" \in schema',
         "raw_logs" \in schema' => "raw_logs" \in schema \/ Tables \subseteq schema'
  PROVE  MigrationsIInv'
<1> USE DEF MigrationsIInv
<1>1. position[p] \in {v, v + 6}
  BY Positions, Steps DEF MigrationsTypeOK
<1>2. \A q \in Processes \ {p} : position'[q] = position[q] /\ looked'[q] = looked[q]
  BY DEF Advance, MigrationsTypeOK
<1>3. position'[p] = position[p] + 1 /\ looked'[p] = None
  BY DEF Advance, MigrationsTypeOK
<1>4. MigrationsTypeOK'
  <2>1. position' \in [Processes -> 0..Serving]
    BY <1>1, Steps DEF Advance, MigrationsTypeOK
  <2>5. looked' \in [Processes -> {None} \cup SUBSET (UNION {Objects(w) : w \in Version})]
    BY DEF Advance, MigrationsTypeOK
  <2>2. \A q \in Processes : \/ looked'[q] = None
                             \/ looked'[q] \subseteq schema' /\ (At(q, 1) \/ At(q, 5))'
    BY <1>2, <1>3 DEF MigrationsTypeOK, At
  <2>3. schema' \subseteq UNION {Objects(w) : w \in Version} /\ recorded' \subseteq Version
    BY Files DEF MigrationsTypeOK
  <2>4. crashes' \in 0..MaxCrashes
    BY DEF Advance, MigrationsTypeOK
  <2> QED
    BY <2>1, <2>2, <2>3, <2>4, <2>5 DEF MigrationsTypeOK
<1>5. PassedIsDone'
  BY <1>1, <1>2, <1>3 DEF PassedIsDone
<1>6. RunStoreFailsClosed'
  BY <1>1, <1>2, <1>3 DEF RunStoreFailsClosed, Processes
<1>7. TablesInOrder' /\ RecordedIsThere'
  BY DEF TablesInOrder, RecordedIsThere, ChildrenIndex
<1> QED
  BY <1>4, <1>5, <1>6, <1>7

LEMMA FileStep ==
  ASSUME MigrationsIInv, NEW p \in Processes, NEW v \in {1, 5}, At(p, v), ExecuteFile(p, v)
  PROVE  MigrationsIInv'
<1>1. CASE Refuse(p)
  BY <1>1, RefuseKeeps
<1>2. CASE schema' = schema \cup Objects(v) /\ recorded' = recorded \cup {v} /\ Advance(p)
  <2>1. position[p] \in {v, v + 6}
    BY Positions, Steps DEF MigrationsIInv, MigrationsTypeOK
  <2>2. v = 5 => "raw_logs" \notin Objects(v) /\ ChildrenIndex \in Objects(v)
    BY Files DEF ChildrenIndex
  <2>3. v = 1 => Tables \subseteq schema'
    BY <1>2, Files
  <2> QED
    BY <1>2, <2>1, <2>2, <2>3, AdvanceKeeps
<1> QED
  BY <1>1, <1>2 DEF ExecuteFile

LEMMA InitialSchemaStep ==
  ASSUME MigrationsIInv, NEW p \in Processes,
         RunStoreInitialSchema(p) \/ ReceiptStoreInitialSchema(p)
  PROVE  MigrationsIInv'
<1>1. At(p, 1) /\ looked[p] # None /\ looked[p] \subseteq schema /\ position[p] \in {1, 7}
  BY Positions, Steps
     DEF RunStoreInitialSchema, ReceiptStoreInitialSchema, MigrationsIInv, MigrationsTypeOK
<1>2. CASE ExecuteFile(p, 1)
  BY <1>1, <1>2, FileStep
<1>3. CASE Refuse(p)
  BY <1>3, RefuseKeeps
<1>4. CASE Record(p, 1) /\ (position[p] = 1 => Tables \subseteq looked[p])
  <2>1. schema' = schema /\ recorded' = recorded \cup {1} /\ Advance(p)
    BY <1>4 DEF Record
  <2>2. position[p] = 1 => Tables \subseteq schema'
    BY <1>1, <1>4, <2>1
  <2> QED
    BY <1>1, <2>1, <2>2, AdvanceKeeps
<1>5. CASE RunStoreInitialSchema(p)
  BY <1>2, <1>3, <1>4, <1>5 DEF RunStoreInitialSchema
<1>6. CASE ReceiptStoreInitialSchema(p)
  <2>1. position[p] = 7
    BY <1>6, Positions, Steps DEF ReceiptStoreInitialSchema, MigrationsIInv, MigrationsTypeOK
  <2> QED
    BY <1>2, <1>4, <1>6, <2>1 DEF ReceiptStoreInitialSchema
<1> QED
  BY <1>5, <1>6

LEMMA ColumnStep ==
  ASSUME MigrationsIInv, NEW p \in Processes, ColumnAdditions(p)
  PROVE  MigrationsIInv'
<1>1. PICK v \in 2..4 : /\ At(p, v) /\ schema' = schema \cup Objects(v)
                        /\ recorded' = recorded \cup {v} /\ Advance(p)
  BY DEF ColumnAdditions
<1>2. position[p] \in {v, v + 6}
  BY <1>1, Positions, Steps DEF MigrationsIInv, MigrationsTypeOK
<1>3. "raw_logs" \notin Objects(v)
  <2>1. CASE v = 2
    BY <2>1 DEF Objects, ToSet, Statements
  <2>2. CASE v = 3
    BY <2>2 DEF Objects, ToSet, Statements
  <2>3. CASE v = 4
    BY <2>3 DEF Objects, ToSet, Statements
  <2> QED
    BY <2>1, <2>2, <2>3
<1> QED
  BY <1>1, <1>2, <1>3, AdvanceKeeps

LEMMA ReproducibilityStep ==
  ASSUME MigrationsIInv, NEW p \in Processes,
         RunStoreReproducibilityTable(p) \/ ReceiptStoreReproducibilityTable(p)
  PROVE  MigrationsIInv'
<1>1. At(p, 5) /\ looked[p] # None /\ looked[p] \subseteq schema /\ position[p] \in {5, 11}
  BY Positions, Steps
     DEF RunStoreReproducibilityTable, ReceiptStoreReproducibilityTable,
         MigrationsIInv, MigrationsTypeOK
<1>2. CASE ExecuteFile(p, 5)
  BY <1>1, <1>2, FileStep
<1>3. CASE Refuse(p)
  BY <1>3, RefuseKeeps
<1>4. CASE /\ Record(p, 5) /\ position[p] = 5
           /\ "reproducibility_jobs" \in looked[p]
  <2>1. schema' = schema /\ recorded' = recorded \cup {5} /\ Advance(p)
    BY <1>4 DEF Record
  <2>2. Objects(5) \ {ChildrenIndex} \subseteq schema'
    BY <1>1, <1>4, <2>1, Files
  <2> QED
    BY <1>1, <1>4, <2>1, <2>2, AdvanceKeeps
<1>5. CASE RepairChildrenIndex(p) /\ "reproducibility_jobs" \in looked[p]
  <2>1. Advance(p) /\ recorded' = recorded \cup {5} /\ schema' = schema \cup {ChildrenIndex}
    BY <1>5 DEF RepairChildrenIndex, ChildrenIndex
  <2>2. {ChildrenIndex} \subseteq Objects(5) /\ "raw_logs" # ChildrenIndex
    BY Files DEF ChildrenIndex
  <2> QED
    BY <1>1, <1>5, <2>1, <2>2, Files, AdvanceKeeps
<1>6. CASE RunStoreReproducibilityTable(p)
  <2>1. position[p] = 5
    BY <1>6, Positions, Steps
       DEF RunStoreReproducibilityTable, MigrationsIInv, MigrationsTypeOK
  <2> QED
    BY <1>2, <1>3, <1>4, <1>6, <2>1 DEF RunStoreReproducibilityTable
<1>7. CASE ReceiptStoreReproducibilityTable(p)
  BY <1>2, <1>3, <1>5, <1>7 DEF ReceiptStoreReproducibilityTable
<1> QED
  BY <1>6, <1>7

LEMMA BundleTablesStep ==
  ASSUME MigrationsIInv, NEW p \in Processes, EvidenceBundleTables(p)
  PROVE  MigrationsIInv'
<1>1. At(p, 6) /\ position[p] \in {6, 12}
  BY Positions, Steps DEF EvidenceBundleTables, MigrationsIInv, MigrationsTypeOK
<1>2. CASE Refuse(p)
  BY <1>2, RefuseKeeps
<1>3. CASE /\ {"raw_logs", "signed_receipts"} \subseteq schema
           /\ schema' = schema \cup Objects(6) /\ recorded' = recorded \cup {6} /\ Advance(p)
  BY <1>1, <1>3, AdvanceKeeps DEF MigrationsIInv, TablesInOrder
<1> QED
  BY <1>2, <1>3 DEF EvidenceBundleTables

LEMMA MigrationsStep ==
  ASSUME MigrationsIInv, [MigrationsNext]_migrationsVars
  PROVE  MigrationsIInv'
<1>1. ASSUME NEW p \in Processes, Start(p)
      PROVE  MigrationsIInv'
  <2>1. looked' = [looked EXCEPT ![p] = None]
    BY <1>1, Steps DEF Start, MigrationsIInv, MigrationsTypeOK, At
  <2> QED
    BY <1>1, <2>1, StayKeeps DEF Start, MigrationsIInv, MigrationsTypeOK
<1>2. ASSUME NEW p \in Processes, Look(p)
      PROVE  MigrationsIInv'
  <2>1. position' = [position EXCEPT ![p] = position[p]]
    BY <1>2 DEF Look, MigrationsIInv, MigrationsTypeOK
  <2>2. position[p] = FirstStep(p) \/ position[p] # FirstStep(p)
    OBVIOUS
  <2> QED
    BY <1>2, <2>1, StayKeeps DEF Look, MigrationsIInv, MigrationsTypeOK
<1>3. ASSUME NEW p \in Processes, Crash(p)
      PROVE  MigrationsIInv'
  <2>1. crashes' \in 0..MaxCrashes
    BY <1>3, MigrationsAssumption DEF Crash, MigrationsIInv, MigrationsTypeOK
  <2>2. FirstStep(p) # 0
    BY DEF FirstStep
  <2> QED
    BY <1>3, <2>1, <2>2, StayKeeps DEF Crash
<1>4. CASE UNCHANGED migrationsVars
  BY <1>4 DEF migrationsVars, MigrationsIInv, MigrationsTypeOK, TablesInOrder, PassedIsDone,
              RecordedIsThere, RunStoreFailsClosed, At
<1> QED
  BY <1>1, <1>2, <1>3, <1>4, InitialSchemaStep, ColumnStep, ReproducibilityStep,
     BundleTablesStep DEF MigrationsNext, StartupStep

-----------------------------------------------------------------------------
LEMMA ServedHasAll == MigrationsIInv => ServedIsComplete
<1> SUFFICES ASSUME MigrationsIInv, NEW p \in Processes, position[p] = Serving
             PROVE  Required \subseteq schema /\ recorded = Version
  BY DEF ServedIsComplete
<1>1. /\ \A v \in 1..6 : v \in recorded
      /\ ChildrenIndex \in schema /\ Tables \subseteq schema
  BY Steps DEF MigrationsIInv, PassedIsDone, TablesInOrder
<1>2. recorded = Version
  BY <1>1, Files DEF MigrationsIInv, MigrationsTypeOK
<1>3. ASSUME NEW v \in Version, NEW x \in Objects(v), x \in Required
      PROVE  x \in schema
  BY <1>1, <1>2, <1>3, Files DEF Required, MigrationsIInv, RecordedIsThere, ChildrenIndex
<1> QED
  BY <1>2, <1>3 DEF Required

(* Wherever an older program was interrupted, however many processes       *)
(* start beside each other and whenever they die: what serves has the      *)
(* whole schema, and what is recorded is there.                            *)
THEOREM StartIsAlwaysSafe == MigrationsSpec => []StartIsSafe
<1>1. MigrationsIInv => StartIsSafe
  BY ServedHasAll DEF MigrationsIInv, StartIsSafe
<1> QED
  BY <1>1, MigrationsInitial, MigrationsStep, PTL DEF MigrationsSpec
-----------------------------------------------------------------------------
(* Commands. *)

(* What is left of a command that may still be resolved is whole: once a   *)
(* chunk has been dropped, the promise has been settled by that chunk.     *)
DroppedIsSettled == written > OutputLimit => outcome # None

ProcessIInv ==
  ProcessTypeOK /\ SettledLeavesNothing /\ ResolvedIsWhole /\ DroppedIsSettled

-----------------------------------------------------------------------------
(* Whatever calls finish() first decides; afterwards nothing is armed.     *)
LEMMA FinishSettles ==
  ASSUME ProcessIInv, NEW result \in Results, Finish(result)
  PROVE  /\ timeout' = FALSE /\ ticker' = FALSE /\ listening' = FALSE
         /\ outcome' \in Results
         /\ outcome' = IF outcome = None THEN result ELSE outcome
<1>1. CASE outcome = None
  BY <1>1 DEF Finish
<1>2. CASE outcome # None
  <2>1. timeout = FALSE /\ ticker = FALSE /\ listening = FALSE
    BY <1>2 DEF ProcessIInv, SettledLeavesNothing, ProcessTypeOK
  <2>2. UNCHANGED <<outcome, timeout, ticker, listening>> /\ outcome \in Results
    BY <1>2 DEF Finish, timers, ProcessIInv, ProcessTypeOK
  <2> QED
    BY <1>2, <2>1, <2>2
<1> QED
  BY <1>1, <1>2

LEMMA ProcessInitial == ProcessInit => ProcessIInv
<1> SUFFICES ASSUME ProcessInit PROVE ProcessIInv
  OBVIOUS
<1>1. ProcessTypeOK
  <2>1. /\ killed \in BOOLEAN /\ tick \in BOOLEAN /\ aborted \in BOOLEAN
        /\ timeout \in BOOLEAN /\ ticker \in BOOLEAN /\ listening \in BOOLEAN
        /\ aborted => ~listening
    BY DEF ProcessInit, Armed
  <2>2. /\ child \in {"running", "exited", "closed", "unborn"}
        /\ outcome \in Results \cup {None}
    BY DEF ProcessInit, Results
  <2>3. /\ written \in 0..OutputLimit + 1
        /\ kept = IF written > OutputLimit THEN OutputLimit ELSE written
    BY ProcessCommandAssumption DEF ProcessInit
  <2> QED
    BY <2>1, <2>2, <2>3 DEF ProcessTypeOK
<1>2. SettledLeavesNothing
  BY DEF ProcessInit, Armed, SettledLeavesNothing
<1>3. outcome # "resolved" /\ written = 0
  BY ProcessCommandAssumption DEF ProcessInit, Results
<1> QED
  BY <1>1, <1>2, <1>3, ProcessCommandAssumption
     DEF ProcessIInv, ResolvedIsWhole, DroppedIsSettled

(* terminate() kills the process, whether or not it is the first to settle *)
(* the command.                                                            *)
LEMMA TerminateKeeps ==
  ASSUME ProcessIInv, NEW code \in Results \ {"resolved"}, Terminate(code),
         child' = child, kept' = kept, written' \in {written, written + 1},
         written' \in 0..OutputLimit + 1,
         kept' = IF written' > OutputLimit THEN OutputLimit ELSE written',
         written' # written => child # "closed",
         tick' \in BOOLEAN, aborted' \in BOOLEAN
  PROVE  ProcessIInv'
<1>1. /\ timeout' = FALSE /\ ticker' = FALSE /\ listening' = FALSE /\ killed' = TRUE
      /\ outcome' \in Results
      /\ outcome' = IF outcome = None THEN code ELSE outcome
  BY FinishSettles DEF Terminate
<1>2. ProcessTypeOK'
  BY <1>1 DEF ProcessIInv, ProcessTypeOK
<1>3. SettledLeavesNothing'
  BY <1>1 DEF SettledLeavesNothing
<1>4. ResolvedIsWhole'
  BY <1>1 DEF ProcessIInv, ResolvedIsWhole
<1>5. DroppedIsSettled'
  BY <1>1, ProcessCommandAssumption DEF DroppedIsSettled
<1> QED
  BY <1>2, <1>3, <1>4, <1>5 DEF ProcessIInv

LEMMA ProcessStep ==
  ASSUME ProcessIInv, [ProcessNext]_processVars
  PROVE  ProcessIInv'
<1> USE ProcessCommandAssumption
<1>1. CASE Collect
  <2>1. CASE written + 1 > OutputLimit
    BY <1>1, <2>1, TerminateKeeps DEF Collect, ProcessIInv, ProcessTypeOK, Results
  <2>2. CASE ~(written + 1 > OutputLimit)
    BY <1>1, <2>2 DEF Collect, ProcessIInv, ProcessTypeOK, SettledLeavesNothing,
                      ResolvedIsWhole, DroppedIsSettled, timers
  <2> QED
    BY <2>1, <2>2
<1>2. CASE Exit
  BY <1>2 DEF Exit, ProcessIInv, ProcessTypeOK, SettledLeavesNothing,
              ResolvedIsWhole, DroppedIsSettled, timers
<1>3. CASE Close
  <2>1. PICK result \in {"resolved", "error"} : Finish(result)
    BY <1>3 DEF Close
  <2>2. /\ timeout' = FALSE /\ ticker' = FALSE /\ listening' = FALSE
        /\ outcome' \in Results
        /\ outcome' = IF outcome = None THEN result ELSE outcome
    BY <2>1, FinishSettles DEF Results
  <2>3. /\ child' = "closed" /\ child # "closed"
        /\ UNCHANGED <<killed, written, kept, tick, aborted>>
    BY <1>3 DEF Close
  <2>4. ProcessTypeOK'
    BY <2>2, <2>3 DEF ProcessIInv, ProcessTypeOK
  <2>5. ResolvedIsWhole'
    BY <2>2, <2>3 DEF ProcessIInv, ProcessTypeOK, ResolvedIsWhole, DroppedIsSettled
  <2>6. SettledLeavesNothing' /\ DroppedIsSettled'
    BY <2>2, <2>3 DEF ProcessIInv, SettledLeavesNothing, DroppedIsSettled
  <2> QED
    BY <2>4, <2>5, <2>6 DEF ProcessIInv
<1>4. CASE Abort
  <2>1. CASE listening
    BY <1>4, <2>1, TerminateKeeps DEF Abort, ProcessIInv, ProcessTypeOK, Results
  <2>2. CASE ~listening
    BY <1>4, <2>2 DEF Abort, ProcessIInv, ProcessTypeOK, SettledLeavesNothing,
                      ResolvedIsWhole, DroppedIsSettled, timers
  <2> QED
    BY <2>1, <2>2
<1>5. CASE TimeoutFires
  BY <1>5, TerminateKeeps DEF TimeoutFires, ProcessIInv, ProcessTypeOK, Results
<1>6. CASE StartTick
  BY <1>6 DEF StartTick, ProcessIInv, ProcessTypeOK, SettledLeavesNothing,
              ResolvedIsWhole, DroppedIsSettled, timers
<1>7. CASE EndTick
  <2>1. CASE Terminate("RUNNER_FAILURE")
    BY <1>7, <2>1, TerminateKeeps DEF EndTick, ProcessIInv, ProcessTypeOK, Results
  <2>2. CASE UNCHANGED <<killed, outcome, timers>>
    BY <1>7, <2>2 DEF EndTick, ProcessIInv, ProcessTypeOK, SettledLeavesNothing,
                      ResolvedIsWhole, DroppedIsSettled, timers
  <2> QED
    BY <1>7, <2>1, <2>2 DEF EndTick
<1>8. CASE UNCHANGED processVars
  BY <1>8 DEF processVars, ProcessIInv, ProcessTypeOK, SettledLeavesNothing,
              ResolvedIsWhole, DroppedIsSettled, timers
<1> QED
  BY <1>1, <1>2, <1>3, <1>4, <1>5, <1>6, <1>7, <1>8 DEF ProcessNext

(* Whichever of the seven callbacks comes first, and whatever comes after  *)
(* it: a settled command has no timer, no listener and no process that has *)
(* not been killed, and a resolved one has all of its output.              *)
THEOREM CommandsAlwaysEndWhole == ProcessSpec => []CommandsEndWhole
<1>1. ProcessIInv => CommandsEndWhole
  BY DEF ProcessIInv, CommandsEndWhole
<1> QED
  BY <1>1, ProcessInitial, ProcessStep, PTL DEF ProcessSpec
-----------------------------------------------------------------------------
(* Repository inspection. *)

(* An answer to a tree, as inspect() comes to it: from the manifest alone, *)
(* or from the manifest and the four files.                                *)
Judges(a, t) ==
  \/ a = Unavailable \/ a = InternalError
  \/ a = Unsupported("NO_SUPPORTED_SKILL") /\ t.manifest.kind \in {"absent", "invalid"}
  \/ /\ a = Unsupported("LIFECYCLE_SCRIPTS_REQUIRED")
     /\ t.manifest.kind = "object" /\ t.manifest.lifecycle
  \/ /\ t.manifest.kind = "object" /\ ~t.manifest.lifecycle
     /\ a = Conclude(t.manifest, t.files)

(* The manifest, and every file that has been received, are those of the   *)
(* one commit, wherever the branch is by now; and whatever has come of it  *)
(* has come of its tree.                                                   *)
InspectionIInv ==
  /\ InspectionTypeOK
  /\ tree \in [Commits -> Trees]
  /\ at = "resolve" => commit = None
  /\ at \in {"resolve", "manifest"} => received = [f \in {} |-> None]
  /\ at \in {"manifest", "files"} => commit # None
  /\ commit # None => commit \in heads
  /\ at = "files" => /\ tree[commit].manifest.kind = "object"
                     /\ ~tree[commit].manifest.lifecycle
                     /\ received = [f \in DOMAIN received |-> tree[commit].files[f]]
  /\ answer # None /\ commit = None => answer \in {Unavailable, Unsupported("REF_NOT_FOUND")}
  /\ answer # None /\ commit # None => Judges(answer, tree[commit])
  /\ runOutcome # None =>
       commit # None /\ answer # None /\ runOutcome \in {Failed, Inspect(tree[commit])}

-----------------------------------------------------------------------------
(* What a tree holds. *)
LEMMA TreeParts ==
  ASSUME NEW t \in Trees
  PROVE  /\ t.files \in [InspectedFiles -> {None, "", "22"}]
         /\ t.obstacle \in Obstacles \union {None}
         /\ t.manifest.kind \in {"absent", "invalid", "null", "object"}
         /\ t.manifest.kind = "object" =>
              /\ t.manifest.lifecycle \in BOOLEAN /\ t.manifest.typescript \in BOOLEAN
              /\ t.manifest.manager \in {None, "npm", "pnpm", "", "object"}
              /\ t.manifest.node \in {None, "", "22"} /\ t.manifest.build \in {None, "", "tsc"}
<1>1. t \in [manifest : Manifests, files : [InspectedFiles -> {None, "", "22"}], obstacle : Obstacles \union {None}]
  BY TreesAssumption
<1>2. t.manifest \in Manifests
  BY <1>1
<1> QED
  BY <1>1, <1>2 DEF Manifests

LEMMA AnswerShapes ==
  /\ Unavailable \in Answers /\ InternalError \in Answers
  /\ \A reason \in Reasons : Unsupported(reason) \in Answers
  /\ None \notin Answers
BY InspectionAssumption DEF Unavailable, InternalError, Unsupported, Answers

(* The two lockfiles that tell the package manager. *)
LEMMA LocksOf ==
  ASSUME NEW t \in Trees
  PROVE  /\ "package-lock.json" \in Locks(t) <=> Present(t.files["package-lock.json"])
         /\ "pnpm-lock.yaml" \in Locks(t) <=> Present(t.files["pnpm-lock.yaml"])
         /\ Locks(t) \subseteq {"package-lock.json", "pnpm-lock.yaml"}
         /\ Cardinality(Locks(t)) = 2 <=>
              Present(t.files["package-lock.json"]) /\ Present(t.files["pnpm-lock.yaml"])
<1> DEFINE npm == "package-lock.json"
           pnpm == "pnpm-lock.yaml"
<1>1. /\ npm \in Locks(t) <=> Present(t.files[npm])
      /\ pnpm \in Locks(t) <=> Present(t.files[pnpm])
      /\ Locks(t) \subseteq {npm, pnpm}
  BY DEF Locks, Present
<1>2. Cardinality({npm, pnpm}) = 2 /\ IsFiniteSet({npm, pnpm})
  <2>1. npm # pnpm
    OBVIOUS
  <2> HIDE DEF npm, pnpm
  <2>2. IsFiniteSet({npm}) /\ Cardinality({npm}) = 1
    BY FS_Singleton
  <2>3. {npm, pnpm} = {npm} \cup {pnpm}
    OBVIOUS
  <2> QED
    BY <2>1, <2>2, <2>3, FS_AddElement
<1>3. ASSUME Cardinality(Locks(t)) = 2
      PROVE  Locks(t) = {npm, pnpm}
  BY <1>1, <1>2, <1>3, FS_Subset
<1>4. npm \in Locks(t) /\ pnpm \in Locks(t) => Locks(t) = {npm, pnpm}
  BY <1>1
<1> QED
  BY <1>1, <1>2, <1>3, <1>4

(* What inspection concludes from the files is a well-formed answer; if it *)
(* supports the tree, the answer describes it.                             *)
LEMMA Conclusion ==
  ASSUME NEW t \in Trees, NEW a, a = Conclude(t.manifest, t.files),
         commit \in Commits, t.manifest.kind = "object"
  PROVE  /\ a \in Answers /\ a.kind \in {"supported", "unsupported"}
         /\ a.kind = "supported" =>
              /\ a.commit = commit
              /\ Locks(t) = {IF a.packageManager = "npm" THEN "package-lock.json" ELSE "pnpm-lock.yaml"}
              /\ t.manifest.manager \notin Managers \ {a.packageManager}
              /\ a.build = t.manifest.build
              /\ a.hasTypeScript <=> t.files["tsconfig.json"] # None \/ t.manifest.typescript
              /\ a.nodeVersion \in {t.manifest.node, t.files[".nvmrc"], None}
         /\ a.kind = "unsupported" =>
              \/ Locks(t) = {} /\ a.reason = "LOCKFILE_MISSING"
              \/ Cardinality(Locks(t)) = 2 /\ a.reason = "LOCKFILE_MISMATCH"
              \/ /\ \E f \in {"package-lock.json", "pnpm-lock.yaml"} : Locks(t) = {f}
                 /\ \/ t.manifest.manager = ""
                    \/ t.manifest.manager \in Managers \ {IF "package-lock.json" \in Locks(t) THEN "npm" ELSE "pnpm"}
                 /\ a.reason = "LOCKFILE_MISMATCH"
<1> DEFINE npm == Present(t.files["package-lock.json"])
           pnpm == Present(t.files["pnpm-lock.yaml"])
           packageManager == IF npm THEN "npm" ELSE "pnpm"
           other == t.manifest.manager \in {"npm", "pnpm", ""} \ {packageManager}
           node == IF t.manifest.node # None THEN t.manifest.node
                   ELSE IF t.files[".nvmrc"] = "" THEN None ELSE t.files[".nvmrc"]
           typescript == Present(t.files["tsconfig.json"]) \/ t.manifest.typescript
<1>1. /\ npm /\ pnpm => a = Unsupported("LOCKFILE_MISMATCH")
      /\ ~npm /\ ~pnpm => a = Unsupported("LOCKFILE_MISSING")
      /\ (npm \/ pnpm) /\ ~(npm /\ pnpm) /\ other => a = Unsupported("LOCKFILE_MISMATCH")
      /\ (npm \/ pnpm) /\ ~(npm /\ pnpm) /\ ~other =>
           a = [kind |-> "supported", commit |-> commit, packageManager |-> packageManager,
                nodeVersion |-> node, hasTypeScript |-> typescript, build |-> t.manifest.build]
  BY DEF Conclude
<1>2. /\ node \in {t.manifest.node, t.files[".nvmrc"], None} /\ node \in {None, "", "22"}
      /\ typescript \in BOOLEAN
      /\ typescript <=> t.files["tsconfig.json"] # None \/ t.manifest.typescript
      /\ t.manifest.build \in {None, "", "tsc"}
  BY TreeParts DEF Present, InspectedFiles
<1>3. CASE npm /\ pnpm
  <2>1. a = Unsupported("LOCKFILE_MISMATCH") /\ Cardinality(Locks(t)) = 2
    BY <1>1, <1>3, LocksOf
  <2> QED
    BY <2>1, AnswerShapes DEF Unsupported, Reasons
<1>4. CASE ~npm /\ ~pnpm
  <2>1. a = Unsupported("LOCKFILE_MISSING") /\ Locks(t) = {}
    BY <1>1, <1>4, LocksOf
  <2> QED
    BY <2>1, AnswerShapes DEF Unsupported, Reasons
<1>5. CASE (npm \/ pnpm) /\ ~(npm /\ pnpm)
  <2>1. /\ Locks(t) = {IF npm THEN "package-lock.json" ELSE "pnpm-lock.yaml"}
        /\ "package-lock.json" \in Locks(t) <=> npm
    BY <1>5, LocksOf
  <2>2. packageManager \in Managers /\ (packageManager = "npm" <=> npm)
    BY DEF Managers
  <2>3. CASE other
    <3>1. a = Unsupported("LOCKFILE_MISMATCH")
      BY <1>1, <1>5, <2>3
    <3>2. t.manifest.manager = "" \/ t.manifest.manager \in Managers \ {packageManager}
      BY <2>3 DEF Managers
    <3>3. a \in Answers /\ a.kind = "unsupported" /\ a.reason = "LOCKFILE_MISMATCH"
      BY <3>1, AnswerShapes DEF Unsupported, Reasons
    <3>4. packageManager = IF "package-lock.json" \in Locks(t) THEN "npm" ELSE "pnpm"
      BY <2>1
    <3>5. \E f \in {"package-lock.json", "pnpm-lock.yaml"} : Locks(t) = {f}
      BY <2>1
    <3> HIDE DEF packageManager, npm, pnpm, other
    <3> QED
      BY <3>2, <3>3, <3>4, <3>5
  <2>4. CASE ~other
    <3>1. a = [kind |-> "supported", commit |-> commit, packageManager |-> packageManager,
               nodeVersion |-> node, hasTypeScript |-> typescript, build |-> t.manifest.build]
      BY <1>1, <1>5, <2>4
    <3>2. t.manifest.manager \notin Managers \ {packageManager}
      BY <2>4 DEF Managers
    <3>3. /\ a.kind = "supported" /\ a.commit = commit /\ a.packageManager = packageManager
          /\ a.nodeVersion = node /\ a.hasTypeScript = typescript /\ a.build = t.manifest.build
      <4> HIDE DEF packageManager, node, typescript
      <4> QED
        BY <3>1
    <3>4. a \in Answers
      <4>1. node \in {None, "", "22"} /\ typescript \in BOOLEAN /\ t.manifest.build \in {None, "", "tsc"}
        BY <1>2
      <4> HIDE DEF packageManager, node, typescript
      <4>2. a \in [kind : {"supported"}, commit : Commits, packageManager : Managers,
                  nodeVersion : {None, "", "22"}, hasTypeScript : BOOLEAN, build : {None, "", "tsc"}]
        BY ONLY <2>2, <3>1, <4>1, commit \in Commits
      <4> QED
        BY <4>2 DEF Answers
    <3>5. Locks(t) = {IF a.packageManager = "npm" THEN "package-lock.json" ELSE "pnpm-lock.yaml"}
      BY <2>1, <2>2, <3>3
    <3>6. a.hasTypeScript <=> t.files["tsconfig.json"] # None \/ t.manifest.typescript
      BY <1>2, <3>3
    <3>7. a.nodeVersion \in {t.manifest.node, t.files[".nvmrc"], None}
      BY <1>2, <3>3
    <3> HIDE DEF packageManager, npm, pnpm, other, node, typescript
    <3> QED
      BY <3>2, <3>3, <3>4, <3>5, <3>6, <3>7
  <2> QED
    BY <2>3, <2>4
<1> QED
  BY <1>3, <1>4, <1>5

(* The runner's script on the same tree. *)
LEMMA InspectedTree ==
  ASSUME NEW t \in Trees
  PROVE  /\ Inspect(t) \in RunOutcomes
         /\ t.manifest.kind = "object" => InspectProject(t) = Inspect(t)
         /\ t.obstacle # None => Inspect(t) = Rejected(t.obstacle)
         /\ t.obstacle = None /\ Locks(t) = {} => Inspect(t) = Rejected("LOCKFILE_MISSING")
         /\ t.obstacle = None /\ Cardinality(Locks(t)) = 2 => Inspect(t).kind = "rejected"
         /\ (\E f \in {"package-lock.json", "pnpm-lock.yaml"} : Locks(t) = {f}) =>
              LET packageManager == IF "package-lock.json" \in Locks(t) THEN "npm" ELSE "pnpm"
              IN  /\ t.obstacle = None /\ t.manifest.kind \in {"absent", "invalid"} =>
                       Inspect(t) = Rejected("NO_SUPPORTED_SKILL")
                  /\ t.obstacle = None /\ t.manifest.kind = "object" /\ t.manifest.lifecycle =>
                       Inspect(t) = Rejected("LIFECYCLE_SCRIPTS_REQUIRED")
                  /\ t.obstacle = None /\ t.manifest.kind = "object" /\ ~t.manifest.lifecycle =>
                       Inspect(t) = ManagerOutcome(packageManager, t.manifest)
<1> DEFINE packageManager == IF "package-lock.json" \in Locks(t) THEN "npm" ELSE "pnpm"
<1>1. t.manifest.kind = "object" /\ ~t.manifest.lifecycle => ManagerOutcome(packageManager, t.manifest) \in RunOutcomes
  BY TreeParts DEF ManagerOutcome, RunOutcomes, Rejected, Failed, Accepted, Managers, Reasons
<1>2. Inspect(t) \in RunOutcomes
  <2>1. \A code \in Reasons \union Obstacles : Rejected(code) \in RunOutcomes
    BY DEF Rejected, RunOutcomes
  <2>2. Failed \in RunOutcomes
    BY DEF Failed, RunOutcomes
  <2> HIDE DEF packageManager
  <2> QED
    BY <1>1, <2>1, <2>2, TreeParts DEF Inspect, Reasons, packageManager
<1>3. Locks(t) = {} => Cardinality(Locks(t)) # 2
  BY FS_EmptySet
<1>4. \A f : Locks(t) = {f} => Cardinality(Locks(t)) # 2 /\ Locks(t) # {}
  BY FS_Singleton
<1> QED
  BY <1>2, <1>3, <1>4, TreeParts, FS_EmptySet DEF Inspect, InspectProject, Rejected

(* The runner and inspection agree about a tree. *)
LEMMA RunnerAgreesOn ==
  ASSUME NEW t \in Trees, NEW a \in Answers, Judges(a, t), commit \in Commits,
         Inspect(t) # Failed
  PROVE  /\ a.kind = "supported" =>
              \/ Inspect(t).kind = "accepted" /\ Inspect(t).packageManager = a.packageManager
              \/ Inspect(t).kind = "rejected" /\ Inspect(t).code = t.obstacle
         /\ a.kind = "unsupported" =>
              \/ Inspect(t).kind = "rejected"
              \/ t.manifest.manager = "" /\ a.reason = "LOCKFILE_MISMATCH"
<1> DEFINE o == Inspect(t)
           packageManager == IF "package-lock.json" \in Locks(t) THEN "npm" ELSE "pnpm"
           Single == \E f \in {"package-lock.json", "pnpm-lock.yaml"} : Locks(t) = {f}
<1>1. Locks(t) = {} \/ Cardinality(Locks(t)) = 2 \/ Single
  <2>1. "package-lock.json" \in Locks(t) /\ "pnpm-lock.yaml" \in Locks(t) => Cardinality(Locks(t)) = 2
    BY LocksOf
  <2> QED
    BY <2>1, LocksOf
<1>2. CASE t.obstacle # None
  <2>1. o = Rejected(t.obstacle)
    BY <1>2, InspectedTree
  <2>2. o.kind = "rejected" /\ o.code = t.obstacle
    BY <2>1 DEF Rejected
  <2> HIDE DEF o
  <2> QED
    BY <2>2 DEF o
<1>3. CASE t.obstacle = None
  <2>1. Locks(t) = {} \/ Cardinality(Locks(t)) = 2 => o.kind = "rejected"
    <3>1. Locks(t) = {} => o.kind = "rejected"
      BY <1>3, InspectedTree DEF Rejected
    <3>2. Cardinality(Locks(t)) = 2 => o.kind = "rejected"
      BY <1>3, InspectedTree
    <3> QED
      BY <3>1, <3>2
  <2>2. CASE a = Unavailable \/ a = InternalError
    <3>1. a.kind \notin {"supported", "unsupported"}
      BY <2>2 DEF Unavailable, InternalError
    <3> QED
      BY <3>1
  <2>3. CASE a = Unsupported("NO_SUPPORTED_SKILL") /\ t.manifest.kind \in {"absent", "invalid"}
    <3>1. Single => o = Rejected("NO_SUPPORTED_SKILL")
      BY <1>3, <2>3, InspectedTree
    <3>2. o.kind = "rejected"
      BY <1>1, <2>1, <3>1 DEF Rejected
    <3> QED
      BY <2>3, <3>2 DEF Unsupported
  <2>4. CASE /\ a = Unsupported("LIFECYCLE_SCRIPTS_REQUIRED")
             /\ t.manifest.kind = "object" /\ t.manifest.lifecycle
    <3>1. Single => o = Rejected("LIFECYCLE_SCRIPTS_REQUIRED")
      BY <1>3, <2>4, InspectedTree
    <3>2. o.kind = "rejected"
      BY <1>1, <2>1, <3>1 DEF Rejected
    <3> QED
      BY <2>4, <3>2 DEF Unsupported
  <2>5. CASE /\ t.manifest.kind = "object" /\ ~t.manifest.lifecycle
             /\ a = Conclude(t.manifest, t.files)
    <3>1. Single => o = ManagerOutcome(packageManager, t.manifest)
      BY <1>3, <2>5, InspectedTree
    <3>2. packageManager \in Managers
      BY DEF Managers
    <3>3. ASSUME a.kind = "supported"
          PROVE  o.kind = "accepted" /\ o.packageManager = a.packageManager
      <4>1. /\ Locks(t) = {IF a.packageManager = "npm" THEN "package-lock.json" ELSE "pnpm-lock.yaml"}
            /\ t.manifest.manager \notin Managers \ {a.packageManager}
        BY <2>5, <3>3, Conclusion
      <4>2. a.packageManager \in Managers
        BY <3>3 DEF Answers
      <4>3. packageManager = a.packageManager
        BY <4>1, <4>2 DEF Managers
      <4>4. o = ManagerOutcome(packageManager, t.manifest)
        BY <3>1, <4>1
      <4>5. o = Accepted(packageManager, t.manifest)
        BY <4>1, <4>3, <4>4 DEF ManagerOutcome, Managers
      <4> QED
        BY <4>3, <4>5 DEF Accepted
    <3>4. ASSUME a.kind = "unsupported", t.manifest.manager # ""
          PROVE  o.kind = "rejected"
      <4>1. CASE ~Single
        BY <1>1, <2>1, <4>1
      <4>2. CASE Single
        <5>1. Locks(t) # {} /\ Cardinality(Locks(t)) # 2
          BY <4>2, FS_Singleton
        <5>2. t.manifest.manager \in Managers \ {packageManager}
          BY <2>5, <3>4, <5>1, Conclusion
        <5>3. o = Rejected("LOCKFILE_MISMATCH")
          BY <3>1, <4>2, <5>2 DEF ManagerOutcome, Managers
        <5> QED
          BY <5>3 DEF Rejected
      <4> QED
        BY <4>1, <4>2
    <3>5. a.kind = "unsupported" /\ t.manifest.manager = "" =>
            o.kind = "rejected" \/ a.reason = "LOCKFILE_MISMATCH"
      BY <1>1, <2>1, <2>5, Conclusion
    <3> QED
      BY <3>3, <3>4, <3>5
  <2> QED
    BY <2>2, <2>3, <2>4, <2>5 DEF Judges
<1> QED
  BY <1>2, <1>3

-----------------------------------------------------------------------------
LEMMA InspectionInitial == InspectionInit => InspectionIInv
BY InspectionAssumption DEF InspectionInit, InspectionIInv, InspectionTypeOK

(* What an answer establishes when it is given. *)
LEMMA AnswerGiven ==
  ASSUME InspectionIInv, at \in {"manifest", "files"}, NEW a \in Answers, Done(a),
         Judges(a, tree[commit]),
         UNCHANGED <<tree, branch, heads, commit, runOutcome>>,
         DOMAIN received' \subseteq InspectedFiles
  PROVE  InspectionIInv'
<1>1. commit \in Commits /\ commit # None /\ answer = None /\ runOutcome = None
  BY DEF InspectionIInv, InspectionTypeOK
<1>2. Judges(answer, tree[commit])'
  BY DEF Judges, Conclude, Done
<1>3. a # None
  BY AnswerShapes
<1> QED
  BY <1>1, <1>2, <1>3 DEF Done, InspectionIInv, InspectionTypeOK

LEMMA InspectionStep == InspectionIInv /\ [InspectionNext]_inspectionVars => InspectionIInv'
<1> SUFFICES ASSUME InspectionIInv, [InspectionNext]_inspectionVars
             PROVE  InspectionIInv'
  OBVIOUS
<1>1. CASE Move
  <2>1. commit' = commit /\ answer' = answer /\ tree' = tree
    BY <1>1 DEF Move, callVars
  <2>2. answer # None /\ commit # None => Judges(answer, tree[commit])'
    BY <2>1 DEF InspectionIInv, Judges, Conclude
  <2> QED
    BY <1>1, <2>2 DEF Move, callVars, InspectionIInv, InspectionTypeOK
<1>2. CASE Resolve
  <2>1. commit = None /\ answer = None /\ runOutcome = None
    BY <1>2 DEF Resolve, InspectionIInv, InspectionTypeOK
  <2>2. CASE branch # None /\ commit' = branch /\ at' = "manifest" /\ UNCHANGED answer
    BY <1>2, <2>1, <2>2 DEF Resolve, InspectionIInv, InspectionTypeOK
  <2>3. ASSUME NEW a \in {Unavailable, Unsupported("REF_NOT_FOUND")}, Done(a), UNCHANGED commit
        PROVE  InspectionIInv'
    <3>1. a \in Answers /\ a # None
      BY <2>3, AnswerShapes DEF Reasons
    <3> QED
      BY <1>2, <2>1, <2>3, <3>1 DEF Resolve, Done, InspectionIInv, InspectionTypeOK
  <2> QED
    BY <1>2, <2>2, <2>3 DEF Resolve
<1>3. CASE ReadManifest
  <2> DEFINE t == tree[commit]
  <2>1. commit \in Commits /\ t \in Trees
    BY <1>3 DEF ReadManifest, InspectionIInv, InspectionTypeOK
  <2>2. ASSUME NEW a, Done(a),
               \/ a = Unavailable \/ a = InternalError
               \/ a = Unsupported("NO_SUPPORTED_SKILL") /\ t.manifest.kind \in {"absent", "invalid"}
               \/ /\ a = Unsupported("LIFECYCLE_SCRIPTS_REQUIRED")
                  /\ t.manifest.kind = "object" /\ t.manifest.lifecycle
        PROVE  InspectionIInv'
    <3>1. a \in Answers
      BY <2>2, AnswerShapes DEF Reasons
    <3>2. Judges(a, t)
      BY <2>2 DEF Judges
    <3>3. /\ UNCHANGED <<tree, branch, heads, commit, runOutcome>> /\ at = "manifest"
          /\ DOMAIN received' \subseteq InspectedFiles
      BY <1>3 DEF ReadManifest, InspectionIInv, InspectionTypeOK
    <3> QED
      BY <2>2, <3>1, <3>2, <3>3, AnswerGiven
  <2>3. CASE /\ t.manifest.kind = "object" /\ ~t.manifest.lifecycle
             /\ at' = "files" /\ UNCHANGED answer
    BY <1>3, <2>1, <2>3 DEF ReadManifest, InspectionIInv, InspectionTypeOK
  <2> QED
    BY <1>3, <2>2, <2>3 DEF ReadManifest
<1>4. ASSUME NEW f \in InspectedFiles, ReadFile(f)
      PROVE  InspectionIInv'
  <2> DEFINE t == tree[commit]
             found == [g \in DOMAIN received \union {f} |->
                         IF g = f THEN FileAt(commit, f) ELSE received[g]]
  <2>1. /\ commit \in Commits /\ t \in Trees /\ t.manifest.kind = "object" /\ ~t.manifest.lifecycle
        /\ received = [g \in DOMAIN received |-> t.files[g]] /\ DOMAIN received \subseteq InspectedFiles
    BY <1>4 DEF ReadFile, InspectionIInv, InspectionTypeOK
  <2>2. found = [g \in DOMAIN found |-> t.files[g]] /\ DOMAIN found \subseteq InspectedFiles
    BY <2>1 DEF FileAt
  <2>3. CASE Done(Unavailable) /\ UNCHANGED received
    BY <1>4, <2>1, <2>3, AnswerShapes, AnswerGiven DEF ReadFile, Judges
  <2>4. CASE received' = found /\ DOMAIN found = InspectedFiles /\ Done(Conclude(t.manifest, found))
    <3>1. found = t.files
      BY <2>1, <2>2, <2>4, TreeParts
    <3>2. Conclude(t.manifest, t.files) \in Answers
      BY <2>1, Conclusion
    <3>3. Judges(Conclude(t.manifest, t.files), t)
      BY <2>1 DEF Judges
    <3> HIDE DEF found
    <3> QED
      BY <1>4, <2>2, <2>4, <3>1, <3>2, <3>3, AnswerGiven DEF ReadFile
  <2>5. CASE received' = found /\ UNCHANGED <<at, answer>>
    <3> HIDE DEF found
    <3> QED
      BY <1>4, <2>1, <2>2, <2>5 DEF ReadFile, InspectionIInv, InspectionTypeOK
  <2> QED
    BY <1>4, <2>3, <2>4, <2>5 DEF ReadFile
<1>5. CASE Run
  <2>1. commit \in Commits /\ tree[commit] \in Trees /\ answer # None
    BY <1>5 DEF Run, InspectionIInv, InspectionTypeOK
  <2>2. runOutcome' \in {Failed, Inspect(tree[commit])} /\ runOutcome' \in RunOutcomes
    BY <1>5, <2>1, InspectedTree DEF Run, Failed, RunOutcomes
  <2>3. Judges(answer, tree[commit])'
    BY <1>5, <2>1 DEF Run, callVars, InspectionIInv, Judges, Conclude
  <2> QED
    BY <1>5, <2>1, <2>2, <2>3 DEF Run, callVars, InspectionIInv, InspectionTypeOK
<1>6. CASE UNCHANGED inspectionVars
  BY <1>6 DEF inspectionVars, callVars, InspectionIInv, InspectionTypeOK, Judges, Conclude
<1> QED
  BY <1>1, <1>2, <1>3, <1>4, <1>5, <1>6 DEF InspectionNext, Step

LEMMA InspectionTells == InspectionIInv => InspectionIsTrue
<1> SUFFICES ASSUME InspectionIInv
             PROVE  InspectionIsTrue
  OBVIOUS
<1>1. DescribesOneCommit
  <2> SUFFICES ASSUME AnsweredAs("supported")
               PROVE  /\ answer.commit \in heads
                      /\ LET t == tree[answer.commit]
                         IN  /\ Locks(t) = {IF answer.packageManager = "npm" THEN "package-lock.json" ELSE "pnpm-lock.yaml"}
                             /\ t.manifest.kind = "object" /\ ~t.manifest.lifecycle
                             /\ answer.build = t.manifest.build
                             /\ answer.hasTypeScript <=> t.files["tsconfig.json"] # None \/ t.manifest.typescript
                             /\ answer.nodeVersion \in {t.manifest.node, t.files[".nvmrc"], None}
    BY DEF DescribesOneCommit
  <2>1. answer # None /\ answer.kind = "supported"
    BY DEF AnsweredAs
  <2>2. commit # None
    BY <2>1 DEF InspectionIInv, Unavailable, Unsupported
  <2>3. commit \in Commits /\ commit \in heads /\ tree[commit] \in Trees
    BY <2>2 DEF InspectionIInv, InspectionTypeOK
  <2>4. /\ tree[commit].manifest.kind = "object" /\ ~tree[commit].manifest.lifecycle
        /\ answer = Conclude(tree[commit].manifest, tree[commit].files)
    BY <2>1, <2>2 DEF InspectionIInv, Judges, Unavailable, InternalError, Unsupported
  <2> QED
    BY <2>1, <2>3, <2>4, Conclusion
<1>2. RunnerAgrees
  <2> SUFFICES ASSUME runOutcome # None, runOutcome # Failed
               PROVE  /\ AnsweredAs("supported") =>
                           \/ runOutcome.kind = "accepted" /\ runOutcome.packageManager = answer.packageManager
                           \/ runOutcome.kind = "rejected" /\ runOutcome.code = tree[commit].obstacle
                      /\ AnsweredAs("unsupported") =>
                           \/ runOutcome.kind = "rejected"
                           \/ tree[commit].manifest.manager = "" /\ answer.reason = "LOCKFILE_MISMATCH"
    BY DEF RunnerAgrees
  <2>1. /\ commit \in Commits /\ answer \in Answers /\ tree[commit] \in Trees
        /\ Judges(answer, tree[commit]) /\ runOutcome = Inspect(tree[commit])
    BY DEF InspectionIInv, InspectionTypeOK
  <2> QED
    BY <2>1, RunnerAgreesOn DEF AnsweredAs
<1>3. TestedIsDeployed
  BY InspectedTree DEF TestedIsDeployed, InspectionIInv
<1> QED
  BY <1>1, <1>2, <1>3 DEF InspectionIsTrue

(* For any commits and any trees: wherever the branch is moved while the   *)
(* five requests of an inspection are on their way, its answer is true of  *)
(* one commit, one that the branch was at since it began; a run of that    *)
(* commit takes it for the same package manager or refuses it too; and     *)
(* the method the tests exercise decides as the deployed script does.      *)
THEOREM InspectionIsAlwaysTrue == InspectionSpec => []InspectionIsTrue
BY InspectionInitial, InspectionStep, InspectionTells, PTL DEF InspectionSpec

-----------------------------------------------------------------------------
(* The run page. *)

Visits ==
  [id : Ids, cancelled : BOOLEAN, step : {"asking", "answered", "armed", "ended"},
   reply : RunStates \union {None}]

(* The visit that is on is one of the route.  Nothing the page shows or    *)
(* has been told is ahead of the server, and what the visit that is on has *)
(* been told is not behind what the page shows: when it asked, the page    *)
(* showed what it still shows.                                             *)
RunPageIInv ==
  /\ RunPageTypeOK
  /\ visits \in Seq(Visits)
  /\ route # None => visits # << >> /\ visits[CurrentVisit].id = route
  /\ TheRouteIsShownOnceHeard
  /\ shownRun.id # None => Precedes(shownRun.state, server[shownRun.id])
  /\ \A v \in DOMAIN visits : HasAnswered(v) =>
       /\ Precedes(visits[v].reply, server[visits[v].id])
       /\ ~visits[v].cancelled /\ visits[v].id = shownRun.id
            => Precedes(shownRun.state, visits[v].reply)

LEMMA PrecedesIsTransitive ==
  ASSUME NEW s \in RunStates, NEW t \in RunStates, NEW u \in RunStates,
         Precedes(s, t), Precedes(t, u)
  PROVE  Precedes(s, u)
<1>1. s.version \in Nat /\ t.version \in Nat /\ u.version \in Nat
  BY DEF RunStates
<1> QED
  BY <1>1 DEF Precedes

LEMMA RunPageInitial == RunPageInit => RunPageIInv
<1> SUFFICES ASSUME RunPageInit PROVE RunPageIInv
  OBVIOUS
<1>1. visits = << >> /\ Len(visits) = 0 /\ DOMAIN visits = {} /\ visits \in Seq(Visits)
  BY DEF RunPageInit
<1>2. RunPageTypeOK
  <2>1. server \in [Ids -> RunStates]
    BY DEF RunPageInit, Created, RunStates
  <2>2. 0 <= MaxVisits /\ 0 \in 0..MaxLost
    BY RunPageAssumption
  <2> QED
    BY <1>1, <2>1, <2>2 DEF RunPageInit, RunPageTypeOK, CurrentVisit
<1> QED
  BY <1>1, <1>2 DEF RunPageInit, RunPageIInv, TheRouteIsShownOnceHeard, NoRun

(* A visit and what the clean-up leaves of the one before it. *)
LEMMA CleanUp ==
  ASSUME RunPageIInv
  PROVE  /\ CleanedUp \in Seq(Visits) /\ Len(CleanedUp) = Len(visits)
         /\ DOMAIN CleanedUp = DOMAIN visits
         /\ \A v \in DOMAIN visits :
              /\ CleanedUp[v].id = visits[v].id /\ CleanedUp[v].reply = visits[v].reply
              /\ CleanedUp[v].cancelled
              /\ CleanedUp[v].step \in {visits[v].step, "ended"}
              /\ CleanedUp[v].step = "answered" <=> visits[v].step = "answered"
<1>1. visits \in Seq(Visits) /\ DOMAIN visits = 1..Len(visits) /\ Len(visits) \in Nat
  BY DEF RunPageIInv
<1>2. CASE Len(visits) = 0
  BY <1>1, <1>2 DEF CleanedUp, CurrentVisit
<1>3. CASE Len(visits) # 0
  <2> DEFINE n == Len(visits)
             last == [visits[n] EXCEPT !.cancelled = TRUE,
                                       !.step = IF @ = "armed" THEN "ended" ELSE @]
  <2>1. n \in DOMAIN visits /\ visits[n] \in Visits
    BY <1>1, <1>3
  <2>2. CleanedUp = [visits EXCEPT ![n] = last]
    BY <1>1, <1>3, <2>1 DEF CleanedUp, CurrentVisit, Visits
  <2>3. /\ last \in Visits /\ last.id = visits[n].id /\ last.reply = visits[n].reply
        /\ last.cancelled /\ last.step \in {visits[n].step, "ended"}
        /\ last.step = "answered" <=> visits[n].step = "answered"
    BY <2>1 DEF Visits
  <2>4. \A v \in DOMAIN visits : v # n => visits[v].cancelled
    BY <1>1 DEF RunPageIInv, RunPageTypeOK, CurrentVisit
  <2> HIDE DEF last
  <2>5. CleanedUp \in Seq(Visits) /\ Len(CleanedUp) = n /\ DOMAIN CleanedUp = DOMAIN visits
    BY <1>1, <2>1, <2>2, <2>3
  <2>6. \A v \in DOMAIN visits : CleanedUp[v] = IF v = n THEN last ELSE visits[v]
    BY <2>1, <2>2
  <2> QED
    BY <2>3, <2>4, <2>5, <2>6
<1> QED
  BY <1>1, <1>2, <1>3

(* One visit goes on. *)
LEMMA GoesOn ==
  ASSUME RunPageIInv, NEW v \in DOMAIN visits,
         NEW step \in {"asking", "answered", "armed", "ended"}, NEW reply \in RunStates \union {None},
         visits' = [visits EXCEPT ![v].step = step, ![v].reply = reply]
  PROVE  /\ visits' \in Seq(Visits) /\ Len(visits') = Len(visits) /\ DOMAIN visits' = DOMAIN visits
         /\ \A w \in DOMAIN visits :
              /\ visits'[w].id = visits[w].id /\ visits'[w].cancelled = visits[w].cancelled
              /\ w # v => visits'[w] = visits[w]
         /\ visits'[v].step = step /\ visits'[v].reply = reply
<1>1. visits \in Seq(Visits) /\ visits[v] \in Visits
  BY DEF RunPageIInv
<1> DEFINE new == [visits[v] EXCEPT !.step = step, !.reply = reply]
<1>2. visits' = [visits EXCEPT ![v] = new]
  BY <1>1 DEF Visits
<1>3. /\ new \in Visits /\ new.id = visits[v].id /\ new.cancelled = visits[v].cancelled
      /\ new.step = step /\ new.reply = reply
  BY <1>1 DEF Visits
<1> HIDE DEF new
<1>4. visits' \in Seq(Visits) /\ Len(visits') = Len(visits) /\ DOMAIN visits' = DOMAIN visits
  <2>1. v \in 1..Len(visits)
    BY <1>1
  <2>2. new \in Visits
    BY <1>3
  <2>3. /\ [visits EXCEPT ![v] = new] \in Seq(Visits)
        /\ Len([visits EXCEPT ![v] = new]) = Len(visits)
    BY <1>1, <2>1, <2>2, ExceptSeq
  <2> QED
    BY <1>1, <1>2, <2>3
<1> QED
  BY <1>1, <1>2, <1>3, <1>4

(* A change on the server: what is known of the run stays behind it. *)
LEMMA BecomesStep ==
  ASSUME RunPageIInv, NEW id \in Ids, NEW status \in {"QUEUED", "RUNNING"} \union Outcomes,
         Live(server[id]), Becomes(id, status)
  PROVE  RunPageIInv'
<1> DEFINE new == [status |-> status, version |-> server[id].version + 1]
<1>0. /\ server \in [Ids -> RunStates] /\ server' = [server EXCEPT ![id] = new]
      /\ new \in RunStates /\ Precedes(server[id], new)
  <2>1. server \in [Ids -> RunStates] /\ server' = [server EXCEPT ![id] = new]
    BY DEF RunPageIInv, RunPageTypeOK, Becomes
  <2>2. server[id].version \in Nat
    BY <2>1 DEF RunStates
  <2>3. new \in RunStates
    BY <2>2 DEF RunStates
  <2>4. new.version = server[id].version + 1
    OBVIOUS
  <2> HIDE DEF new
  <2>5. Precedes(server[id], new)
    BY <2>2, <2>4 DEF Precedes
  <2> QED
    BY <2>1, <2>3, <2>5
<1> HIDE DEF new
<1>1. /\ server' \in [Ids -> RunStates]
      /\ \A i \in Ids : Precedes(server[i], server'[i])
  BY <1>0 DEF Precedes
<1>2. /\ \A v \in DOMAIN visits : HasAnswered(v) => visits[v].id \in Ids /\ visits[v].reply \in RunStates
      /\ shownRun.id # None => shownRun.id \in Ids /\ shownRun.state \in RunStates
      /\ server \in [Ids -> RunStates]
  BY DEF RunPageIInv, RunPageTypeOK, HasAnswered, NoRun
<1>3. UNCHANGED <<route, visits, shownRun, pollError, lost>>
  BY DEF Becomes
<1>4. RunPageTypeOK'
  BY <1>1, <1>3 DEF RunPageIInv, RunPageTypeOK, CurrentVisit
<1>5. \A v \in DOMAIN visits : HasAnswered(v) => Precedes(visits[v].reply, server'[visits[v].id])
  BY <1>1, <1>2, PrecedesIsTransitive DEF RunPageIInv
<1>6. shownRun.id # None => Precedes(shownRun.state, server'[shownRun.id])
  BY <1>1, <1>2, PrecedesIsTransitive DEF RunPageIInv
<1> QED
  BY <1>3, <1>4, <1>5, <1>6 DEF RunPageIInv, TheRouteIsShownOnceHeard, CurrentVisit, HasAnswered

LEMMA ServerStep ==
  ASSUME RunPageIInv, NEW id \in Ids, Claim(id) \/ Requeue(id) \/ Settle(id) PROVE RunPageIInv'
BY BecomesStep DEF Claim, Requeue, Settle, Live

LEMMA VisitStep == ASSUME RunPageIInv, NEW id \in Ids, Visit(id) PROVE RunPageIInv'
<1> DEFINE n == Len(visits)
           new == [id |-> id, cancelled |-> FALSE, step |-> "asking", reply |-> None]
<1>1. /\ n < MaxVisits /\ route' = id /\ visits' = Append(CleanedUp, new)
      /\ UNCHANGED <<server, shownRun, pollError, lost>>
  BY DEF Visit, CurrentVisit
<1>2. new \in Visits /\ n \in Nat /\ id # None
  BY RunPageAssumption DEF Visits, RunPageIInv
<1>3. /\ visits' \in Seq(Visits) /\ Len(visits') = n + 1 /\ DOMAIN visits' = 1..(n + 1)
      /\ visits'[n + 1] = new /\ \A v \in DOMAIN visits : visits'[v] = CleanedUp[v]
      /\ DOMAIN visits = 1..n
  BY <1>1, <1>2, CleanUp DEF RunPageIInv
<1>4. /\ new.id = id /\ new.step = "asking" /\ new.cancelled = FALSE /\ new.reply = None
  OBVIOUS
<1> HIDE DEF new
<1>5. \A v \in DOMAIN visits : v < n + 1 /\ v # n + 1
  BY <1>2, <1>3
<1>6. RunPageTypeOK'
  <2>1. \A v \in DOMAIN visits :
          /\ visits'[v].id \in Ids /\ visits'[v].cancelled
          /\ visits'[v].step \in {"asking", "answered", "armed", "ended"}
          /\ IF visits'[v].step = "answered" THEN visits'[v].reply \in RunStates ELSE visits'[v].reply = None
    BY <1>3, CleanUp DEF RunPageIInv, RunPageTypeOK
  <2>2. \A v \in DOMAIN visits' : v = n + 1 \/ v \in DOMAIN visits
    BY <1>2, <1>3
  <2>3. n + 1 <= MaxVisits
    BY <1>1, <1>2, RunPageAssumption
  <2> QED
    BY <1>1, <1>2, <1>3, <1>4, <1>5, <2>1, <2>2, <2>3 DEF RunPageIInv, RunPageTypeOK, CurrentVisit
<1>7. TheRouteIsShownOnceHeard'
  BY <1>1, <1>3, <1>4 DEF TheRouteIsShownOnceHeard, CurrentVisit
<1>8. \A v \in DOMAIN visits' : HasAnswered(v)' =>
        v \in DOMAIN visits /\ HasAnswered(v) /\ visits'[v].id = visits[v].id
          /\ visits'[v].reply = visits[v].reply /\ visits'[v].cancelled
  <2>1. \A v \in DOMAIN visits' : v = n + 1 \/ v \in DOMAIN visits
    BY <1>2, <1>3
  <2> QED
    BY <1>3, <1>4, <2>1, CleanUp DEF HasAnswered
<1>9. visits' # << >> /\ visits'[CurrentVisit'].id = route'
  BY <1>1, <1>2, <1>3, <1>4 DEF CurrentVisit
<1> QED
  BY <1>1, <1>3, <1>6, <1>7, <1>8, <1>9 DEF RunPageIInv

LEMMA LeaveStep == ASSUME RunPageIInv, Leave PROVE RunPageIInv'
<1>1. /\ route' = None /\ visits' = CleanedUp /\ shownRun' = NoRun /\ pollError' = 0
      /\ UNCHANGED <<server, lost>>
  BY DEF Leave
<1>2. RunPageTypeOK'
  BY <1>1, CleanUp DEF RunPageIInv, RunPageTypeOK, CurrentVisit
<1>3. TheRouteIsShownOnceHeard'
  BY <1>1 DEF TheRouteIsShownOnceHeard
<1>4. \A v \in DOMAIN visits' : HasAnswered(v)' =>
        v \in DOMAIN visits /\ HasAnswered(v) /\ visits'[v].id = visits[v].id
          /\ visits'[v].reply = visits[v].reply /\ visits'[v].cancelled
  BY <1>1, CleanUp DEF HasAnswered
<1> QED
  BY <1>1, <1>2, <1>3, <1>4, CleanUp DEF RunPageIInv, NoRun

LEMMA ServeStep ==
  ASSUME RunPageIInv, NEW v \in DOMAIN visits, Serve(v) PROVE RunPageIInv'
<1>1. /\ visits[v].step = "asking" /\ visits' = [visits EXCEPT ![v].step = "answered", ![v].reply = server[visits[v].id]]
      /\ UNCHANGED <<server, route, shownRun, pollError, lost>>
  BY DEF Serve
<1>2. visits[v].id \in Ids /\ server[visits[v].id] \in RunStates
  BY DEF RunPageIInv, RunPageTypeOK
<1>3. /\ visits' \in Seq(Visits) /\ Len(visits') = Len(visits) /\ DOMAIN visits' = DOMAIN visits
      /\ \A w \in DOMAIN visits :
           /\ visits'[w].id = visits[w].id /\ visits'[w].cancelled = visits[w].cancelled
           /\ w # v => visits'[w] = visits[w]
      /\ visits'[v].step = "answered" /\ visits'[v].reply = server[visits[v].id]
  BY <1>1, <1>2, GoesOn
<1>4. RunPageTypeOK'
  BY <1>1, <1>2, <1>3 DEF RunPageIInv, RunPageTypeOK, CurrentVisit
<1>5. route # None => visits # << >> /\ CurrentVisit \in DOMAIN visits
  BY DEF RunPageIInv, CurrentVisit
<1>6. TheRouteIsShownOnceHeard'
  BY <1>1, <1>3, <1>5 DEF RunPageIInv, TheRouteIsShownOnceHeard, CurrentVisit
<1>7. \A w \in DOMAIN visits' : HasAnswered(w)' =>
        /\ Precedes(visits'[w].reply, server'[visits'[w].id])
        /\ ~visits'[w].cancelled /\ visits'[w].id = shownRun'.id
             => Precedes(shownRun'.state, visits'[w].reply)
  <2> SUFFICES ASSUME NEW w \in DOMAIN visits, HasAnswered(w)'
               PROVE  /\ Precedes(visits'[w].reply, server'[visits'[w].id])
                      /\ ~visits'[w].cancelled /\ visits'[w].id = shownRun'.id
                           => Precedes(shownRun'.state, visits'[w].reply)
    BY <1>3
  <2>1. CASE w = v
    <3>1. visits[v].id = shownRun.id => Precedes(shownRun.state, server[visits[v].id])
      BY <1>2, RunPageAssumption DEF RunPageIInv
    <3>2. Precedes(server[visits[v].id], server[visits[v].id])
      BY DEF Precedes
    <3> QED
      BY <1>1, <1>3, <2>1, <3>1, <3>2
  <2>2. CASE w # v
    BY <1>1, <1>3, <2>2 DEF RunPageIInv, HasAnswered
  <2> QED
    BY <2>1, <2>2
<1>8. route' # None => visits' # << >> /\ visits'[CurrentVisit'].id = route'
  BY <1>1, <1>3, <1>5 DEF RunPageIInv, CurrentVisit
<1> QED
  BY <1>1, <1>3, <1>4, <1>6, <1>7, <1>8 DEF RunPageIInv

(* A visit that has ended, or asks again: it has no answer any more. *)
LEMMA NoLongerAnswered ==
  ASSUME RunPageIInv, NEW v \in DOMAIN visits, NEW step \in {"asking", "armed", "ended"},
         visits' = [visits EXCEPT ![v].step = step, ![v].reply = None],
         server' = server, route' = route, pollError' \in 0..CurrentVisit, lost' \in 0..MaxLost,
         \/ shownRun' = shownRun
         \/ /\ HasAnswered(v) /\ ~visits[v].cancelled
            /\ shownRun' = [id |-> visits[v].id, state |-> visits[v].reply],
         TheRouteIsShownOnceHeard'
  PROVE  RunPageIInv'
<1>1. /\ visits' \in Seq(Visits) /\ Len(visits') = Len(visits) /\ DOMAIN visits' = DOMAIN visits
      /\ \A w \in DOMAIN visits :
           /\ visits'[w].id = visits[w].id /\ visits'[w].cancelled = visits[w].cancelled
           /\ w # v => visits'[w] = visits[w]
      /\ visits'[v].step = step /\ visits'[v].reply = None
  <2>1. step \in {"asking", "answered", "armed", "ended"} /\ None \in RunStates \union {None}
    OBVIOUS
  <2>2. v \in DOMAIN visits /\ visits' = [visits EXCEPT ![v].step = step, ![v].reply = None]
    OBVIOUS
  <2> QED
    BY <2>1, <2>2, GoesOn, Zenon
<1>2. \A w \in DOMAIN visits : HasAnswered(w)' =>
        w # v /\ HasAnswered(w) /\ visits'[w] = visits[w]
  BY <1>1 DEF HasAnswered
<1>3. HasAnswered(v) => visits[v].id \in Ids /\ visits[v].reply \in RunStates
  BY DEF RunPageIInv, RunPageTypeOK, HasAnswered
<1>4. RunPageTypeOK'
  <2>1. shownRun' = NoRun \/ shownRun' \in [id : Ids, state : RunStates]
    BY <1>3 DEF RunPageIInv, RunPageTypeOK
  <2> QED
    BY <1>1, <2>1 DEF RunPageIInv, RunPageTypeOK, CurrentVisit, HasAnswered
<1>5. route' # None => visits' # << >> /\ visits'[CurrentVisit'].id = route'
  <2>1. route # None => visits # << >> /\ CurrentVisit \in DOMAIN visits
    BY DEF RunPageIInv, CurrentVisit
  <2> QED
    BY <1>1, <2>1 DEF RunPageIInv, CurrentVisit
<1>6. CASE shownRun' = shownRun
  BY <1>1, <1>2, <1>4, <1>5, <1>6 DEF RunPageIInv
<1>7. CASE /\ HasAnswered(v) /\ ~visits[v].cancelled
           /\ shownRun' = [id |-> visits[v].id, state |-> visits[v].reply]
  <2>1. Precedes(shownRun'.state, server'[shownRun'.id])
    BY <1>7 DEF RunPageIInv
  <2>2. \A w \in DOMAIN visits : w # v => visits[w].cancelled
    BY <1>7 DEF RunPageIInv, RunPageTypeOK, CurrentVisit
  <2> QED
    BY <1>1, <1>2, <1>4, <1>5, <2>1, <2>2 DEF RunPageIInv
<1> QED
  BY <1>6, <1>7

(* The visit that is on, and no other, is not cancelled. *)
LEMMA OneIsOn ==
  ASSUME RunPageIInv
  PROVE  /\ \A v \in DOMAIN visits : ~visits[v].cancelled => route # None /\ v = CurrentVisit
         /\ route # None => /\ CurrentVisit \in DOMAIN visits /\ visits[CurrentVisit].id = route
                            /\ ~visits[CurrentVisit].cancelled
BY DEF RunPageIInv, RunPageTypeOK, CurrentVisit

LEMMA FailPollStep ==
  ASSUME RunPageIInv, NEW v \in DOMAIN visits, FailPoll(v) PROVE RunPageIInv'
<1>1. /\ lost' = lost + 1 /\ lost < MaxLost /\ visits' = [visits EXCEPT ![v].step = "ended", ![v].reply = None]
      /\ UNCHANGED <<server, route, shownRun>>
      /\ pollError' = IF visits[v].cancelled THEN pollError ELSE v
  BY DEF FailPoll
<1>2. lost' \in 0..MaxLost
  BY <1>1, RunPageAssumption DEF RunPageIInv, RunPageTypeOK
<1>3. Len(visits') = Len(visits) /\ \A w \in DOMAIN visits : w # v => visits'[w] = visits[w]
  BY <1>1, GoesOn
<1>4. TheRouteIsShownOnceHeard'
  <2>1. CASE visits[v].cancelled
    <3>1. route # None => visits'[CurrentVisit'] = visits[CurrentVisit]
      BY <1>3, <2>1, OneIsOn DEF CurrentVisit
    <3> QED
      BY <1>1, <1>3, <2>1, <3>1 DEF RunPageIInv, TheRouteIsShownOnceHeard, CurrentVisit
  <2>2. CASE ~visits[v].cancelled
    <3>1. pollError' = v /\ v = CurrentVisit' /\ visits'[v].step = "ended"
      BY <1>1, <1>3, <2>2, OneIsOn, GoesOn DEF CurrentVisit
    <3> QED
      BY <3>1 DEF TheRouteIsShownOnceHeard
  <2> QED
    BY <2>1, <2>2
<1>5. pollError' \in 0..CurrentVisit
  <2>1. pollError \in 0..CurrentVisit /\ v \in 1..CurrentVisit /\ CurrentVisit \in Nat
    BY DEF RunPageIInv, RunPageTypeOK, CurrentVisit
  <2> QED
    BY <1>1, <2>1
<1> QED
  BY <1>1, <1>2, <1>4, <1>5, NoLongerAnswered

LEMMA ShowStep ==
  ASSUME RunPageIInv, NEW v \in DOMAIN visits, Show(v) PROVE RunPageIInv'
<1>1. pollError \in 0..CurrentVisit /\ lost \in 0..MaxLost
  BY DEF RunPageIInv, RunPageTypeOK
<1>2. CASE visits[v].cancelled
  <2>1. /\ visits' = [visits EXCEPT ![v].step = "ended", ![v].reply = None]
        /\ UNCHANGED <<server, route, shownRun, pollError, lost>>
    BY <1>2 DEF Show
  <2>2. Len(visits') = Len(visits) /\ \A w \in DOMAIN visits : w # v => visits'[w] = visits[w]
    BY <2>1, GoesOn
  <2>3. TheRouteIsShownOnceHeard'
    BY <1>2, <2>1, <2>2, OneIsOn DEF RunPageIInv, TheRouteIsShownOnceHeard, CurrentVisit
  <2> QED
    BY <1>1, <2>1, <2>3, NoLongerAnswered
<1>3. CASE ~visits[v].cancelled
  <2> DEFINE step == IF PollsOn(visits[v].reply) THEN "armed" ELSE "ended"
  <2>1. /\ HasAnswered(v) /\ shownRun' = [id |-> visits[v].id, state |-> visits[v].reply] /\ pollError' = 0
        /\ visits' = [visits EXCEPT ![v].step = step, ![v].reply = None]
        /\ UNCHANGED <<server, route, lost>>
    BY <1>3 DEF Show, Accept
  <2>2. /\ step \in {"armed", "ended"}
        /\ step = "armed" <=> Live(visits[v].reply)
    BY DEF PollsOn
  <2> HIDE DEF step
  <2>3. Len(visits') = Len(visits) /\ visits'[v].step = step
    BY <2>1, <2>2, GoesOn
  <2>4. TheRouteIsShownOnceHeard'
    BY <1>3, <2>1, <2>2, <2>3, OneIsOn DEF TheRouteIsShownOnceHeard, CurrentVisit
  <2>5. pollError' \in 0..CurrentVisit
    BY <1>1, <2>1 DEF CurrentVisit
  <2> QED
    BY <1>1, <1>3, <2>1, <2>2, <2>4, <2>5, NoLongerAnswered
<1> QED
  BY <1>2, <1>3

LEMMA TimerStep ==
  ASSUME RunPageIInv, NEW v \in DOMAIN visits, TimerFires(v) PROVE RunPageIInv'
<1>1. visits[v].step = "armed" /\ UNCHANGED <<server, route, shownRun, pollError, lost>>
  BY DEF TimerFires
<1>2. visits[v].reply = None /\ visits[v] \in Visits /\ pollError \in 0..CurrentVisit /\ lost \in 0..MaxLost
  BY <1>1 DEF RunPageIInv, RunPageTypeOK
<1>3. visits' = [visits EXCEPT ![v].step = "asking", ![v].reply = None]
  <2>1. [visits[v] EXCEPT !.step = "asking"] = [visits[v] EXCEPT !.step = "asking", !.reply = None]
    BY <1>2 DEF Visits
  <2> QED
    BY <2>1 DEF TimerFires
<1>4. /\ Len(visits') = Len(visits) /\ visits'[v].step = "asking"
      /\ \A w \in DOMAIN visits : w # v => visits'[w] = visits[w]
  BY <1>3, GoesOn
<1>5. TheRouteIsShownOnceHeard'
  BY <1>1, <1>4, OneIsOn DEF RunPageIInv, TheRouteIsShownOnceHeard, CurrentVisit
<1> QED
  BY <1>1, <1>2, <1>3, <1>5, NoLongerAnswered

LEMMA RunPageStep == RunPageIInv /\ [RunPageNext]_runPageVars => RunPageIInv'
<1> SUFFICES ASSUME RunPageIInv, [RunPageNext]_runPageVars PROVE RunPageIInv'
  OBVIOUS
<1>1. CASE UNCHANGED runPageVars
  BY <1>1 DEF runPageVars, RunPageIInv, RunPageTypeOK, TheRouteIsShownOnceHeard, HasAnswered, CurrentVisit
<1>2. CASE RunPageNext
  BY <1>2, ServerStep, VisitStep, LeaveStep, ServeStep, FailPollStep, ShowStep, TimerStep DEF RunPageNext
<1> QED
  BY <1>1, <1>2

(* What the page shows changes by an answer to the visit that is on, or    *)
(* when it is left.                                                        *)
LEMMA ShownMovesForward ==
  ASSUME RunPageIInv, [RunPageNext]_runPageVars
  PROVE  /\ shownRun' # shownRun /\ route' # None => shownRun'.id = route'
         /\ shownRun'.id = shownRun.id => Precedes(shownRun.state, shownRun'.state)
<1>1. \/ shownRun' = shownRun
      \/ route' = None /\ shownRun' = NoRun
      \/ /\ route' = route
         /\ \E v \in DOMAIN visits :
              /\ HasAnswered(v) /\ ~visits[v].cancelled
              /\ shownRun' = [id |-> visits[v].id, state |-> visits[v].reply]
  BY DEF RunPageNext, runPageVars, Claim, Requeue, Settle, Becomes, Visit, Leave, Serve, FailPoll, Show, Accept, TimerFires
<1>2. CASE route' = None /\ shownRun' = NoRun
  BY <1>2, RunPageAssumption DEF NoRun, RunPageIInv, RunPageTypeOK, Precedes
<1>3. ASSUME NEW v \in DOMAIN visits, route' = route, HasAnswered(v), ~visits[v].cancelled,
             shownRun' = [id |-> visits[v].id, state |-> visits[v].reply]
      PROVE  /\ shownRun'.id = route'
             /\ shownRun'.id = shownRun.id => Precedes(shownRun.state, shownRun'.state)
  BY <1>3, OneIsOn DEF RunPageIInv
<1> QED
  BY <1>1, <1>2, <1>3 DEF Precedes

LEMMA RunPageShows ==
  RunPageSpec => [](RunPageTypeOK /\ TheRouteIsShownOnceHeard) /\ OnlyTheRouteIsShown /\ ShownStateAdvances
<1>1. RunPageIInv => RunPageTypeOK /\ TheRouteIsShownOnceHeard
  BY DEF RunPageIInv
<1>2. RunPageIInv /\ [RunPageNext]_runPageVars =>
        /\ [shownRun' # shownRun /\ route' # None => shownRun'.id = route']_runPageVars
        /\ [shownRun'.id = shownRun.id => Precedes(shownRun.state, shownRun'.state)]_runPageVars
  BY ShownMovesForward
<1> QED
  BY <1>1, <1>2, RunPageInitial, RunPageStep, PTL
     DEF RunPageSpec, OnlyTheRouteIsShown, ShownStateAdvances
-----------------------------------------------------------------------------
(* The comparison page. *)

PageRequests == [route : Routes, cancelled : BOOLEAN, open : BOOLEAN]

(* Outside of a navigation the reducer is at the route.  At most one       *)
(* request is not cancelled, and while its answer is on its way the page   *)
(* is loading for its route.                                               *)
ComparisonPageIInv ==
  /\ ComparisonPageTypeOK
  /\ requests \in Seq(PageRequests)
  /\ ~effectPending => comparisonState.route = comparisonRoute
  /\ \A k, l \in DOMAIN requests :
       ~requests[k].cancelled /\ ~requests[l].cancelled => k = l
  /\ \A k \in DOMAIN requests :
       requests[k].open /\ ~requests[k].cancelled =>
         comparisonState = RouteChanged(requests[k].route)

LEMMA ComparisonPageInitial == ComparisonPageInit => ComparisonPageIInv
<1> SUFFICES ASSUME ComparisonPageInit PROVE ComparisonPageIInv
  OBVIOUS
<1>1. DOMAIN requests = {} /\ requests \in Seq(PageRequests)
  BY DEF ComparisonPageInit
<1> QED
  BY <1>1 DEF ComparisonPageInit, ComparisonPageIInv, ComparisonPageTypeOK, For

LEMMA EffectStep == ASSUME ComparisonPageIInv, RunEffect PROVE ComparisonPageIInv'
<1> DEFINE old == Cancelled(requests)
           new == [route |-> comparisonRoute, cancelled |-> FALSE, open |-> TRUE]
<1>1. requests \in Seq(PageRequests) /\ Len(requests) \in Nat /\ DOMAIN requests = 1..Len(requests)
  BY DEF ComparisonPageIInv
<1>2. ASSUME NEW k \in DOMAIN requests
      PROVE  /\ [requests[k] EXCEPT !.cancelled = TRUE] \in PageRequests
             /\ [requests[k] EXCEPT !.cancelled = TRUE].cancelled = TRUE
  <2>1. requests[k] \in PageRequests
    BY <1>1
  <2> QED
    BY <2>1 DEF PageRequests
<1>3. old \in [1..Len(requests) -> PageRequests]
  BY <1>1, <1>2 DEF Cancelled
<1>4. old \in Seq(PageRequests) /\ Len(old) = Len(requests) /\ DOMAIN old = 1..Len(requests)
  BY <1>1, <1>3
<1>5. \A k \in DOMAIN old : old[k].cancelled = TRUE
  BY <1>1, <1>2 DEF Cancelled
<1>6. /\ effectPending' = FALSE /\ comparisonRoute' = comparisonRoute
      /\ comparisonState' = RouteChanged(comparisonRoute)
      /\ requests' = IF comparisonRoute = None THEN old ELSE Append(old, new)
      /\ comparisonRoute \in Routes \union {None}
  BY DEF RunEffect, ComparisonPageIInv, ComparisonPageTypeOK
<1>7. RouteChanged(comparisonRoute).route = comparisonRoute
  BY DEF RouteChanged, For
<1>8. ComparisonPageTypeOK'
  BY <1>6 DEF ComparisonPageTypeOK, RouteChanged, For
<1> HIDE DEF old
<1>9. CASE comparisonRoute = None
  BY <1>4, <1>5, <1>6, <1>7, <1>8, <1>9 DEF ComparisonPageIInv
<1>10. CASE comparisonRoute # None
  <2>1. new \in PageRequests /\ new.route = comparisonRoute /\ new.cancelled = FALSE
    BY <1>6, <1>10 DEF PageRequests
  <2> HIDE DEF new
  <2>2. /\ requests' \in Seq(PageRequests) /\ DOMAIN requests' = 1..(Len(old) + 1)
        /\ requests'[Len(old) + 1] = new /\ \A k \in 1..Len(old) : requests'[k] = old[k]
    BY <1>1, <1>4, <1>6, <1>10, <2>1
  <2>3. \A k \in DOMAIN requests' : ~requests'[k].cancelled => k = Len(old) + 1
    BY <1>1, <1>4, <1>5, <2>2
  <2> QED
    BY <1>6, <1>7, <1>8, <2>1, <2>2, <2>3 DEF ComparisonPageIInv
<1> QED
  BY <1>9, <1>10

LEMMA AnswerStep ==
  ASSUME ComparisonPageIInv, NEW k \in DOMAIN requests, AnswerRequest(k) PROVE ComparisonPageIInv'
<1> DEFINE new == [requests[k] EXCEPT !.open = FALSE]
<1>1. /\ requests \in Seq(PageRequests) /\ DOMAIN requests = 1..Len(requests) /\ requests[k] \in PageRequests
      /\ k \in 1..Len(requests)
  BY DEF ComparisonPageIInv
<1>2. /\ new \in PageRequests /\ new.route = requests[k].route /\ new.cancelled = requests[k].cancelled
      /\ new.open = FALSE
  BY <1>1 DEF PageRequests
<1>3. /\ requests[k].open /\ requests' = [requests EXCEPT ![k] = new]
      /\ UNCHANGED <<comparisonRoute, effectPending>>
  BY <1>1 DEF AnswerRequest, PageRequests
<1> HIDE DEF new
<1>4. requests' \in Seq(PageRequests) /\ DOMAIN requests' = DOMAIN requests
  <2>1. [requests EXCEPT ![k] = new] \in Seq(PageRequests)
    BY <1>1, <1>2, ExceptSeq
  <2> QED
    BY <1>3, <2>1
<1>5. \A l \in DOMAIN requests :
        /\ requests'[l].cancelled = requests[l].cancelled
        /\ l # k => requests'[l] = requests[l]
        /\ requests'[l].open => l # k
  BY <1>1, <1>2, <1>3
<1>6. CASE requests[k].cancelled
  <2>1. comparisonState' = comparisonState
    BY <1>6 DEF AnswerRequest
  <2> QED
    BY <1>3, <1>4, <1>5, <2>1 DEF ComparisonPageIInv, ComparisonPageTypeOK
<1>7. CASE ~requests[k].cancelled
  <2> DEFINE r == requests[k].route
  <2>1. r \in Routes /\ r # None
    BY <1>1, ComparisonPageAssumption DEF PageRequests
  <2>2. comparisonState = RouteChanged(r) /\ comparisonState.route = r
    BY <1>3, <1>7, <2>1 DEF ComparisonPageIInv, RouteChanged, For
  <2>3. comparisonState' \in {For(r, r, FALSE, FALSE), For(r, None, TRUE, FALSE)}
    BY <1>7, <2>2 DEF AnswerRequest, FetchSuccess, FetchError
  <2>4. ComparisonPageTypeOK' /\ comparisonState'.route = r
    BY <1>3, <2>1, <2>3 DEF ComparisonPageIInv, ComparisonPageTypeOK, For
  <2>5. \A l \in DOMAIN requests : ~(requests'[l].open /\ ~requests'[l].cancelled)
    BY <1>5, <1>7 DEF ComparisonPageIInv
  <2> QED
    BY <1>3, <1>4, <1>5, <2>2, <2>4, <2>5 DEF ComparisonPageIInv
<1> QED
  BY <1>6, <1>7

LEMMA ComparisonPageStep ==
  ComparisonPageIInv /\ [ComparisonPageNext]_comparisonPageVars => ComparisonPageIInv'
<1> SUFFICES ASSUME ComparisonPageIInv, [ComparisonPageNext]_comparisonPageVars
             PROVE  ComparisonPageIInv'
  OBVIOUS
<1>1. ASSUME NEW r \in Routes \union {None}, Navigate(r) PROVE ComparisonPageIInv'
  BY <1>1 DEF Navigate, ComparisonPageIInv, ComparisonPageTypeOK
<1>2. CASE UNCHANGED comparisonPageVars
  BY <1>2 DEF comparisonPageVars, ComparisonPageIInv, ComparisonPageTypeOK
<1> QED
  BY <1>1, <1>2, EffectStep, AnswerStep DEF ComparisonPageNext

(* An answer that changes a page finds it loading. *)
LEMMA PageIsKept ==
  ASSUME ComparisonPageIInv, [ComparisonPageNext]_comparisonPageVars,
         comparisonRoute' = comparisonRoute, ~effectPending, ~Page.loading
  PROVE  Page' = Page
<1>1. Page = comparisonState
  BY DEF ComparisonPageIInv, Page, Shown
<1>2. comparisonState' = comparisonState
  <2>1. ASSUME NEW k \in DOMAIN requests, AnswerRequest(k), ~requests[k].cancelled PROVE FALSE
    <3>1. requests[k] \in PageRequests
      BY DEF ComparisonPageIInv
    <3>2. requests[k].route # None
      BY <3>1, ComparisonPageAssumption DEF PageRequests
    <3> QED
      BY <1>1, <2>1, <3>2 DEF AnswerRequest, ComparisonPageIInv, RouteChanged, For
  <2>2. ASSUME NEW k \in DOMAIN requests, AnswerRequest(k), requests[k].cancelled
        PROVE  comparisonState' = comparisonState
    BY <2>2 DEF AnswerRequest
  <2> QED
    BY <2>1, <2>2 DEF ComparisonPageNext, Navigate, RunEffect, comparisonPageVars
<1> QED
  BY <1>1, <1>2 DEF ComparisonPageIInv, Page, Shown

LEMMA ComparisonPageShows ==
  ComparisonPageSpec => [](ComparisonPageTypeOK /\ ComparisonIsOfTheRoute) /\ ShownIsKept
<1>1. ComparisonPageIInv => ComparisonPageTypeOK /\ ComparisonIsOfTheRoute
  BY DEF ComparisonPageIInv, ComparisonPageTypeOK, ComparisonIsOfTheRoute, Page, Shown, RouteChanged, For
<1>2. ComparisonPageIInv /\ [ComparisonPageNext]_comparisonPageVars =>
        [comparisonRoute' = comparisonRoute /\ ~effectPending /\ ~Page.loading => Page' = Page]_comparisonPageVars
  BY PageIsKept
<1> QED
  BY <1>1, <1>2, ComparisonPageInitial, ComparisonPageStep, PTL DEF ComparisonPageSpec, ShownIsKept

-----------------------------------------------------------------------------
(* The evidence page. *)

(* An upload of the present generation is that of the selection, and the   *)
(* page shows nothing beside it; a result is of an archive that could be   *)
(* uploaded, so no error about the selection can join it.                  *)
EvidencePageIInv ==
  /\ EvidencePageTypeOK /\ ResultIsOfTheSelection /\ VerifyingTheSelection
  /\ bundleResult \notin Large
  /\ \A u \in uploads : u.generation = generation =>
       u.archive = archive /\ verifying = TRUE /\ bundleResult = None /\ bundleError = FALSE

LEMMA EvidencePageInitial == EvidencePageInit => EvidencePageIInv
<1> SUFFICES ASSUME EvidencePageInit PROVE EvidencePageIInv
  OBVIOUS
<1>1. EvidencePageTypeOK
  <2>1. generation \in 0..MaxGeneration
    BY EvidencePageAssumption DEF EvidencePageInit
  <2> QED
    BY <2>1 DEF EvidencePageInit, EvidencePageTypeOK
<1>2. bundleResult \notin Large
  BY EvidencePageAssumption DEF EvidencePageInit
<1> QED
  BY <1>1, <1>2 DEF EvidencePageInit, EvidencePageIInv, ResultIsOfTheSelection, VerifyingTheSelection

LEMMA SelectStep ==
  ASSUME EvidencePageIInv, NEW file \in Archives \union {None}, SelectArchive(file)
  PROVE  EvidencePageIInv'
<1>1. /\ archive' = file /\ generation' = generation + 1 /\ bundleResult' = None
      /\ bundleError' = FALSE /\ verifying' = FALSE /\ uploads' = uploads
      /\ generation < MaxGeneration
  BY DEF SelectArchive, Chosen
<1>2. \A u \in uploads : u.generation < generation + 1 /\ u.generation # generation + 1
  BY DEF EvidencePageIInv, EvidencePageTypeOK, Uploads
<1>3. EvidencePageTypeOK'
  <2>1. generation' \in 0..MaxGeneration /\ \A u \in uploads : u.generation <= generation + 1
    BY <1>1, <1>2, EvidencePageAssumption DEF EvidencePageIInv, EvidencePageTypeOK, Uploads
  <2> QED
    BY <1>1, <2>1 DEF EvidencePageIInv, EvidencePageTypeOK
<1>4. bundleResult' \notin Large
  BY <1>1, EvidencePageAssumption
<1> QED
  BY <1>1, <1>2, <1>3, <1>4 DEF EvidencePageIInv, ResultIsOfTheSelection, VerifyingTheSelection

LEMMA StartStep == ASSUME EvidencePageIInv, StartVerification PROVE EvidencePageIInv'
<1> DEFINE new == [generation |-> generation + 1, archive |-> archive]
<1>1. /\ archive' = archive /\ generation' = generation + 1 /\ bundleResult' = None
      /\ bundleError' = FALSE /\ verifying' = TRUE /\ uploads' = uploads \union {new}
      /\ archive # None /\ archive \notin Large /\ generation < MaxGeneration
  BY DEF StartVerification, Uploadable
<1>2. \A u \in uploads : u.generation < generation + 1 /\ u.generation # generation + 1
  BY DEF EvidencePageIInv, EvidencePageTypeOK, Uploads
<1>3. new \in Uploads /\ new.generation = generation + 1 /\ new.archive = archive
  BY <1>1, EvidencePageAssumption DEF EvidencePageIInv, EvidencePageTypeOK, Uploads
<1> HIDE DEF new
<1>4. EvidencePageTypeOK'
  <2>1. /\ generation' \in 0..MaxGeneration /\ generation + 1 <= generation'
        /\ \A u \in uploads : u.generation <= generation'
    BY <1>1, <1>2, EvidencePageAssumption DEF EvidencePageIInv, EvidencePageTypeOK, Uploads
  <2>2. /\ uploads' \subseteq Uploads
        /\ \A u \in uploads' : u.generation <= generation' /\ u.archive \notin Large
    BY <1>1, <1>3, <2>1 DEF EvidencePageIInv, EvidencePageTypeOK
  <2>3. \A u, v \in uploads' : u.generation = v.generation => u = v
    BY <1>1, <1>2, <1>3 DEF EvidencePageIInv, EvidencePageTypeOK
  <2> QED
    BY <1>1, <2>1, <2>2, <2>3 DEF EvidencePageIInv, EvidencePageTypeOK
<1>5. bundleResult' \notin Large
  BY <1>1, EvidencePageAssumption
<1>6. VerifyingTheSelection'
  BY <1>1 DEF VerifyingTheSelection, new
<1> QED
  BY <1>1, <1>2, <1>3, <1>4, <1>5, <1>6 DEF EvidencePageIInv, ResultIsOfTheSelection

LEMMA ErrorStep == ASSUME EvidencePageIInv, SetError PROVE EvidencePageIInv'
<1>1. /\ verifying = FALSE /\ bundleError' = TRUE /\ verifying' = FALSE
      /\ UNCHANGED <<archive, bundleResult, generation, uploads>>
  BY DEF SetError, EvidencePageIInv, EvidencePageTypeOK
<1>2. bundleResult = None
  BY DEF SetError, Uploadable, EvidencePageIInv, ResultIsOfTheSelection
<1> QED
  BY <1>1, <1>2 DEF EvidencePageIInv, EvidencePageTypeOK, ResultIsOfTheSelection, VerifyingTheSelection

(* An upload that is over: told if it is of the present generation. *)
LEMMA UploadOver ==
  ASSUME EvidencePageIInv, NEW u \in uploads, VerificationSuccess(u) \/ VerificationError(u)
  PROVE  EvidencePageIInv'
<1>1. uploads' = uploads \ {u} /\ archive' = archive /\ generation' = generation
  BY DEF VerificationSuccess, VerificationError
<1>2. \A v \in uploads : v.generation = u.generation => v = u
  BY DEF EvidencePageIInv, EvidencePageTypeOK
<1>3. CASE u.generation = generation
  <2>1. u.archive = archive /\ u.archive \in Archives /\ u.archive \notin Large
        /\ bundleResult = None /\ bundleError = FALSE
    BY <1>3 DEF EvidencePageIInv, EvidencePageTypeOK, Uploads
  <2>2. /\ verifying' = FALSE
        /\ \/ bundleResult' = archive /\ bundleError' = FALSE
           \/ bundleResult' = None /\ bundleError' = TRUE
    BY <1>3, <2>1 DEF VerificationSuccess, VerificationError, Told
  <2>3. \A v \in uploads' : v.generation # generation
    BY <1>1, <1>2, <1>3
  <2>4. EvidencePageTypeOK'
    BY <1>1, <2>1, <2>2 DEF EvidencePageIInv, EvidencePageTypeOK
  <2>5. bundleResult' \notin Large
    BY <2>1, <2>2 DEF EvidencePageIInv
  <2> QED
    BY <1>1, <2>2, <2>3, <2>4, <2>5 DEF EvidencePageIInv, ResultIsOfTheSelection, VerifyingTheSelection
<1>4. CASE u.generation # generation
  <2>1. UNCHANGED <<bundleResult, bundleError, verifying>>
    BY <1>4 DEF VerificationSuccess, VerificationError, Told
  <2>2. EvidencePageTypeOK'
    BY <1>1, <2>1 DEF EvidencePageIInv, EvidencePageTypeOK
  <2>3. VerifyingTheSelection'
    <3>1. [generation |-> generation, archive |-> archive] # u
      BY <1>4
    <3> QED
      BY <1>1, <2>1, <3>1 DEF EvidencePageIInv, VerifyingTheSelection
  <2> QED
    BY <1>1, <2>1, <2>2, <2>3 DEF EvidencePageIInv, ResultIsOfTheSelection
<1> QED
  BY <1>3, <1>4

LEMMA EvidencePageStep ==
  EvidencePageIInv /\ [EvidencePageNext]_evidencePageVars => EvidencePageIInv'
<1> SUFFICES ASSUME EvidencePageIInv, [EvidencePageNext]_evidencePageVars
             PROVE  EvidencePageIInv'
  OBVIOUS
<1>1. CASE UNCHANGED evidencePageVars
  BY <1>1 DEF evidencePageVars, evidenceState, EvidencePageIInv, EvidencePageTypeOK,
              ResultIsOfTheSelection, VerifyingTheSelection
<1>2. CASE EvidencePageNext
  BY <1>2, SelectStep, StartStep, ErrorStep, UploadOver DEF EvidencePageNext
<1> QED
  BY <1>1, <1>2

LEMMA EvidencePageShows ==
  EvidencePageSpec => [](EvidencePageTypeOK /\ ResultIsOfTheSelection /\ VerifyingTheSelection)
<1>1. EvidencePageIInv => EvidencePageTypeOK /\ ResultIsOfTheSelection /\ VerifyingTheSelection
  BY DEF EvidencePageIInv
<1> QED
  BY <1>1, EvidencePageInitial, EvidencePageStep, PTL DEF EvidencePageSpec

-----------------------------------------------------------------------------
(* For any routes, archives and visits, and however late an answer comes:  *)
(* no page shows a comparison or a verification of another route or        *)
(* selection than its own, and the run page shows the run of its route, or *)
(* the error that has ended its loop, once a poll has come to something.   *)
THEOREM PagesAlwaysShowTheirOwn ==
  RunPageSpec /\ ComparisonPageSpec /\ EvidencePageSpec => []PagesShowTheirOwn
<1>1. TheRouteIsShownOnceHeard /\ ComparisonIsOfTheRoute /\ ResultIsOfTheSelection /\ VerifyingTheSelection
        => PagesShowTheirOwn
  BY DEF PagesShowTheirOwn
<1> QED
  BY <1>1, RunPageShows, ComparisonPageShows, EvidencePageShows, PTL

(* No late answer takes a page to another run than that of its route, back *)
(* in the history of the run it shows, however often the run was requeued, *)
(* or to another comparison than the one it shows.                         *)
THEOREM PagesAlwaysMoveForward ==
  RunPageSpec /\ ComparisonPageSpec => PagesOnlyMoveForward
BY RunPageShows, ComparisonPageShows DEF PagesOnlyMoveForward

(* Every variable of every part has its type, for any values of the bounds *)
(* and of the sets that TLC takes small ones for.                          *)
THEOREM PeripheryAlwaysTyped ==
  /\ RunPageSpec /\ ComparisonPageSpec /\ EvidencePageSpec
  /\ MigrationsSpec /\ InspectionSpec /\ ProcessSpec
  => []PeripheryTypeOK
<1>1. MigrationsIInv => MigrationsTypeOK
  BY DEF MigrationsIInv
<1>2. InspectionIInv => InspectionTypeOK
  BY DEF InspectionIInv
<1>3. ProcessIInv => ProcessTypeOK
  BY DEF ProcessIInv
<1>4. /\ RunPageTypeOK /\ ComparisonPageTypeOK /\ EvidencePageTypeOK
      /\ MigrationsTypeOK /\ InspectionTypeOK /\ ProcessTypeOK
      => PeripheryTypeOK
  BY DEF PeripheryTypeOK
<1>5. MigrationsSpec => []MigrationsTypeOK
  BY <1>1, MigrationsInitial, MigrationsStep, PTL DEF MigrationsSpec
<1>6. InspectionSpec => []InspectionTypeOK
  BY <1>2, InspectionInitial, InspectionStep, PTL DEF InspectionSpec
<1>7. ProcessSpec => []ProcessTypeOK
  BY <1>3, ProcessInitial, ProcessStep, PTL DEF ProcessSpec
<1> QED
  BY <1>4, <1>5, <1>6, <1>7, RunPageShows, ComparisonPageShows, EvidencePageShows, PTL
================================================================================
