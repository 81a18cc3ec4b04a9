------------------------------ MODULE Migrations ------------------------------
(***************************************************************************)
(* Two programs open the one database file: the production API, which      *)
(* opens it as a RunStore and then as a ReceiptStore, and the API of       *)
(* createReceiptApi(), which opens it as a ReceiptStore only.  Each store  *)
(* brings the schema up to date step by step; a step is one transaction    *)
(* (or one statement), preceded where the code does so by a look at the    *)
(* tables that is not part of it.                                          *)
(*                                                                         *)
(* The schema is the set of what the migration files create.  An older     *)
(* program ran these files statement by statement and recorded a version   *)
(* after its last statement, so the initial database is any prefix of that.*)
(***************************************************************************)
EXTENDS Schema, Integers, Sequences, SequencesExt

CONSTANTS
  ProductionApis, ReceiptApis,   \* the processes that open the file
  MaxCrashes                     \* crashes, and refusals because it is locked

Processes == ProductionApis \cup ReceiptApis

ASSUME MigrationsAssumption == MaxCrashes \in Nat

VARIABLES
  schema,     \* tables, columns and indices, and the backfill of version 6
  recorded,   \* schema_migrations
  position,   \* of each process in Startup; 0 is down
  looked,     \* the schema each process has seen before its transaction
  crashes

migrationsVars == <<schema, recorded, position, looked, crashes>>

(* What the statements of each migration file create, in their order. *)
Statements == <<
  <<"run_metadata", "normalized_checks", "signed_receipts", "raw_logs",
    "run_metadata_fifo_idx", "raw_logs_expiry_idx">>,
  <<"report_json", "system_error_code", "system_error_message",
    "system_error_retryable">>,
  <<"result_fingerprint">>,
  <<"verification_contract_json">>,
  <<"reproducibility_jobs", "reproducibility_jobs_children_idx">>,
  <<"raw_log_metadata", "raw_log_backfill",
    "signed_receipts_payload_hash_idx">> >>

Version == DOMAIN Statements
Objects(v) == ToSet(Statements[v])
Tables == {"run_metadata", "normalized_checks", "signed_receipts", "raw_logs"}

(* The steps of a start; what follows the last one is serving. *)
Startup == [i \in 1..12 |-> [store   |-> IF i <= 6 THEN "run" ELSE "receipt",
                             version |-> IF i <= 6 THEN i ELSE i - 6]]
Serving == Len(Startup) + 1
FirstStep(p) == IF p \in ProductionApis THEN 1 ELSE 7

At(p, v) == position[p] \in DOMAIN Startup /\ Startup[position[p]].version = v
Opening(p, store) == Startup[position[p]].store = store

(* An older program has been stopped within version v. *)
Interrupted(v, n) ==
  /\ schema = (UNION {Objects(w) : w \in 1..v - 1})
              \cup {Statements[v][i] : i \in 1..n}
  /\ recorded = 1..v - 1

MigrationsInit ==
  /\ \E v \in Version : \E n \in {0} \cup DOMAIN Statements[v] : Interrupted(v, n)
  /\ position = [p \in Processes |-> 0]
  /\ looked = [p \in Processes |-> None]
  /\ crashes = 0

-----------------------------------------------------------------------------
(* compose restarts what has exited. *)
Start(p) ==
  /\ position[p] = 0
  /\ position' = [position EXCEPT ![p] = FirstStep(p)]
  /\ UNCHANGED <<schema, recorded, looked, crashes>>

(* Fault: the next look at the tables is answered by an earlier one. *)
FaultyAdvance(p) ==
  /\ position' = [position EXCEPT ![p] = @ + 1]
  /\ UNCHANGED <<looked, crashes>>

Advance(p) ==
  /\ position' = [position EXCEPT ![p] = @ + 1]
  /\ looked' = [looked EXCEPT ![p] = None]
  /\ UNCHANGED crashes

(* The constructor throws, and nothing of the step stays. *)
Refuse(p) ==
  /\ position' = [position EXCEPT ![p] = 0]
  /\ looked' = [looked EXCEPT ![p] = None]
  /\ UNCHANGED <<schema, recorded, crashes>>

(* The tables, as they are before the transaction begins. *)
Look(p) ==
  /\ At(p, 1) \/ At(p, 5)
  /\ looked[p] = None
  /\ looked' = [looked EXCEPT ![p] = schema]
  /\ UNCHANGED <<schema, recorded, position, crashes>>

(* Executes the file of version v, which fails if any of it exists. *)
ExecuteFile(p, v) ==
  IF Objects(v) \cap schema # {}
  THEN Refuse(p)
  ELSE /\ schema' = schema \cup Objects(v)
       /\ recorded' = recorded \cup {v}
       /\ Advance(p)

Record(p, v) ==
  /\ recorded' = recorded \cup {v}
  /\ Advance(p)
  /\ UNCHANGED schema

(* Fault: the run store asks for run_metadata only. *)
FaultyRunStoreInitialSchema(p) ==
  /\ At(p, 1) /\ Opening(p, "run") /\ looked[p] # None
  /\ IF "run_metadata" \in looked[p] THEN Record(p, 1) ELSE ExecuteFile(p, 1)

RunStoreInitialSchema(p) ==
  /\ At(p, 1) /\ Opening(p, "run") /\ looked[p] # None
  /\ CASE Tables \subseteq looked[p] -> Record(p, 1)
       [] ~(Tables \subseteq looked[p])
            /\ (looked[p] \cap Tables # {} \/ 1 \in recorded) -> Refuse(p)
       [] OTHER -> ExecuteFile(p, 1)

(* The receipt store asks for run_metadata only. *)
ReceiptStoreInitialSchema(p) ==
  /\ At(p, 1) /\ Opening(p, "receipt") /\ looked[p] # None
  /\ IF "run_metadata" \in looked[p] THEN Record(p, 1) ELSE ExecuteFile(p, 1)

(* Fault: the file is executed or, if any of it exists, is taken as done. *)
FaultyColumnAdditions(p) ==
  \E v \in 2..4 :
    /\ At(p, v)
    /\ IF Objects(v) \cap schema = {} THEN ExecuteFile(p, v) ELSE Record(p, v)

(* The missing ones of the columns of versions 2 to 4.  Columns stay once  *)
(* they are there, so the early return reads what the transaction would.   *)
ColumnAdditions(p) ==
  \E v \in 2..4 :
    /\ At(p, v)
    /\ schema' = schema \cup Objects(v)
    /\ recorded' = recorded \cup {v}
    /\ Advance(p)

(* Its one table is created whole, so it never is incomplete. *)
RunStoreReproducibilityTable(p) ==
  /\ At(p, 5) /\ Opening(p, "run") /\ looked[p] # None
  /\ CASE "reproducibility_jobs" \in looked[p] -> Record(p, 5)
       [] "reproducibility_jobs" \notin looked[p] /\ 5 \in recorded -> Refuse(p)
       [] OTHER -> ExecuteFile(p, 5)

(* Fault: the index is left to the file, as in the run store. *)
FaultyRepairChildrenIndex(p) == Record(p, 5)

RepairChildrenIndex(p) ==
  /\ schema' = schema \cup {"reproducibility_jobs_children_idx"}
  /\ recorded' = recorded \cup {5}
  /\ Advance(p)

ReceiptStoreReproducibilityTable(p) ==
  /\ At(p, 5) /\ Opening(p, "receipt") /\ looked[p] # None
  /\ CASE "reproducibility_jobs" \in looked[p] -> RepairChildrenIndex(p)
       [] "reproducibility_jobs" \notin looked[p] /\ 5 \in recorded -> Refuse(p)
       [] OTHER -> ExecuteFile(p, 5)

(* Fault: version 6 is executed as the other files are. *)
FaultyEvidenceBundleTables(p) ==
  /\ At(p, 6)
  /\ CASE ~({"raw_logs", "signed_receipts"} \subseteq schema) -> Refuse(p)
       [] 6 \in recorded -> Record(p, 6)
       [] OTHER -> ExecuteFile(p, 6)

(* Every statement of version 6 may be repeated; the backfill and one of   *)
(* the indices need tables of version 1.                                   *)
EvidenceBundleTables(p) ==
  /\ At(p, 6)
  /\ IF {"raw_logs", "signed_receipts"} \subseteq schema
     THEN /\ schema' = schema \cup Objects(6)
          /\ recorded' = recorded \cup {6}
          /\ Advance(p)
     ELSE Refuse(p)

(* A process dies, or finds the file locked by another one. *)
Crash(p) ==
  /\ position[p] # 0
  /\ crashes < MaxCrashes
  /\ crashes' = crashes + 1
  /\ position' = [position EXCEPT ![p] = 0]
  /\ looked' = [looked EXCEPT ![p] = None]
  /\ UNCHANGED <<schema, recorded>>

StartupStep(p) ==
  \/ Start(p)
  \/ Look(p)
  \/ RunStoreInitialSchema(p)
  \/ ReceiptStoreInitialSchema(p)
  \/ ColumnAdditions(p)
  \/ RunStoreReproducibilityTable(p)
  \/ ReceiptStoreReproducibilityTable(p)
  \/ EvidenceBundleTables(p)

MigrationsNext == \E p \in Processes : StartupStep(p) \/ Crash(p)

MigrationsFairness == \A p \in Processes : WF_migrationsVars(StartupStep(p))

MigrationsSpec == MigrationsInit /\ [][MigrationsNext]_migrationsVars /\ MigrationsFairness

-----------------------------------------------------------------------------
(* Every process stands at a step of its own start, and has looked only    *)
(* where the code looks.                                                   *)
MigrationsTypeOK ==
  /\ schema \subseteq UNION {Objects(v) : v \in Version}
  /\ recorded \subseteq Version
  /\ position \in [Processes -> 0..Serving]
  /\ looked \in [Processes -> {None} \cup SUBSET (UNION {Objects(v) : v \in Version})]
  /\ \A p \in Processes : \/ looked[p] = None
                          \/ looked[p] \subseteq schema /\ (At(p, 1) \/ At(p, 5))
  /\ crashes \in 0..MaxCrashes

(* What serves has the whole schema: all the tables and columns, the       *)
(* retention of every raw log, and the indices of versions 5 and 6.        *)
Required == (UNION {Objects(v) : v \in Version})
            \ {"run_metadata_fifo_idx", "raw_logs_expiry_idx"}

ServedIsComplete ==
  (\E p \in Processes : position[p] = Serving)
     => Required \subseteq schema /\ recorded = Version

(* A recorded version, 1 apart, has its tables and columns. *)
RecordedIsThere ==
  \A v \in recorded \ {1} :
    Objects(v) \ {"reproducibility_jobs_children_idx"} \subseteq schema

(* The run store passes a version only when all of it is there: it fails   *)
(* closed on a partial initial schema, which the receipt store marks as    *)
(* version 1 before it fails.                                              *)
RunStoreFailsClosed ==
  \A p \in ProductionApis : position[p] > 1 => Tables \subseteq schema

(* Wherever a start was interrupted and whoever starts beside it: what is *)
(* served is complete, what is recorded is there, and a partial schema is *)
(* not served.                                                            *)
StartIsSafe == ServedIsComplete /\ RecordedIsThere /\ RunStoreFailsClosed

(* A file that an older program has left within version 1 is served to     *)
(* nobody; whatever else an interrupted or a concurrent start has left,    *)
(* the restarts end with every process serving.                            *)
Intact == schema \cap Tables \in {{}, Tables}
EveryStartSucceeds ==
  IF Intact THEN <>[](\A p \in Processes : position[p] = Serving)
            ELSE [](\A p \in Processes : position[p] # Serving)
=============================================================================
