------------------------------ MODULE SecretsInit ------------------------------
(***************************************************************************)
(* initialize() of provision-secrets.mjs: the public key file and the env  *)
(* file are created exclusively, one system call after the other, and what *)
(* has been created is removed again when a call fails.  Any call may      *)
(* fail, the process may be killed, and somebody else may create the same  *)
(* files at any moment.                                                    *)
(***************************************************************************)
EXTENDS Naturals, Sequences

CONSTANT MaxFaults   \* failing calls, kills and files of somebody else

ASSUME SecretsInitAssumption == MaxFaults \in Nat

VARIABLES
  disk,          \* each file: absent, foreign, empty, partial or whole
  nextCall,      \* the system call that comes next in Calls; 0 is idle
  createdFiles,  \* the files that this run of init has created
  cleaning,      \* the files that the catch clause has still to look at
  initOutcome,   \* of the last run: none, done, refused, failed or killed
  stuck,         \* a removal of the last run has failed
  faults

secretsInitVars == <<disk, nextCall, createdFiles, cleaning, initOutcome, stuck, faults>>

File == {"public", "env"}
Calls == << <<"open", "public">>, <<"write", "public">>, <<"close", "public">>,
            <<"open", "env">>, <<"write", "env">>, <<"close", "env">>,
            <<"chmod", "env">>, <<"chmod", "public">> >>

SecretsInitInit ==
  /\ disk \in [File -> {"absent", "foreign"}]
  /\ nextCall = 0 /\ createdFiles = {} /\ cleaning = <<>>
  /\ initOutcome = "none" /\ stuck = FALSE /\ faults = 0

-----------------------------------------------------------------------------
Fault == faults < MaxFaults /\ faults' = faults + 1

Busy == nextCall # 0 \/ cleaning # <<>>

(* The two files are asked for before anything is written. *)
Begin ==
  /\ ~Busy /\ initOutcome # "done"
  /\ createdFiles' = {} /\ stuck' = FALSE
  /\ IF \A f \in File : disk[f] = "absent"
     THEN nextCall' = 1 /\ initOutcome' = "none"
     ELSE nextCall' = 0 /\ initOutcome' = "refused"
  /\ UNCHANGED <<disk, cleaning, faults>>

(* What a call does to its file; half of a write may have been made. *)
Effect(name, f) ==
  CASE name = "open"  -> [disk EXCEPT ![f] = "empty"]
    [] name = "write" -> [disk EXCEPT ![f] = "whole"]
    [] OTHER          -> disk

(* Fault: the file is opened whether or not it exists. *)
FaultyOpens(name, f) == TRUE

(* The flag wx: open() fails on a file that exists. *)
Opens(name, f) == name = "open" => disk[f] = "absent"

Marked(name, f) == IF name = "open" THEN createdFiles \cup {f} ELSE createdFiles

Succeed ==
  /\ nextCall # 0
  /\ LET name == Calls[nextCall][1]
         f    == Calls[nextCall][2]
     IN  /\ Opens(name, f)
         /\ disk' = Effect(name, f)
         /\ createdFiles' = Marked(name, f)
  /\ IF nextCall = Len(Calls) THEN nextCall' = 0 /\ initOutcome' = "done"
                          ELSE nextCall' = nextCall + 1 /\ UNCHANGED initOutcome
  /\ UNCHANGED <<cleaning, stuck, faults>>

(* Fault: the env file is forgotten. *)
FaultyToClean(files) == IF "public" \in files THEN <<"public">> ELSE <<>>

(* The secrets go first. *)
ToClean(files) ==
  (IF "env" \in files THEN <<"env">> ELSE <<>>) \o (IF "public" \in files THEN <<"public">> ELSE <<>>)

(* A call throws; a failed open() has created nothing, and a failed write  *)
(* is followed by close() and by its own error.                            *)
Fail ==
  /\ nextCall # 0
  /\ LET name == Calls[nextCall][1]
         f    == Calls[nextCall][2]
     IN  /\ \/ Fault
            \/ ~Opens(name, f) /\ UNCHANGED faults
         /\ disk' \in IF name = "write" THEN {disk, [disk EXCEPT ![f] = "partial"]}
                                        ELSE {disk}
  /\ nextCall' = 0 /\ initOutcome' = "failed"
  /\ cleaning' = ToClean(createdFiles)
  /\ UNCHANGED <<createdFiles, stuck>>

(* unlink(), whose own failure is swallowed. *)
CleanUp ==
  /\ cleaning # <<>>
  /\ cleaning' = Tail(cleaning)
  /\ \/ disk' = [disk EXCEPT ![Head(cleaning)] = "absent"]
        /\ UNCHANGED <<stuck, faults>>
     \/ Fault /\ stuck' = TRUE /\ UNCHANGED disk
  /\ UNCHANGED <<nextCall, createdFiles, initOutcome>>

Killed ==
  /\ Busy /\ Fault
  /\ nextCall' = 0 /\ cleaning' = <<>> /\ initOutcome' = "killed"
  /\ UNCHANGED <<disk, createdFiles, stuck>>

(* Somebody else creates a file, or removes one between two runs. *)
Foreign ==
  /\ Fault
  /\ \E f \in File :
       \/ disk[f] = "absent" /\ disk' = [disk EXCEPT ![f] = "foreign"]
       \/ disk[f] # "absent" /\ ~Busy /\ initOutcome # "done"
          /\ disk' = [disk EXCEPT ![f] = "absent"]
  /\ UNCHANGED <<nextCall, createdFiles, cleaning, initOutcome, stuck>>

SecretsInitNext == Begin \/ Succeed \/ Fail \/ CleanUp \/ Killed \/ Foreign

SecretsInitSpec == SecretsInitInit /\ [][SecretsInitNext]_secretsInitVars

-----------------------------------------------------------------------------
(* init knows which files it has created as soon as they exist. *)
SecretsInitTypeOK ==
  /\ disk \in [File -> {"absent", "foreign", "empty", "partial", "whole"}]
  /\ nextCall \in 0..Len(Calls) /\ createdFiles \subseteq File
  /\ initOutcome \in {"none", "done", "refused", "failed", "killed"}
  /\ stuck \in BOOLEAN /\ faults \in 0..MaxFaults
  /\ nextCall # 0 => /\ cleaning = <<>>
                     /\ createdFiles = {Calls[i][2] : i \in 1..nextCall - 1}

(* A file of somebody else is neither overwritten nor removed by init,     *)
(* even one that appears after init has looked for it.                     *)
ForeignFilesAreKept ==
  [][\A f \in File :
       disk[f] = "foreign" => disk'[f] = "foreign" \/ Foreign]_secretsInitVars

(* init ends with both files whole; or it fails and, unless a removal has  *)
(* failed too, leaves nothing of its own, so that it can be run again.     *)
AllOrNothing ==
  ~Busy =>
    /\ initOutcome = "done" => \A f \in File : disk[f] = "whole"
    /\ initOutcome = "failed" /\ ~stuck =>
         \A f \in File : disk[f] \in {"absent", "foreign"}
=============================================================================
