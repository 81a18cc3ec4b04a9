----------------------------- MODULE EvidencePage -----------------------------
(***************************************************************************)
(* The evidence bundle page: a reducer whose generation tells the answer   *)
(* of the archive that is selected from those of earlier ones.  A result   *)
(* is known by the archive it is about.                                    *)
(***************************************************************************)
EXTENDS Schema, Naturals

CONSTANTS
  Archives,       \* files a user may choose
  Large,          \* those beyond MAX_ARCHIVE_BYTES
  MaxGeneration   \* bounds the choices and the uploads

ASSUME EvidencePageAssumption ==
  Large \subseteq Archives /\ MaxGeneration \in Nat /\ None \notin Archives

VARIABLES archive, bundleResult, bundleError, verifying, generation,
          uploads    \* on their way: generation and archive

evidenceState == <<archive, bundleResult, bundleError, verifying, generation>>
evidencePageVars == <<evidenceState, uploads>>

EvidencePageInit ==
  /\ archive = None /\ bundleResult = None /\ bundleError = FALSE /\ verifying = FALSE
  /\ generation = 0 /\ uploads = {}

Chosen(g) == g + 1

(* The file input: another file, or none. *)
SelectArchive(file) ==
  /\ generation < MaxGeneration
  /\ archive' = file /\ generation' = Chosen(generation)
  /\ bundleResult' = None /\ bundleError' = FALSE /\ verifying' = FALSE
  /\ UNCHANGED uploads

Uploadable(file) == file # None /\ file \notin Large

(* Fault: the upload has the generation of the choice. *)
FaultyStartVerification ==
  /\ ~verifying /\ Uploadable(archive) /\ generation < MaxGeneration
  /\ generation' = generation + 1
  /\ bundleResult' = None /\ bundleError' = FALSE /\ verifying' = TRUE
  /\ uploads' = uploads \union {[generation |-> generation, archive |-> archive]}
  /\ UNCHANGED archive

(* Submitting the form, whose button is disabled while verifying. *)
StartVerification ==
  /\ ~verifying /\ Uploadable(archive) /\ generation < MaxGeneration
  /\ generation' = generation + 1
  /\ bundleResult' = None /\ bundleError' = FALSE /\ verifying' = TRUE
  /\ uploads' = uploads \union {[generation |-> generation + 1, archive |-> archive]}
  /\ UNCHANGED archive

SetError ==
  /\ ~verifying /\ ~Uploadable(archive)
  /\ bundleError' = TRUE /\ verifying' = FALSE
  /\ UNCHANGED <<archive, bundleResult, generation, uploads>>

(* Fault: a failure of an earlier upload is told as well. *)
FaultyTold(upload) == upload.generation <= generation
Told(upload) == upload.generation = generation

VerificationSuccess(upload) ==
  /\ upload \in uploads /\ uploads' = uploads \ {upload}
  /\ IF upload.generation = generation
     THEN bundleResult' = upload.archive /\ verifying' = FALSE
     ELSE UNCHANGED <<bundleResult, verifying>>
  /\ UNCHANGED <<archive, bundleError, generation>>

(* Fault: the indicator stays. *)
FaultyVerificationError(upload) ==
  /\ upload \in uploads /\ uploads' = uploads \ {upload}
  /\ bundleError' = (Told(upload) \/ bundleError)
  /\ UNCHANGED <<archive, bundleResult, generation, verifying>>

VerificationError(upload) ==
  /\ upload \in uploads /\ uploads' = uploads \ {upload}
  /\ IF Told(upload)
     THEN bundleError' = TRUE /\ verifying' = FALSE
     ELSE UNCHANGED <<bundleError, verifying>>
  /\ UNCHANGED <<archive, bundleResult, generation>>

EvidencePageNext ==
  \/ \E file \in Archives \union {None} : SelectArchive(file)
  \/ StartVerification \/ SetError
  \/ \E upload \in uploads : VerificationSuccess(upload) \/ VerificationError(upload)

Uploads == [generation : 1..MaxGeneration, archive : Archives]

(* Every upload is answered or fails. *)
EvidencePageFairness ==
  \A upload \in Uploads :
    WF_evidencePageVars(VerificationSuccess(upload) \/ VerificationError(upload))

EvidencePageSpec ==
  EvidencePageInit /\ [][EvidencePageNext]_evidencePageVars /\ EvidencePageFairness

-----------------------------------------------------------------------------
(* What is uploaded is within the limit, and each upload has a generation  *)
(* of its own that is not in the future.                                   *)
EvidencePageTypeOK ==
  /\ archive \in Archives \union {None} /\ bundleResult \in Archives \union {None}
  /\ bundleError \in BOOLEAN /\ verifying \in BOOLEAN /\ generation \in 0..MaxGeneration
  /\ uploads \subseteq Uploads
  /\ \A u \in uploads : u.generation <= generation /\ u.archive \notin Large
  /\ \A u, v \in uploads : u.generation = v.generation => u = v

(* The page shows a result of the archive that is selected, never of one   *)
(* chosen before, and never beside an error about another attempt.         *)
ResultIsOfTheSelection == bundleResult # None => bundleResult = archive /\ ~bundleError

(* While it verifies, the upload it waits for is that of the selection.    *)
VerifyingTheSelection ==
  verifying => [generation |-> generation, archive |-> archive] \in uploads

(* The button is enabled again, whatever happens to the upload. *)
VerificationEnds == []<>~verifying
=============================================================================
