------------------------------ MODULE ZipArchive ------------------------------
(***************************************************************************)
(* The ZIP archive of an evidence bundle: its writer, which stores every   *)
(* entry in one fixed form, and its reader, which follows the offsets and  *)
(* sizes it finds.                                                         *)
(*                                                                         *)
(* An archive is a sequence of parts: headers, data and foreign bytes.  A  *)
(* part has the length it has in the file and is found by its offset; the  *)
(* name of an entry is part of its header.  Fields that must have one      *)
(* value are one Boolean, plain.  A CRC is the data it belongs to.         *)
(***************************************************************************)
EXTENDS Naturals, SequencesExt, FiniteSetsExt

CONSTANTS
  Paths, UnsafePaths,   \* paths, and those safeArchivePath() refuses
  PathLength(_),
  Data, DataLength(_),
  MAX_ENTRIES, MAX_ENTRY_BYTES, MAX_BUNDLE_BYTES,
  MaxArchiveDamage             \* bounds the changes to an archive

ASSUME ZipArchiveAssumption ==
  /\ UnsafePaths \subseteq Paths /\ \A p \in Paths : PathLength(p) \in Nat \ {0}
  /\ \A d \in Data : DataLength(d) \in Nat
  /\ {MAX_ENTRIES, MAX_ENTRY_BYTES, MAX_BUNDLE_BYTES, MaxArchiveDamage} \subseteq Nat

VARIABLES given,   \* what the archive was made of
          archive,   \* its parts, or the error of the writer
          archiveDamage     \* changes so far

zipArchiveVars == <<given, archive, archiveDamage>>

-----------------------------------------------------------------------------
Length(part) ==
  CASE part.kind = "local"   -> 30 + PathLength(part.path)
    [] part.kind = "central" -> 46 + PathLength(part.path)
    [] part.kind = "end"     -> 22
    [] part.kind = "data"    -> DataLength(part.data)
    [] part.kind = "foreign" -> 1

(* How many bytes there are up to the end of each part. *)
Ends(parts) ==
  LET at[k \in 0..Len(parts)] == IF k = 0 THEN 0 ELSE at[k - 1] + Length(parts[k])
  IN  at

Size(parts) == Ends(parts)[Len(parts)]

Local(entry) ==
  [kind |-> "local", path |-> entry.path, plain |-> TRUE,
   crc |-> entry.data, bytes |-> DataLength(entry.data)]
Stored(data) == IF DataLength(data) = 0 THEN <<>> ELSE <<[kind |-> "data", data |-> data]>>

(* Fault: the offset is that of the data, as in the local header it follows. *)
FaultyCentral(entry, offset) ==
  [kind |-> "central", path |-> entry.path, plain |-> TRUE,
   crc |-> entry.data, bytes |-> DataLength(entry.data), offset |-> offset + 30]
Central(entry, offset) ==
  [kind |-> "central", path |-> entry.path, plain |-> TRUE,
   crc |-> entry.data, bytes |-> DataLength(entry.data), offset |-> offset]

(* One step of the loop over the entries. *)
WriteEntry(state, entry) ==
  [locals |-> state.locals \o <<Local(entry)>> \o Stored(entry.data),
   centrals |-> Append(state.centrals, Central(entry, state.offset)),
   offset |-> state.offset + 30 + PathLength(entry.path) + DataLength(entry.data)]

Written(list) ==
  LET written[k \in 0..Len(list)] ==
        IF k = 0 THEN [locals |-> <<>>, centrals |-> <<>>, offset |-> 0]
        ELSE WriteEntry(written[k - 1], list[k])
  IN  written

(* assertEntryInput(): the first entry that is wrong decides the error.  *)
InputError(list) ==
  LET Unsafe(k) == list[k].path \in UnsafePaths
      Twice(k) == \E j \in 1..k - 1 : list[j].path = list[k].path
      Large(k) == DataLength(list[k].data) > MAX_ENTRY_BYTES
      wrong == {k \in DOMAIN list : Unsafe(k) \/ Twice(k) \/ Large(k)}
  IN  IF list = <<>> \/ Len(list) > MAX_ENTRIES THEN "LIMIT"
      ELSE IF wrong = {} THEN "NONE"
      ELSE IF Unsafe(Min(wrong)) THEN "UNSAFE_ARCHIVE_PATH"
      ELSE IF Twice(Min(wrong)) THEN "DUPLICATE_ARCHIVE_PATH" ELSE "LIMIT"

(* createZipArchive() *)
Parts(list) ==
  LET last == Written(list)[Len(list)]
  IN  last.locals \o last.centrals \o
      <<[kind |-> "end", plain |-> TRUE, onDisk |-> Len(list), count |-> Len(list),
         size |-> Size(last.centrals), offset |-> last.offset]>>

CreateArchive(list) ==
  IF InputError(list) # "NONE" THEN [error |-> InputError(list), parts |-> <<>>]
  ELSE IF Size(Parts(list)) > MAX_BUNDLE_BYTES THEN [error |-> "LIMIT", parts |-> <<>>]
  ELSE [error |-> "NONE", parts |-> Parts(list)]

-----------------------------------------------------------------------------
(* The part of a given kind that starts at an offset; one record of no     *)
(* kind where there is none: the signature differs, or there is no room.   *)
Nothing == [kind |-> "nothing"]
PartAt(parts, offset, kind) ==
  LET at == Ends(parts)
      found == {k \in DOMAIN parts : at[k - 1] = offset /\ parts[k].kind = kind}
  IN  IF found = {} THEN Nothing ELSE parts[Min(found)]

Refused(reason) == [reason |-> reason, entries |-> <<>>]

SameHeader(local, central) ==
  /\ local.kind = "local" /\ local.plain
  /\ local.crc = central.crc /\ local.bytes = central.bytes
  /\ local.path = central.path

DataAt(parts, offset, central) ==
  \/ central.bytes = 0 /\ DataLength(central.crc) = 0
  \/ LET part == PartAt(parts, offset, "data")
     IN  part # Nothing /\ part.data = central.crc /\ DataLength(part.data) = central.bytes

(* One step of the loop over the central directory. *)
ReadEntry(parts, state) ==
  LET central == PartAt(parts, state.central, "central")
      local == PartAt(parts, central.offset, "local")
      data == central.offset + 30 + PathLength(central.path)
      Stop(reason) == [state EXCEPT !.reason = reason]
  IN  IF state.reason # "NONE" THEN state
      ELSE IF central = Nothing THEN Stop("INVALID_ARCHIVE")
      ELSE IF central.bytes > MAX_ENTRY_BYTES THEN Stop("ARCHIVE_LIMIT_EXCEEDED")
      ELSE IF ~central.plain \/ central.offset # state.local THEN Stop("INVALID_ARCHIVE")
      ELSE IF central.path \in UnsafePaths
           THEN Stop("UNSAFE_ARCHIVE_PATH")
      ELSE IF \E k \in DOMAIN state.entries : state.entries[k].path = central.path
           THEN Stop("DUPLICATE_ARCHIVE_PATH")
      ELSE IF local = Nothing \/ ~SameHeader(local, central) \/ ~DataAt(parts, data, central)
           THEN Stop("INVALID_ARCHIVE")
      ELSE [reason |-> "NONE", local |-> data + central.bytes,
            central |-> state.central + 46 + PathLength(central.path),
            entries |-> Append(state.entries, [path |-> central.path, data |-> central.crc])]

(* Fault: bytes between the entries and the directory are passed over. *)
FaultyCompleteReading(state, end, size) == state.central = size - 22
CompleteReading(state, end, size) == state.local = end.offset /\ state.central = size - 22

(* The loop over the central directory. *)
Reading(parts, end) ==
  LET start == [reason |-> "NONE", local |-> 0, central |-> end.offset, entries |-> <<>>]
      reading[k \in 0..end.count] == IF k = 0 THEN start ELSE ReadEntry(parts, reading[k - 1])
  IN  reading

(* parseEvidenceBundleArchive() *)
Read(parts) ==
  LET size == Size(parts)
      end == PartAt(parts, size - 22, "end")
      result == Reading(parts, end)[end.count]
  IN  IF size > MAX_BUNDLE_BYTES THEN Refused("ARCHIVE_LIMIT_EXCEEDED")
      ELSE IF size < 22 \/ end = Nothing \/ ~end.plain THEN Refused("INVALID_ARCHIVE")
      ELSE IF end.count > MAX_ENTRIES THEN Refused("ARCHIVE_LIMIT_EXCEEDED")
      ELSE IF end.count = 0 \/ end.onDisk # end.count \/ end.offset + end.size # size - 22
           THEN Refused("INVALID_ARCHIVE")
      ELSE IF result.reason # "NONE" THEN Refused(result.reason)
      ELSE IF ~CompleteReading(result, end, size) THEN Refused("INVALID_ARCHIVE")
      ELSE [reason |-> "NONE", entries |-> result.entries]

-----------------------------------------------------------------------------
ArchiveEntries == [path : Paths, data : Data]

ZipArchiveInit ==
  /\ given \in BoundedSeq(ArchiveEntries, MAX_ENTRIES + 1)
  /\ archive = CreateArchive(given)
  /\ archiveDamage = 0

(* Fields of a header that damage may change, to a value of its kind. *)
DamagedPart(part) ==
  (IF part.kind \in {"local", "central", "end"} THEN {[part EXCEPT !.plain = FALSE]} ELSE {})
  \union (IF part.kind \in {"local", "central"}
          THEN {[part EXCEPT !.path = p] : p \in Paths}
               \union {[part EXCEPT !.crc = d, !.bytes = DataLength(d)] : d \in Data}
               \union {[part EXCEPT !.bytes = @ + 1]}
          ELSE {})
  \union (IF part.kind = "central" THEN {[part EXCEPT !.offset = @ + 1]} ELSE {})
  \union (IF part.kind = "end"
          THEN {[part EXCEPT !.offset = @ + 1], [part EXCEPT !.size = @ + 1],
                [part EXCEPT !.count = @ + 1], [part EXCEPT !.count = @ + 1, !.onDisk = @ + 1],
                [part EXCEPT !.offset = @ + 1, !.size = @ - 1]}
          ELSE {})
  \union (IF part.kind = "data" THEN {[part EXCEPT !.data = d] : d \in {x \in Data : DataLength(x) > 0}} ELSE {})

Change(parts) ==
  /\ archive.error = "NONE" /\ archiveDamage < MaxArchiveDamage
  /\ archive' = [archive EXCEPT !.parts = parts] /\ archiveDamage' = archiveDamage + 1
  /\ UNCHANGED given

Overwrite == \E k \in DOMAIN archive.parts : \E part \in DamagedPart(archive.parts[k]) :
               Change([archive.parts EXCEPT ![k] = part])
Lose == \E k \in DOMAIN archive.parts : Change(RemoveAt(archive.parts, k))
Repeat == \E k \in DOMAIN archive.parts : Change(InsertAt(archive.parts, k, archive.parts[k]))
Insert == \E k \in 1..Len(archive.parts) + 1 : Change(InsertAt(archive.parts, k, [kind |-> "foreign"]))

ZipArchiveNext == Overwrite \/ Lose \/ Repeat \/ Insert

ZipArchiveSpec == ZipArchiveInit /\ [][ZipArchiveNext]_zipArchiveVars

-----------------------------------------------------------------------------
(* An archive that is written has safe paths, each once; one that is not   *)
(* has an error instead of parts, and a reading that fails no entries.     *)
ZipArchiveTypeOK ==
  /\ archive.error \in {"NONE", "LIMIT", "UNSAFE_ARCHIVE_PATH", "DUPLICATE_ARCHIVE_PATH"}
  /\ IF archive.error = "NONE"
     THEN \A j, k \in DOMAIN given :
            given[j].path \notin UnsafePaths /\ (given[j].path = given[k].path => j = k)
     ELSE archive.parts = <<>>
  /\ Read(archive.parts).reason # "NONE" => Read(archive.parts).entries = <<>>

(* What the writer writes, at every limit, the reader reads. *)
WrittenIsRead ==
  archive.error = "NONE" /\ archiveDamage = 0 =>
    Read(archive.parts) = [reason |-> "NONE", entries |-> given]

(* The reader accepts only what the writer would have written for what it  *)
(* reads: no hidden bytes, no second directory, no entry under two names,  *)
(* nothing beyond a limit.                                                 *)
AcceptedIsCanonical ==
  LET result == Read(archive.parts)
  IN  archive.error = "NONE" /\ result.reason = "NONE" =>
        CreateArchive(result.entries) = [error |-> "NONE", parts |-> archive.parts]

(* The reader and the writer of archives, two programs in one file, agree *)
(* at every limit and about every damaged archive.                        *)
ReaderMatchesWriter == WrittenIsRead /\ AcceptedIsCanonical
=============================================================================
