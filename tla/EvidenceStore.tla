--------------------------- MODULE EvidenceStore ---------------------------
(***************************************************************************)
(* upload_evidence and verify_integrity of app.main: the original file of  *)
(* an evidence, its row, its ORIGINAL artifact and its audit event.        *)
(*                                                                         *)
(* Uploads run in threads of their own. Each writes a file named by a new  *)
(* uuid, reads it again for its hash and then commits its three rows in    *)
(* one transaction: an upload names its evidence here. Contents and hashes *)
(* are pairs; SHA-256 is modelled as one-to-one.                           *)
(***************************************************************************)
EXTENDS Integers, Sequences

CONSTANTS
  Uploads,
  Chunks,         \* how many chunks of 1 MiB each uploaded file has
  MaxChunks,      \* settings.max_upload_size_bytes
  MaxMishaps,     \* bound of the model: failing writes and commits, damage to what is stored
  Absent

Parts == {"file", "sha256", "artifact", "event"}
UnderWay == {"writing", "written", "hashed"}

\* Contents, hashes and what damage leaves in their place; the events of an evidence, and
\* its rows.
Values == (Uploads \cup Parts) \X Nat
AuditEvents == [payload : Values, previous : {Absent}, hash : Values \X {Absent}]
EvidenceRows == [sha256 : Values, artifact : Values, events : Seq(AuditEvents)]

ASSUME UploadAssumption ==
  /\ Chunks \in [Uploads -> Nat]
  /\ MaxChunks \in Nat
  /\ MaxMishaps \in Nat
  /\ Uploads \cap Parts = {}
  /\ Absent \notin Values /\ Absent \notin EvidenceRows

VARIABLES
  file,           \* the content of originals/<evidence id>.bin, or Absent
  total,          \* the chunks an upload has read
  digest,         \* sha256_file of the written file
  record,         \* the committed rows of an evidence, or Absent
  stage,          \* of each upload
  damaged,        \* history: what was changed behind the program's back
  mishaps

storeVars == <<file, total, digest, record, stage, damaged, mishaps>>

Content(u, n) == <<u, n>>
Original(u) == Content(u, Chunks[u])
Altered(part) == <<part, 0>>
Chain(payload, previous) == <<payload, previous>>

StoreTypeOK ==
  /\ file \in [Uploads -> Values \cup {Absent}]
  /\ digest \in [Uploads -> Values \cup {Absent}]
  /\ record \in [Uploads -> EvidenceRows \cup {Absent}]
  /\ total \in [Uploads -> Nat]
  /\ stage \in [Uploads -> {"start", "refused", "stored", "failed"} \cup UnderWay]
  /\ damaged \in [Uploads -> SUBSET Parts]
  /\ mishaps \in 0..MaxMishaps

StoreInit ==
  /\ file = [u \in Uploads |-> Absent]
  /\ total = [u \in Uploads |-> 0]
  /\ digest = [u \in Uploads |-> Absent]
  /\ record = [u \in Uploads |-> Absent]
  /\ stage = [u \in Uploads |-> "start"]
  /\ damaged = [u \in Uploads |-> {}]
  /\ mishaps = 0

Advance(u, from, to) == stage[u] = from /\ stage' = [stage EXCEPT ![u] = to]
Mishap == mishaps < MaxMishaps /\ mishaps' = mishaps + 1
Put(f, u, value) == [f EXCEPT ![u] = value]
-----------------------------------------------------------------------------
\* 404 for the case, 415 for the media type
Refuse(u) ==
  /\ Advance(u, "start", "refused")
  /\ UNCHANGED <<file, total, digest, record, damaged, mishaps>>

Open(u) ==
  /\ Advance(u, "start", "writing")
  /\ file' = Put(file, u, Content(u, 0))
  /\ UNCHANGED <<total, digest, record, damaged, mishaps>>

WriteChunk(u) ==
  /\ stage[u] = "writing" /\ total[u] < Chunks[u] /\ total[u] < MaxChunks
  /\ total' = Put(total, u, total[u] + 1)
  /\ file' = Put(file, u, Content(u, total[u] + 1))
  /\ UNCHANGED <<stage, digest, record, damaged, mishaps>>

\* Mutant: the file of an upload that is too large is left behind.
RefuseTooLargeKeeps(u) ==
  /\ total[u] < Chunks[u] /\ total[u] = MaxChunks
  /\ Advance(u, "writing", "refused")
  /\ total' = Put(total, u, total[u] + 1)
  /\ UNCHANGED <<file, digest, record, damaged, mishaps>>

\* 413: the chunk is counted, then the file is unlinked.
RefuseTooLarge(u) ==
  /\ total[u] < Chunks[u] /\ total[u] = MaxChunks
  /\ Advance(u, "writing", "refused")
  /\ total' = Put(total, u, total[u] + 1)
  /\ file' = Put(file, u, Absent)
  /\ UNCHANGED <<digest, record, damaged, mishaps>>

\* The reader is at its end: the file is closed.
Close(u) ==
  /\ total[u] = Chunks[u]
  /\ Advance(u, "writing", "written")
  /\ UNCHANGED <<file, total, digest, record, damaged, mishaps>>

Hash(u) ==
  /\ Advance(u, "written", "hashed")
  /\ digest' = Put(digest, u, file[u])
  /\ UNCHANGED <<file, total, record, damaged, mishaps>>

\* The rows of an upload. The payload of the event names the digest; there is no
\* previous event.
Rows(u) ==
  [sha256 |-> digest[u],
   artifact |-> digest[u],
   events |-> <<[payload |-> digest[u], previous |-> Absent, hash |-> Chain(digest[u], Absent)]>>]

StoreRows(u) ==
  /\ Advance(u, "hashed", "stored")
  /\ record' = Put(record, u, Rows(u))
  /\ UNCHANGED <<file, total, digest, damaged, mishaps>>

\* A write, the read for the hash, the flush or the commit raises; a commit that raises
\* may have been stored.
UploadFails(u) ==
  /\ Mishap
  /\ stage[u] \in UnderWay
  /\ stage' = Put(stage, u, "failed")
  /\ \/ UNCHANGED record
     \/ stage[u] = "hashed" /\ record' = Put(record, u, Rows(u))
  /\ UNCHANGED <<file, total, digest, damaged>>

\* Something other than the program removes or changes a stored file, or one value of a
\* stored row.
Damage(u, part) ==
  /\ Mishap
  /\ record[u] # Absent
  /\ damaged' = Put(damaged, u, damaged[u] \cup {part})
  /\ \/ /\ part = "file"
        /\ file' \in {Put(file, u, Absent), Put(file, u, Altered(part))}
        /\ UNCHANGED record
     \/ /\ part \in {"sha256", "artifact"}
        /\ record' = [record EXCEPT ![u][part] = Altered(part)]
        /\ UNCHANGED file
     \/ /\ part = "event"
        /\ record' = [record EXCEPT ![u].events[1].payload = Altered(part)]
        /\ UNCHANGED file
  /\ UNCHANGED <<total, digest, stage>>

\* The end of the process ends its threads.
KillUploads ==
  /\ stage' = [u \in Uploads |-> IF stage[u] \in UnderWay THEN "failed" ELSE stage[u]]
  /\ UNCHANGED <<file, total, digest, record, damaged, mishaps>>

Upload(u) ==
  \/ Refuse(u) \/ Open(u) \/ WriteChunk(u) \/ RefuseTooLarge(u) \/ Close(u) \/ Hash(u)
  \/ StoreRows(u) \/ UploadFails(u) \/ (\E part \in Parts : Damage(u, part))

\* Mutant: the file is compared with the hash of the artifact.
VerificationOfArtifact(u) ==
  [original |-> file[u] = record[u].artifact,
   artifact |-> record[u].artifact = record[u].sha256,
   audit |-> record[u].events[1].hash = Chain(record[u].events[1].payload, Absent)]

\* IntegrityRead of verify_integrity: three checks that do not depend on each other.
Verification(u) ==
  LET row == record[u]
      Previous(n) == IF n = 1 THEN Absent ELSE row.events[n - 1].hash
  IN  [original |-> file[u] # Absent /\ file[u] = row.sha256,
       artifact |-> row.artifact = row.sha256,
       audit |-> \A n \in DOMAIN row.events :
                   /\ row.events[n].previous = Previous(n)
                   /\ Chain(row.events[n].payload, Previous(n)) = row.events[n].hash]
-----------------------------------------------------------------------------
(* What was uploaded is what is verified: the verification of an evidence reports
   exactly the parts that were damaged since, whatever failed during the upload, and one
   damage does not obscure the others. *)
VerificationIsExact ==
  \A u \in Uploads : record[u] # Absent =>
    Verification(u) =
      [original |-> damaged[u] \cap {"file", "sha256"} = {},
       artifact |-> damaged[u] \cap {"artifact", "sha256"} = {},
       audit |-> "event" \notin damaged[u]]

(* Nothing that was uploaded is lost, and nothing is stored twice or half: evidence has
   the whole file, and a file without evidence belongs to an upload that is under way or
   has failed, never to one that was refused. *)
FilesAreAccounted ==
  \A u \in Uploads :
    /\ record[u] # Absent /\ "file" \notin damaged[u] => file[u] = Original(u)
    /\ record[u] = Absent /\ file[u] # Absent => stage[u] \in UnderWay \cup {"failed"}
=============================================================================
