--------------------- MODULE EvidenceSubmission_proofs ---------------------
(***************************************************************************)
(* Proofs about EvidenceSubmission and the two modules it composes, for    *)
(* any uploads, limit of their size, requests and keys, and any number of  *)
(* failures, restarts and damages.                                         *)
(***************************************************************************)
EXTENDS EvidenceSubmission, SequenceLemmas

\* The store: what an upload has written and hashed so far, and what is left of it in the
\* file and the rows after damage.
Value(u, part) == IF part \in damaged[u] THEN Altered(part) ELSE Original(u)

RowsOf(u, sha256, artifact, payload) ==
  [sha256 |-> sha256, artifact |-> artifact,
   events |-> <<[payload |-> payload, previous |-> Absent, hash |-> Chain(Original(u), Absent)]>>]

StoredRows(u) == RowsOf(u, Value(u, "sha256"), Value(u, "artifact"), Value(u, "event"))

UploadIInv(u) ==
  /\ stage[u] \in {"start", "refused"} => file[u] = Absent
  /\ stage[u] = "start" => total[u] = 0
  /\ stage[u] = "writing" => file[u] = Content(u, total[u])
  /\ stage[u] \in {"written", "hashed"} => file[u] = Original(u)
  /\ stage[u] = "hashed" => digest[u] = Original(u)
  /\ stage[u] = "stored" => record[u] # Absent
  /\ record[u] = Absent => damaged[u] = {}
  /\ record[u] # Absent =>
       /\ stage[u] \in {"stored", "failed"}
       /\ record[u] = StoredRows(u)
       /\ "file" \in damaged[u] => file[u] \in {Absent, Altered("file")}
       /\ "file" \notin damaged[u] => file[u] = Original(u)

StoreIInv == StoreTypeOK /\ \A u \in Uploads : UploadIInv(u)

\* Contents, hashes and what damage leaves are different things.
LEMMA ValuesDiffer ==
  /\ \A u \in Uploads, n \in Nat : Content(u, n) \in Values
  /\ \A u \in Uploads : Original(u) \in Values
  /\ \A part \in Parts : Altered(part) \in Values
  /\ \A part \in Parts : \A u \in Uploads : Altered(part) # Original(u)
  /\ \A part, other \in Parts : Altered(part) = Altered(other) => part = other
  /\ Absent \notin Values /\ Absent \notin EvidenceRows
BY UploadAssumption DEF Content, Original, Altered, Values

LEMMA StoredRowsTyped ==
  ASSUME NEW sha256 \in Values, NEW artifact \in Values, NEW payload \in Values,
         NEW hashed \in Values
  PROVE  [sha256 |-> sha256, artifact |-> artifact,
          events |-> <<[payload |-> payload, previous |-> Absent,
                        hash |-> Chain(hashed, Absent)]>>] \in EvidenceRows
<1>1. Chain(hashed, Absent) \in Values \X {Absent}
  BY DEF Chain
<1>2. [payload |-> payload, previous |-> Absent, hash |-> Chain(hashed, Absent)] \in AuditEvents
  BY <1>1 DEF AuditEvents
<1> QED
  BY <1>2 DEF EvidenceRows

LEMMA InitStore == StoreInit => StoreIInv
BY UploadAssumption DEF StoreInit, StoreIInv, StoreTypeOK, UploadIInv, UnderWay

\* A step of one upload leaves the others as they are.
LEMMA UploadPreserves ==
  ASSUME StoreIInv, NEW u \in Uploads, StoreTypeOK', UploadIInv(u)',
         \A v \in Uploads \ {u} :
           /\ file'[v] = file[v] /\ total'[v] = total[v] /\ digest'[v] = digest[v]
           /\ record'[v] = record[v] /\ stage'[v] = stage[v] /\ damaged'[v] = damaged[v]
  PROVE  StoreIInv'
<1>1. ASSUME NEW v \in Uploads \ {u}
      PROVE  UploadIInv(v)'
  BY <1>1 DEF StoreIInv, UploadIInv, StoredRows, RowsOf, Value
<1> QED
  BY <1>1 DEF StoreIInv

LEMMA WritingPreserves ==
  ASSUME StoreIInv, NEW u \in Uploads,
         Refuse(u) \/ Open(u) \/ WriteChunk(u) \/ RefuseTooLarge(u) \/ Close(u) \/ Hash(u)
  PROVE  StoreIInv'
<1> USE UploadAssumption, ValuesDiffer DEF StoreIInv, StoreTypeOK, Advance, Put, UnderWay
<1>1. CASE Refuse(u)
  BY <1>1, UploadPreserves DEF Refuse, UploadIInv
<1>2. CASE Open(u)
  BY <1>2, UploadPreserves DEF Open, UploadIInv
<1>3. CASE WriteChunk(u)
  BY <1>3, UploadPreserves DEF WriteChunk, UploadIInv
<1>4. CASE RefuseTooLarge(u)
  BY <1>4, UploadPreserves DEF RefuseTooLarge, UploadIInv
<1>5. CASE Close(u)
  BY <1>5, UploadPreserves DEF Close, UploadIInv, Original
<1>6. CASE Hash(u)
  BY <1>6, UploadPreserves DEF Hash, UploadIInv
<1> QED
  BY <1>1, <1>2, <1>3, <1>4, <1>5, <1>6

\* The rows of an upload whose hash is known.
LEMMA RowsAreStored ==
  ASSUME StoreIInv, NEW u \in Uploads, stage[u] = "hashed"
  PROVE  Rows(u) = StoredRows(u) /\ Rows(u) \in EvidenceRows /\ Rows(u) # Absent /\ damaged[u] = {}
<1>1. digest[u] = Original(u) /\ record[u] = Absent /\ damaged[u] = {} /\ Original(u) \in Values
  BY ValuesDiffer DEF StoreIInv, UploadIInv
<1>2. Rows(u) = StoredRows(u)
  BY <1>1 DEF Rows, StoredRows, RowsOf, Value
<1>3. Rows(u) \in EvidenceRows
  BY <1>1, StoredRowsTyped, Zenon DEF Rows
<1> QED
  BY <1>1, <1>2, <1>3, ValuesDiffer

LEMMA StoringPreserves ==
  ASSUME StoreIInv, NEW u \in Uploads, StoreRows(u) \/ UploadFails(u)
  PROVE  StoreIInv'
<1> USE UploadAssumption, ValuesDiffer DEF StoreIInv, StoreTypeOK, Advance, Put, UnderWay
<1>1. CASE StoreRows(u)
  <2>1. Rows(u) = StoredRows(u) /\ Rows(u) \in EvidenceRows /\ Rows(u) # Absent /\ damaged[u] = {}
    BY <1>1, RowsAreStored DEF StoreRows
  <2>2. StoredRows(u)' = StoredRows(u)
    BY <1>1, Zenon DEF StoreRows, StoredRows, RowsOf, Value
  <2>3. StoreTypeOK' /\ UploadIInv(u)'
    BY <1>1, <2>1, <2>2 DEF StoreRows, UploadIInv
  <2> QED
    BY <1>1, <2>3, UploadPreserves DEF StoreRows
<1>2. CASE UploadFails(u)
  <2>1. StoredRows(u)' = StoredRows(u)
    BY <1>2, Zenon DEF UploadFails, StoredRows, RowsOf, Value
  <2>2. CASE UNCHANGED record
    <3>1. StoreTypeOK' /\ UploadIInv(u)'
      BY <1>2, <2>1, <2>2 DEF UploadFails, Mishap, UploadIInv
    <3> QED
      BY <1>2, <2>2, <3>1, UploadPreserves DEF UploadFails
  <2>3. CASE stage[u] = "hashed" /\ record' = Put(record, u, Rows(u))
    <3>1. Rows(u) = StoredRows(u) /\ Rows(u) \in EvidenceRows /\ Rows(u) # Absent /\ damaged[u] = {}
      BY <2>3, RowsAreStored
    <3>2. StoreTypeOK' /\ UploadIInv(u)'
      BY <1>2, <2>1, <2>3, <3>1 DEF UploadFails, Mishap, UploadIInv
    <3> QED
      BY <1>2, <2>3, <3>2, UploadPreserves DEF UploadFails
  <2> QED
    BY <1>2, <2>2, <2>3 DEF UploadFails
<1> QED
  BY <1>1, <1>2

\* Changing one value of the rows.
LEMMA ChangedField ==
  ASSUME NEW s, NEW a, NEW e, NEW value
  PROVE  /\ [[sha256 |-> s, artifact |-> a, events |-> e] EXCEPT !["sha256"] = value]
            = [sha256 |-> value, artifact |-> a, events |-> e]
         /\ [[sha256 |-> s, artifact |-> a, events |-> e] EXCEPT !["artifact"] = value]
            = [sha256 |-> s, artifact |-> value, events |-> e]
         /\ [[sha256 |-> s, artifact |-> a, events |-> e] EXCEPT !["events"] = value]
            = [sha256 |-> s, artifact |-> a, events |-> value]
<1> DEFINE fields == {"sha256", "artifact", "events"}
           f(x, y, z) ==
             [i \in fields |-> IF i = "sha256" THEN x ELSE IF i = "artifact" THEN y ELSE z]
<1>1. \A x, y, z : [sha256 |-> x, artifact |-> y, events |-> z] = f(x, y, z)
  OBVIOUS
<1>2. /\ [f(s, a, e) EXCEPT !["sha256"] = value] = f(value, a, e)
      /\ [f(s, a, e) EXCEPT !["artifact"] = value] = f(s, value, e)
      /\ [f(s, a, e) EXCEPT !["events"] = value] = f(s, a, value)
  OBVIOUS
<1> HIDE DEF f
<1> QED
  BY <1>1, <1>2, Zenon

LEMMA ChangedEvent ==
  ASSUME NEW s, NEW a, NEW p, NEW previous, NEW hash, NEW value
  PROVE  [[sha256 |-> s, artifact |-> a,
           events |-> <<[payload |-> p, previous |-> previous, hash |-> hash]>>]
            EXCEPT !.events[1].payload = value]
         = [sha256 |-> s, artifact |-> a,
            events |-> <<[payload |-> value, previous |-> previous, hash |-> hash]>>]
<1> DEFINE fields == {"payload", "previous", "hash"}
           event(x) ==
             [i \in fields |-> IF i = "payload" THEN x ELSE IF i = "previous" THEN previous ELSE hash]
           row(e) == [sha256 |-> s, artifact |-> a, events |-> e]
<1>1. \A x : [payload |-> x, previous |-> previous, hash |-> hash] = event(x)
  OBVIOUS
<1>2. [event(p) EXCEPT !["payload"] = value] = event(value)
  OBVIOUS
<1>3. \A e : row(e).events = e
  OBVIOUS
<1>4. \A e, w : <<e>>[1] = e /\ [<<e>> EXCEPT ![1] = w] = <<w>>
  OBVIOUS
<1>5. \A e, w : [row(e) EXCEPT !["events"] = w] = row(w)
  BY ChangedField
<1> HIDE DEF event, row
<1>6. [row(<<event(p)>>) EXCEPT !.events[1].payload = value]
      = [row(<<event(p)>>) EXCEPT !["events"] =
           [row(<<event(p)>>).events EXCEPT ![1] =
              [row(<<event(p)>>).events[1] EXCEPT !["payload"] = value]]]
  BY Zenon
<1>7. row(<<event(p)>>).events = <<event(p)>> /\ row(<<event(p)>>).events[1] = event(p)
  BY <1>3, <1>4, Zenon
<1>8. [row(<<event(p)>>) EXCEPT !.events[1].payload = value]
      = [row(<<event(p)>>) EXCEPT !["events"] = [<<event(p)>> EXCEPT ![1] = event(value)]]
  BY <1>2, <1>6, <1>7, Zenon
<1>9. [<<event(p)>> EXCEPT ![1] = event(value)] = <<event(value)>>
  BY <1>4, Zenon
<1>10. [row(<<event(p)>>) EXCEPT !["events"] = <<event(value)>>] = row(<<event(value)>>)
  BY <1>5, Zenon
<1>11. [row(<<event(p)>>) EXCEPT !.events[1].payload = value] = row(<<event(value)>>)
  BY <1>8, <1>9, <1>10
<1> QED
  BY <1>1, <1>11, Zenon DEF row

LEMMA ChangedRows ==
  \A u, sha256, artifact, payload, value :
    /\ [RowsOf(u, sha256, artifact, payload) EXCEPT !["sha256"] = value]
         = RowsOf(u, value, artifact, payload)
    /\ [RowsOf(u, sha256, artifact, payload) EXCEPT !["artifact"] = value]
         = RowsOf(u, sha256, value, payload)
    /\ [RowsOf(u, sha256, artifact, payload) EXCEPT !.events[1].payload = value]
         = RowsOf(u, sha256, artifact, value)
<1> TAKE u, sha256, artifact, payload, value
<1>1. /\ [RowsOf(u, sha256, artifact, payload) EXCEPT !["sha256"] = value]
           = RowsOf(u, value, artifact, payload)
      /\ [RowsOf(u, sha256, artifact, payload) EXCEPT !["artifact"] = value]
           = RowsOf(u, sha256, value, payload)
  <2> DEFINE events == <<[payload |-> payload, previous |-> Absent,
                          hash |-> Chain(Original(u), Absent)]>>
  <2>1. \A s, a : RowsOf(u, s, a, payload) = [sha256 |-> s, artifact |-> a, events |-> events]
    BY DEF RowsOf
  <2> HIDE DEF events
  <2> QED
    BY <2>1, ChangedField
<1>2. [RowsOf(u, sha256, artifact, payload) EXCEPT !.events[1].payload = value]
        = RowsOf(u, sha256, artifact, value)
  BY ChangedEvent DEF RowsOf
<1> QED
  BY <1>1, <1>2

LEMMA DamagePreserves ==
  ASSUME StoreIInv, NEW u \in Uploads, NEW part \in Parts, Damage(u, part)
  PROVE  StoreIInv' /\ \A v \in Uploads : record[v] # Absent => record'[v] # Absent
<1> USE UploadAssumption, ValuesDiffer DEF StoreIInv, StoreTypeOK, Put
<1>1. /\ record[u] = StoredRows(u) /\ record[u] # Absent /\ stage[u] \in {"stored", "failed"}
      /\ "file" \in damaged[u] => file[u] \in {Absent, Altered("file")}
      /\ "file" \notin damaged[u] => file[u] = Original(u)
  BY DEF Damage, UploadIInv
<1>2. damaged' = [damaged EXCEPT ![u] = damaged[u] \cup {part}]
  BY DEF Damage
<1>3. /\ Value(u, part)' = Altered(part)
      /\ \A other \in Parts \ {part} : Value(u, other)' = Value(u, other)
      /\ \A other \in Parts : Value(u, other)' \in Values
  BY <1>2 DEF Value
<1>4. StoredRows(u)' \in EvidenceRows
  <2>1. /\ Value(u, "sha256")' \in Values /\ Value(u, "artifact")' \in Values
        /\ Value(u, "event")' \in Values /\ Original(u) \in Values
    BY <1>3 DEF Parts
  <2> QED
    BY <2>1, StoredRowsTyped, Zenon DEF StoredRows, RowsOf
<1>5. /\ record' = [record EXCEPT ![u] = StoredRows(u)']
      /\ "file" \in damaged'[u] => file'[u] \in {Absent, Altered("file")}
      /\ "file" \notin damaged'[u] => file'[u] = Original(u)
      /\ \A v \in Uploads \ {u} : file'[v] = file[v]
      /\ file' \in [Uploads -> Values \cup {Absent}]
  <2>1. CASE part = "file"
    <3>1. /\ record' = record /\ StoredRows(u)' = StoredRows(u)
          /\ file' \in {Put(file, u, Absent), Put(file, u, Altered(part))}
      BY <1>3, <2>1, Zenon DEF Damage, StoredRows, Parts
    <3> QED
      BY <1>1, <1>2, <2>1, <3>1
  <2>2. CASE part = "sha256"
    <3>1. file' = file /\ record' = [record EXCEPT ![u][part] = Altered(part)]
      BY <2>2 DEF Damage
    <3>2. [StoredRows(u) EXCEPT !["sha256"] = Altered(part)] = StoredRows(u)'
      BY <1>3, <2>2, ChangedRows DEF StoredRows, Parts
    <3> QED
      BY <1>1, <1>2, <2>2, <3>1, <3>2
  <2>3. CASE part = "artifact"
    <3>1. file' = file /\ record' = [record EXCEPT ![u][part] = Altered(part)]
      BY <2>3 DEF Damage
    <3>2. [StoredRows(u) EXCEPT !["artifact"] = Altered(part)] = StoredRows(u)'
      BY <1>3, <2>3, ChangedRows DEF StoredRows, Parts
    <3> QED
      BY <1>1, <1>2, <2>3, <3>1, <3>2
  <2>4. CASE part = "event"
    <3>1. file' = file /\ record' = [record EXCEPT ![u].events[1].payload = Altered(part)]
      BY <2>4 DEF Damage
    <3>2. [StoredRows(u) EXCEPT !.events[1].payload = Altered(part)] = StoredRows(u)'
      BY <1>3, <2>4, ChangedRows DEF StoredRows, Parts
    <3> QED
      BY <1>1, <1>2, <2>4, <3>1, <3>2
  <2> QED
    BY <2>1, <2>2, <2>3, <2>4 DEF Parts
<1>6. StoreTypeOK'
  BY <1>2, <1>4, <1>5 DEF Damage, Mishap
<1>7. UploadIInv(u)'
  BY <1>1, <1>2, <1>4, <1>5 DEF Damage, UploadIInv, UnderWay
<1>8. StoreIInv'
  BY <1>2, <1>5, <1>6, <1>7, UploadPreserves DEF Damage
<1> QED
  BY <1>4, <1>5, <1>8

LEMMA KillPreserves == StoreIInv /\ KillUploads => StoreIInv'
BY DEF StoreIInv, StoreTypeOK, UploadIInv, StoredRows, RowsOf, Value, KillUploads, UnderWay

LEMMA StoreStutters == StoreIInv /\ UNCHANGED storeVars => StoreIInv'
BY DEF StoreIInv, StoreTypeOK, UploadIInv, StoredRows, RowsOf, Value, storeVars

LEMMA UploadStore ==
  ASSUME StoreIInv, NEW u \in Uploads, Upload(u)
  PROVE  StoreIInv'
<1>1. CASE \E part \in Parts : Damage(u, part)
  BY <1>1, DamagePreserves
<1> QED
  BY <1>1, WritingPreserves, StoringPreserves DEF Upload

\* Rows are never taken back.
LEMMA RecordsStay ==
  ASSUME StoreIInv, NEW u \in Uploads, Upload(u)
  PROVE  \A v \in Uploads : record[v] # Absent => record'[v] # Absent
<1>1. CASE StoreRows(u) \/ UploadFails(u)
  BY <1>1, RowsAreStored DEF StoreRows, UploadFails, Advance, Put, StoreIInv, StoreTypeOK
<1>2. CASE \E part \in Parts : Damage(u, part)
  BY <1>2, DamagePreserves
<1> QED
  BY <1>1, <1>2 DEF Upload, Refuse, Open, WriteChunk, RefuseTooLarge, Close, Hash

LEMMA VerificationHolds == StoreIInv => VerificationIsExact
<1> SUFFICES ASSUME StoreIInv, NEW u \in Uploads, record[u] # Absent
             PROVE  Verification(u) =
                      [original |-> damaged[u] \cap {"file", "sha256"} = {},
                       artifact |-> damaged[u] \cap {"artifact", "sha256"} = {},
                       audit |-> "event" \notin damaged[u]]
  BY DEF VerificationIsExact
<1> DEFINE row == record[u]
<1>1. /\ row.sha256 = Value(u, "sha256") /\ row.artifact = Value(u, "artifact")
      /\ row.events = <<[payload |-> Value(u, "event"), previous |-> Absent,
                         hash |-> Chain(Original(u), Absent)]>>
  <2>1. row = StoredRows(u)
    BY DEF StoreIInv, UploadIInv
  <2>2. \A s, a, p :
          /\ RowsOf(u, s, a, p).sha256 = s /\ RowsOf(u, s, a, p).artifact = a
          /\ RowsOf(u, s, a, p).events = <<[payload |-> p, previous |-> Absent,
                                           hash |-> Chain(Original(u), Absent)]>>
    BY DEF RowsOf
  <2>3. row = RowsOf(u, Value(u, "sha256"), Value(u, "artifact"), Value(u, "event"))
    BY <2>1, Zenon DEF StoredRows
  <2> HIDE DEF row
  <2> QED
    BY <2>2, <2>3
<1>2. DOMAIN row.events = {1}
  BY <1>1
<1>3. /\ row.events[1].payload = Value(u, "event") /\ row.events[1].previous = Absent
      /\ row.events[1].hash = Chain(Original(u), Absent)
  BY <1>1
<1>4. damaged[u] \subseteq Parts /\ Original(u) \in Values
  BY ValuesDiffer DEF StoreIInv, StoreTypeOK
<1> HIDE DEF row
<1>5. (file[u] # Absent /\ file[u] = row.sha256) <=> damaged[u] \cap {"file", "sha256"} = {}
  BY <1>1, <1>4, ValuesDiffer DEF StoreIInv, UploadIInv, Value, Parts
<1>6. (row.artifact = row.sha256) <=> damaged[u] \cap {"artifact", "sha256"} = {}
  BY <1>1, <1>4, ValuesDiffer DEF Value, Parts
<1>7. (\A n \in DOMAIN row.events :
         /\ row.events[n].previous = IF n = 1 THEN Absent ELSE row.events[n - 1].hash
         /\ Chain(row.events[n].payload, IF n = 1 THEN Absent ELSE row.events[n - 1].hash)
              = row.events[n].hash)
      <=> "event" \notin damaged[u]
  <2>1. (Chain(Value(u, "event"), Absent) = Chain(Original(u), Absent)) <=> "event" \notin damaged[u]
    BY ValuesDiffer DEF Value, Chain, Parts
  <2> QED
    BY <1>2, <1>3, <2>1, Zenon
<1> QED
  BY <1>5, <1>6, <1>7, Zenon DEF Verification, row

LEMMA AccountingHolds == StoreIInv => FilesAreAccounted
BY DEF StoreIInv, StoreTypeOK, UploadIInv, FilesAreAccounted, UnderWay
-----------------------------------------------------------------------------
\* The submissions: the request that has found no job keeps the others out until its job is
\* committed and enqueued.
OneRunsAtATime == \A r \in Requests : pc[r] \in {"absent", "committed"} <=> running = r
AbsentIsAbsent == \A r \in Requests : pc[r] = "absent" => \A n \in 1..Len(rows) : rows[n] # KeyOf[r]
OneJobPerKey == \A m, n \in 1..Len(rows) : rows[m] = rows[n] => m = n
AnswerIsOwnJob ==
  \A r \in Requests : pc[r] \in {"committed", "answered"} =>
    answer[r] \in 1..Len(rows) /\ rows[answer[r]] = KeyOf[r]
CommittedIsNotEnqueued ==
  \A r \in Requests : pc[r] = "committed" =>
    \A i \in 1..Len(enqueued) : enqueued[i] # answer[r]

BatchIInv ==
  /\ TypeOK
  /\ OneRunsAtATime
  /\ AbsentIsAbsent
  /\ OneJobPerKey
  /\ AnswerIsOwnJob
  /\ EnqueuedAtMostOnce
  /\ CommittedIsNotEnqueued
  /\ OnlyFailuresLoseJobs

\* Appending to a sequence of distinct elements one that is not in it.
LEMMA AppendDistinct ==
  ASSUME NEW S, NEW seq \in Seq(S), NEW e \in S,
         \A i, j \in 1..Len(seq) : seq[i] = seq[j] => i = j,
         \A i \in 1..Len(seq) : seq[i] # e
  PROVE  /\ Append(seq, e) \in Seq(S) /\ Len(Append(seq, e)) = Len(seq) + 1
         /\ \A i, j \in 1..Len(Append(seq, e)) : Append(seq, e)[i] = Append(seq, e)[j] => i = j
<1>1. /\ Append(seq, e) \in Seq(S) /\ Len(Append(seq, e)) = Len(seq) + 1 /\ Len(seq) \in Nat
      /\ \A i \in 1..Len(seq) : Append(seq, e)[i] = seq[i]
      /\ Append(seq, e)[Len(seq) + 1] = e
  BY AppendProperties, LenProperties
<1>2. \A i \in 1..Len(seq) + 1 : i \in 1..Len(seq) \/ i = Len(seq) + 1
  BY <1>1
<1> QED
  BY <1>1, <1>2, Zenon

LEMMA InitBatch == Init => BatchIInv
<1> SUFFICES ASSUME Init PROVE BatchIInv
  OBVIOUS
<1>1. Len(rows) = 0 /\ Len(enqueued) = 0
  BY EmptySeq DEF Init
<1> QED
  BY <1>1, SubmissionAssumption
     DEF Init, BatchIInv, OneRunsAtATime, AbsentIsAbsent, OneJobPerKey, AnswerIsOwnJob,
         CommittedIsNotEnqueued, TypeOK, JobNumbers, EnqueuedAtMostOnce, OnlyFailuresLoseJobs

\* The row of a committing request, whether its answer follows or the commit raises: the
\* numbers of the earlier jobs stay, and its key had none.
LEMMA NewRow ==
  ASSUME BatchIInv, NEW r \in Requests, pc[r] = "absent", rows' = Append(rows, KeyOf[r])
  PROVE  /\ rows' \in Seq(Keys) /\ Len(rows') = Len(rows) + 1 /\ Len(rows) \in Nat
         /\ \A n \in 1..Len(rows) : n \in 1..Len(rows') /\ rows'[n] = rows[n]
         /\ rows'[Len(rows) + 1] = KeyOf[r]
         /\ OneJobPerKey'
         /\ \A seq \in Seq(1..Len(rows)) : seq \in Seq(1..Len(rows'))
<1>1. rows \in Seq(Keys) /\ KeyOf[r] \in Keys
  BY SubmissionAssumption DEF BatchIInv, TypeOK
<1>2. \A n \in 1..Len(rows) : rows[n] # KeyOf[r]
  BY DEF BatchIInv, AbsentIsAbsent
<1>3. \A m, n \in 1..Len(rows) : rows[m] = rows[n] => m = n
  BY Zenon DEF BatchIInv, OneJobPerKey
<1>4. /\ rows' \in Seq(Keys) /\ Len(rows') = Len(rows) + 1
      /\ \A m, n \in 1..Len(rows') : rows'[m] = rows'[n] => m = n
  <2>1. /\ Append(rows, KeyOf[r]) \in Seq(Keys)
        /\ Len(Append(rows, KeyOf[r])) = Len(rows) + 1
        /\ \A m, n \in 1..Len(Append(rows, KeyOf[r])) :
             Append(rows, KeyOf[r])[m] = Append(rows, KeyOf[r])[n] => m = n
    BY <1>1, <1>2, <1>3, AppendDistinct, Zenon
  <2> QED
    BY <2>1
<1>5. /\ Len(rows) \in Nat
      /\ \A n \in 1..Len(rows) : rows'[n] = rows[n]
      /\ rows'[Len(rows) + 1] = KeyOf[r]
  BY <1>1, AppendProperties, LenProperties
<1>6. 1..Len(rows) \subseteq 1..Len(rows')
  BY <1>4, <1>5
<1>7. \A seq \in Seq(1..Len(rows)) : seq \in Seq(1..Len(rows'))
  BY <1>6, SeqMonotonic, Zenon
<1> QED
  BY <1>4, <1>5, <1>6, <1>7, Zenon DEF OneJobPerKey

\* The old jobs are enqueued or lost as before, and the new one is lost by its request.
LEMMA NewRowLoses ==
  ASSUME BatchIInv, NEW r \in Requests, pc[r] = "absent", rows' = Append(rows, KeyOf[r]),
         enqueued' = enqueued, pc'[r] \in {"committed", "failed"},
         \A q \in Requests \ {r} : pc'[q] = pc[q]
  PROVE  OnlyFailuresLoseJobs'
<1> DEFINE Lost(n) == \/ \E i \in 1..Len(enqueued) : enqueued[i] = n
                      \/ \E q \in Requests : KeyOf[q] = rows'[n] /\ pc'[q] \in {"committed", "failed"}
<1>1. /\ Len(rows') = Len(rows) + 1 /\ Len(rows) \in Nat
      /\ \A n \in 1..Len(rows) : rows'[n] = rows[n]
      /\ rows'[Len(rows) + 1] = KeyOf[r]
  BY NewRow
<1>2. ASSUME NEW n \in 1..Len(rows)
      PROVE  Lost(n)
  <2>1. CASE \E i \in 1..Len(enqueued) : enqueued[i] = n
    BY <2>1, Zenon
  <2>2. CASE \E q \in Requests : KeyOf[q] = rows[n] /\ pc[q] \in {"committed", "failed"}
    <3>1. PICK q \in Requests : KeyOf[q] = rows[n] /\ pc[q] \in {"committed", "failed"}
      BY <2>2
    <3>2. KeyOf[q] = rows'[n] /\ pc'[q] \in {"committed", "failed"}
      BY <1>1, <3>1
    <3> QED
      BY <3>2, Zenon
  <2> QED
    BY <2>1, <2>2, Zenon DEF BatchIInv, OnlyFailuresLoseJobs, JobNumbers
<1>3. Lost(Len(rows) + 1)
  BY <1>1, Zenon
<1>4. \A n \in 1..Len(rows') : n \in 1..Len(rows) \/ n = Len(rows) + 1
  BY <1>1
<1> HIDE DEF Lost
<1>5. \A n \in 1..Len(rows') : Lost(n)
  BY <1>2, <1>3, <1>4, Zenon
<1> QED
  BY <1>5 DEF Lost, OnlyFailuresLoseJobs, JobNumbers

\* Nothing but the state of a request changes: the jobs stay lost or enqueued.
LEMMA SameJobs ==
  ASSUME BatchIInv, rows' = rows, enqueued' = enqueued,
         \A q \in Requests : pc[q] \in {"committed", "failed"} => pc'[q] \in {"committed", "failed"}
  PROVE  OneJobPerKey' /\ EnqueuedAtMostOnce' /\ OnlyFailuresLoseJobs'
<1>1. OneJobPerKey' /\ EnqueuedAtMostOnce'
  BY Zenon DEF BatchIInv, OneJobPerKey, EnqueuedAtMostOnce
<1> QED
  BY <1>1, Zenon DEF BatchIInv, OnlyFailuresLoseJobs, JobNumbers

LEMMA FindBatch ==
  ASSUME BatchIInv, NEW r \in Requests, FindExisting(r) \/ FindNone(r)
  PROVE  BatchIInv'
<1>1. /\ pc[r] = "new" /\ running = None
      /\ UNCHANGED <<rows, queue, jobTenants, published, faults, enqueued>>
  BY DEF FindExisting, FindNone, Goto
<1>2. \A q \in Requests : pc[q] \notin {"absent", "committed"}
  BY <1>1, SubmissionAssumption, Zenon DEF BatchIInv, OneRunsAtATime
<1>3. CASE FindExisting(r)
  <2>1. PICK n \in 1..Len(rows) : rows[n] = KeyOf[r] /\ answer' = [answer EXCEPT ![r] = n]
    BY <1>3 DEF FindExisting, Existing, JobNumbers
  <2>2. running' = running /\ pc' = [pc EXCEPT ![r] = "answered"]
    BY <1>3 DEF FindExisting, Goto
  <2>3. TypeOK'
    BY <1>1, <2>1, <2>2 DEF BatchIInv, TypeOK, JobNumbers
  <2>4. \A q \in Requests : pc'[q] \notin {"absent", "committed"} /\ running' # q
    BY <1>1, <1>2, <2>2, SubmissionAssumption DEF BatchIInv, TypeOK
  <2>5. AnswerIsOwnJob'
    BY <1>1, <2>1, <2>2 DEF BatchIInv, TypeOK, AnswerIsOwnJob, JobNumbers
  <2>6. OneJobPerKey' /\ EnqueuedAtMostOnce' /\ OnlyFailuresLoseJobs'
    BY <1>1, <2>2, SameJobs DEF BatchIInv, TypeOK
  <2> QED
    BY <2>3, <2>4, <2>5, <2>6
       DEF BatchIInv, OneRunsAtATime, AbsentIsAbsent, CommittedIsNotEnqueued
<1>4. CASE FindNone(r)
  <2>1. running' = r /\ pc' = [pc EXCEPT ![r] = "absent"] /\ answer' = answer
    BY <1>4 DEF FindNone, Goto
  <2>2. TypeOK'
    BY <1>1, <2>1 DEF BatchIInv, TypeOK, JobNumbers
  <2>3. OneRunsAtATime'
    BY <1>2, <2>1 DEF BatchIInv, TypeOK, OneRunsAtATime
  <2>4. AbsentIsAbsent'
    <3>1. \A n \in 1..Len(rows) : rows[n] # KeyOf[r]
      BY <1>4 DEF FindNone, Existing, JobNumbers
    <3> QED
      BY <1>1, <1>2, <2>1, <3>1 DEF BatchIInv, TypeOK, AbsentIsAbsent
  <2>5. AnswerIsOwnJob' /\ CommittedIsNotEnqueued'
    BY <1>1, <1>2, <2>1 DEF BatchIInv, TypeOK, AnswerIsOwnJob, CommittedIsNotEnqueued
  <2>6. OneJobPerKey' /\ EnqueuedAtMostOnce' /\ OnlyFailuresLoseJobs'
    BY <1>1, <2>1, SameJobs DEF BatchIInv, TypeOK
  <2> QED
    BY <2>2, <2>3, <2>4, <2>5, <2>6, Zenon DEF BatchIInv
<1> QED
  BY <1>3, <1>4

LEMMA CommitBatch ==
  ASSUME BatchIInv, NEW r \in Requests, Commit(r)
  PROVE  BatchIInv'
<1>1. /\ rows' = Append(rows, KeyOf[r])
      /\ UNCHANGED <<running, queue, jobTenants, published, faults, enqueued>>
      /\ pc[r] = "absent" /\ pc' = [pc EXCEPT ![r] = "committed"]
      /\ answer' = [answer EXCEPT ![r] = Len(rows) + 1]
  BY DEF Commit, Goto
<1>2. /\ rows' \in Seq(Keys) /\ Len(rows') = Len(rows) + 1 /\ Len(rows) \in Nat
      /\ \A n \in 1..Len(rows) : n \in 1..Len(rows') /\ rows'[n] = rows[n]
      /\ rows'[Len(rows) + 1] = KeyOf[r]
      /\ OneJobPerKey'
      /\ \A seq \in Seq(1..Len(rows)) : seq \in Seq(1..Len(rows'))
  BY <1>1, NewRow
<1>3. TypeOK'
  BY <1>1, <1>2 DEF BatchIInv, TypeOK, JobNumbers
<1>4. \A i \in 1..Len(enqueued) : enqueued[i] \in 1..Len(rows)
  BY ElementOfSeq DEF BatchIInv, TypeOK, JobNumbers
<1>5. running = r /\ \A q \in Requests \ {r} : pc[q] \notin {"absent", "committed"}
  BY <1>1 DEF BatchIInv, OneRunsAtATime
<1>6. OneRunsAtATime' /\ AbsentIsAbsent'
  BY <1>1, <1>5 DEF BatchIInv, TypeOK, OneRunsAtATime, AbsentIsAbsent
<1>7. AnswerIsOwnJob'
  BY <1>1, <1>2 DEF BatchIInv, TypeOK, AnswerIsOwnJob
<1>8. CommittedIsNotEnqueued'
  BY <1>1, <1>2, <1>4, <1>5 DEF BatchIInv, TypeOK, CommittedIsNotEnqueued
<1>9. OnlyFailuresLoseJobs'
  <2>1. pc'[r] = "committed" /\ \A q \in Requests \ {r} : pc'[q] = pc[q]
    BY <1>1 DEF BatchIInv, TypeOK
  <2> QED
    BY <1>1, <2>1, NewRowLoses
<1>10. EnqueuedAtMostOnce'
  BY <1>1, Zenon DEF BatchIInv, EnqueuedAtMostOnce
<1> QED
  BY <1>2, <1>3, <1>6, <1>7, <1>8, <1>9, <1>10, Zenon DEF BatchIInv

LEMMA FailBatch ==
  ASSUME BatchIInv, NEW r \in Requests, DatabaseFails(r)
  PROVE  BatchIInv'
<1>1. /\ pc[r] \in {"absent", "committed"} /\ pc' = [pc EXCEPT ![r] = "failed"]
      /\ answer' = [answer EXCEPT ![r] = 0] /\ running' = None
      /\ UNCHANGED <<queue, jobTenants, published, enqueued>>
      /\ faults' \in 0..MaxFaults
  BY SubmissionAssumption DEF DatabaseFails, Fault, BatchIInv, TypeOK
<1>2. /\ running = r
      /\ \A q \in Requests : pc'[q] \notin {"absent", "committed"} /\ running' # q
      /\ pc'[r] = "failed" /\ \A q \in Requests \ {r} : pc'[q] = pc[q]
  BY <1>1, SubmissionAssumption DEF BatchIInv, TypeOK, OneRunsAtATime
<1>3. OneRunsAtATime' /\ AbsentIsAbsent' /\ CommittedIsNotEnqueued'
  BY <1>2 DEF OneRunsAtATime, AbsentIsAbsent, CommittedIsNotEnqueued
<1>4. CASE rows' = rows
  <2>1. TypeOK' /\ AnswerIsOwnJob'
    BY <1>1, <1>2, <1>4 DEF BatchIInv, TypeOK, AnswerIsOwnJob, JobNumbers
  <2>2. OneJobPerKey' /\ EnqueuedAtMostOnce' /\ OnlyFailuresLoseJobs'
    BY <1>1, <1>2, <1>4, SameJobs
  <2> QED
    BY <1>3, <2>1, <2>2, Zenon DEF BatchIInv
<1>5. CASE pc[r] = "absent" /\ rows' = Append(rows, KeyOf[r])
  <2>1. /\ rows' \in Seq(Keys) /\ Len(rows') = Len(rows) + 1 /\ Len(rows) \in Nat
        /\ \A n \in 1..Len(rows) : n \in 1..Len(rows') /\ rows'[n] = rows[n]
        /\ OneJobPerKey'
        /\ \A seq \in Seq(1..Len(rows)) : seq \in Seq(1..Len(rows'))
    BY <1>5, NewRow
  <2>2. TypeOK'
    BY <1>1, <1>5, <2>1 DEF BatchIInv, TypeOK, JobNumbers
  <2>3. AnswerIsOwnJob'
    BY <1>1, <1>2, <2>1 DEF BatchIInv, TypeOK, AnswerIsOwnJob
  <2>4. OnlyFailuresLoseJobs'
    BY <1>1, <1>2, <1>5, NewRowLoses
  <2>5. EnqueuedAtMostOnce'
    BY <1>1, Zenon DEF BatchIInv, EnqueuedAtMostOnce
  <2> QED
    BY <1>3, <2>1, <2>2, <2>3, <2>4, <2>5, Zenon DEF BatchIInv
<1> QED
  BY <1>4, <1>5 DEF DatabaseFails

LEMMA PostBatch ==
  ASSUME BatchIInv, NEW r \in Requests, Post(r)
  PROVE  BatchIInv'
<1>1. /\ pc[r] = "committed" /\ pc' = [pc EXCEPT ![r] = "answered"] /\ running' = None
      /\ UNCHANGED <<rows, answer, faults>>
      /\ jobTenants' = jobTenants \cup {answer[r]} /\ published' = published \cup {answer[r]}
      /\ queue' = Append(queue, answer[r]) /\ enqueued' = Append(enqueued, answer[r])
  BY DEF Post, Goto
<1>2. /\ answer[r] \in JobNumbers /\ rows[answer[r]] = KeyOf[r]
      /\ queue \in Seq(JobNumbers) /\ enqueued \in Seq(JobNumbers)
      /\ \A i \in 1..Len(enqueued) : enqueued[i] # answer[r]
  BY <1>1 DEF BatchIInv, TypeOK, AnswerIsOwnJob, CommittedIsNotEnqueued, JobNumbers
<1>3. /\ enqueued' \in Seq(JobNumbers) /\ Len(enqueued') = Len(enqueued) + 1
      /\ \A i, j \in 1..Len(enqueued') : enqueued'[i] = enqueued'[j] => i = j
  <2>1. \A i, j \in 1..Len(enqueued) : enqueued[i] = enqueued[j] => i = j
    BY Zenon DEF BatchIInv, EnqueuedAtMostOnce
  <2> QED
    <3>1. /\ Append(enqueued, answer[r]) \in Seq(JobNumbers)
          /\ Len(Append(enqueued, answer[r])) = Len(enqueued) + 1
          /\ \A i, j \in 1..Len(Append(enqueued, answer[r])) :
               Append(enqueued, answer[r])[i] = Append(enqueued, answer[r])[j] => i = j
      BY <1>2, <2>1, AppendDistinct, Zenon
    <3> QED
      BY <1>1, <3>1
<1>4. /\ queue' \in Seq(JobNumbers) /\ Len(enqueued) \in Nat
      /\ \A i \in 1..Len(enqueued) : i \in 1..Len(enqueued') /\ enqueued'[i] = enqueued[i]
      /\ Len(enqueued) + 1 \in 1..Len(enqueued') /\ enqueued'[Len(enqueued) + 1] = answer[r]
  BY <1>1, <1>2, <1>3, AppendProperties, LenProperties
<1>5. TypeOK'
  BY <1>1, <1>2, <1>3, <1>4 DEF BatchIInv, TypeOK, JobNumbers
<1>6. \A q \in Requests : pc'[q] \notin {"absent", "committed"} /\ running' # q
  BY <1>1, SubmissionAssumption DEF BatchIInv, TypeOK, OneRunsAtATime
<1>7. OneRunsAtATime' /\ AbsentIsAbsent' /\ CommittedIsNotEnqueued'
  BY <1>6 DEF OneRunsAtATime, AbsentIsAbsent, CommittedIsNotEnqueued
<1>8. AnswerIsOwnJob'
  BY <1>1, <1>2 DEF BatchIInv, TypeOK, AnswerIsOwnJob
<1>9. ASSUME NEW n \in JobNumbers
      PROVE  \/ \E i \in 1..Len(enqueued') : enqueued'[i] = n
             \/ \E q \in Requests : KeyOf[q] = rows[n] /\ pc'[q] \in {"committed", "failed"}
  <2>1. CASE \E i \in 1..Len(enqueued) : enqueued[i] = n
    BY <1>4, <2>1, Zenon
  <2>2. CASE \E q \in Requests \ {r} : KeyOf[q] = rows[n] /\ pc[q] \in {"committed", "failed"}
    BY <1>1, <2>2 DEF BatchIInv, TypeOK
  <2>3. CASE KeyOf[r] = rows[n]
    <3>1. n = answer[r]
      BY <1>2, <2>3 DEF BatchIInv, OneJobPerKey, JobNumbers
    <3> QED
      BY <1>4, <3>1, Zenon
  <2> QED
    BY <2>1, <2>2, <2>3 DEF BatchIInv, OnlyFailuresLoseJobs
<1>10. OnlyFailuresLoseJobs'
  BY <1>1, <1>9, Zenon DEF OnlyFailuresLoseJobs, JobNumbers
<1>11. OneJobPerKey' /\ EnqueuedAtMostOnce'
  BY <1>1, <1>3, Zenon DEF BatchIInv, OneJobPerKey, EnqueuedAtMostOnce
<1> QED
  BY <1>5, <1>7, <1>8, <1>10, <1>11, Zenon DEF BatchIInv

LEMMA RestartBatch ==
  ASSUME BatchIInv, Restart
  PROVE  BatchIInv'
<1>1. /\ running' = None /\ queue' = <<>> /\ jobTenants' = {} /\ published' = {}
      /\ pc' = [r \in Requests |-> IF r = running THEN "failed" ELSE pc[r]]
      /\ answer' = [r \in Requests |-> IF r = running THEN 0 ELSE answer[r]]
      /\ rows' = rows /\ enqueued' = enqueued /\ faults' \in 0..MaxFaults
  BY SubmissionAssumption DEF Restart, Fault, BatchIInv, TypeOK
<1>2. TypeOK'
  BY <1>1, EmptySeq DEF BatchIInv, TypeOK, JobNumbers
<1>3. \A q \in Requests : pc'[q] \notin {"absent", "committed"} /\ running' # q
  BY <1>1, SubmissionAssumption DEF BatchIInv, TypeOK, OneRunsAtATime
<1>4. OneRunsAtATime' /\ AbsentIsAbsent' /\ CommittedIsNotEnqueued'
  BY <1>3 DEF OneRunsAtATime, AbsentIsAbsent, CommittedIsNotEnqueued
<1>5. AnswerIsOwnJob'
  BY <1>1 DEF BatchIInv, TypeOK, AnswerIsOwnJob
<1>6. \A q \in Requests : pc[q] \in {"committed", "failed"} => pc'[q] \in {"committed", "failed"}
  BY <1>1 DEF BatchIInv, OneRunsAtATime
<1>7. OneJobPerKey' /\ EnqueuedAtMostOnce' /\ OnlyFailuresLoseJobs'
  BY <1>1, <1>6, SameJobs
<1> QED
  BY <1>2, <1>4, <1>5, <1>7, Zenon DEF BatchIInv

LEMMA BatchStutters ==
  ASSUME BatchIInv, UNCHANGED vars
  PROVE  BatchIInv'
<1>1. TypeOK'
  BY DEF BatchIInv, vars, TypeOK, JobNumbers
<1>2. OneRunsAtATime' /\ AbsentIsAbsent'
  BY DEF BatchIInv, vars, OneRunsAtATime, AbsentIsAbsent
<1>3. OneJobPerKey' /\ EnqueuedAtMostOnce'
  BY DEF BatchIInv, vars, OneJobPerKey, EnqueuedAtMostOnce
<1>4. AnswerIsOwnJob'
  BY DEF BatchIInv, vars, AnswerIsOwnJob
<1>5. CommittedIsNotEnqueued'
  BY DEF BatchIInv, vars, CommittedIsNotEnqueued
<1>6. OnlyFailuresLoseJobs'
  BY DEF BatchIInv, vars, OnlyFailuresLoseJobs, JobNumbers
<1> QED
  BY <1>1, <1>2, <1>3, <1>4, <1>5, <1>6, Zenon DEF BatchIInv

LEMMA BatchAnswersAgree == BatchIInv => AnswersAgree
<1> SUFFICES ASSUME BatchIInv PROVE AnswersAgree
  OBVIOUS
<1>1. \A r \in Requests : pc[r] = "answered" =>
        answer[r] \in 1..Len(rows) /\ rows[answer[r]] = KeyOf[r]
  BY DEF BatchIInv, AnswerIsOwnJob
<1>2. \A m, n \in 1..Len(rows) : rows[m] = rows[n] => m = n
  BY Zenon DEF BatchIInv, OneJobPerKey
<1> QED
  BY <1>1, <1>2, Zenon DEF AnswersAgree, JobNumbers
-----------------------------------------------------------------------------
\* Together: a request past its look-up of the evidence has evidence, and so has every job.
EvidenceIsThere ==
  /\ \A r \in Requests : pc[r] = "absent" => record[EvidenceOf[KeyOf[r]]] # Absent
  /\ \A n \in 1..Len(rows) : record[EvidenceOf[rows[n]]] # Absent

SubmissionIInv == StoreIInv /\ BatchIInv /\ EvidenceIsThere

LEMMA InitSubmission == SubmissionInit => SubmissionIInv
<1> SUFFICES ASSUME SubmissionInit PROVE SubmissionIInv
  OBVIOUS
<1>1. StoreIInv /\ BatchIInv
  BY InitStore, InitBatch DEF SubmissionInit
<1>2. EvidenceIsThere
  <2>1. Len(rows) = 0
    BY EmptySeq DEF SubmissionInit, Init
  <2> QED
    BY <2>1 DEF SubmissionInit, Init, EvidenceIsThere
<1> QED
  BY <1>1, <1>2 DEF SubmissionIInv

\* Evidence stays, so that only a new request or a new job needs a look at its own.
LEMMA EvidenceStays ==
  ASSUME SubmissionIInv, TypeOK',
         \A u \in Uploads : record[u] # Absent => record'[u] # Absent,
         \A r \in Requests : pc'[r] = "absent" /\ pc[r] # "absent" =>
           record[EvidenceOf[KeyOf[r]]] # Absent,
         \/ rows' = rows
         \/ \E r \in Requests : pc[r] = "absent" /\ rows' = Append(rows, KeyOf[r])
  PROVE  EvidenceIsThere'
<1>1. \A key \in Keys : EvidenceOf[key] \in Uploads
  BY EvidenceAssumption
<1>2. \A r \in Requests : KeyOf[r] \in Keys
  BY SubmissionAssumption
<1>3. rows \in Seq(Keys) /\ Len(rows) \in Nat /\ \A n \in 1..Len(rows) : rows[n] \in Keys
  BY ElementOfSeq, LenProperties DEF SubmissionIInv, BatchIInv, TypeOK
<1>4. \A r \in Requests : pc'[r] = "absent" => record'[EvidenceOf[KeyOf[r]]] # Absent
  BY <1>1, <1>2 DEF SubmissionIInv, EvidenceIsThere
<1>5. \A n \in 1..Len(rows) : record'[EvidenceOf[rows[n]]] # Absent
  BY <1>1, <1>3 DEF SubmissionIInv, EvidenceIsThere
<1>6. CASE rows' = rows
  BY <1>4, <1>5, <1>6 DEF EvidenceIsThere
<1>7. ASSUME NEW r \in Requests, pc[r] = "absent", rows' = Append(rows, KeyOf[r])
      PROVE  EvidenceIsThere'
  <2>1. /\ Len(rows') = Len(rows) + 1
        /\ \A n \in 1..Len(rows) : rows'[n] = rows[n]
        /\ rows'[Len(rows) + 1] = KeyOf[r]
    BY <1>2, <1>3, <1>7, AppendProperties
  <2>2. record'[EvidenceOf[KeyOf[r]]] # Absent
    BY <1>1, <1>2, <1>7 DEF SubmissionIInv, EvidenceIsThere
  <2>3. \A n \in 1..Len(rows') : n \in 1..Len(rows) \/ n = Len(rows) + 1
    BY <1>3, <2>1
  <2>4. \A n \in 1..Len(rows') : record'[EvidenceOf[rows'[n]]] # Absent
    BY <1>5, <2>1, <2>2, <2>3
  <2> QED
    BY <1>4, <2>4 DEF EvidenceIsThere
<1> QED
  BY <1>6, <1>7

LEMMA SubmissionStep == SubmissionIInv /\ [SubmissionNext]_<<storeVars, vars>> => SubmissionIInv'
<1> SUFFICES ASSUME SubmissionIInv, [SubmissionNext]_<<storeVars, vars>>
             PROVE  SubmissionIInv'
  OBVIOUS
<1> USE DEF SubmissionIInv
<1>1. ASSUME NEW r \in Requests, Submit(r)
      PROVE  SubmissionIInv'
  <2>1. StoreIInv' /\ record' = record
    BY <1>1, StoreStutters DEF Submit, storeVars
  <2>2. BatchIInv'
    BY <1>1, FindBatch, CommitBatch, FailBatch, PostBatch DEF Submit, Select
  <2>3. \A q \in Requests : pc'[q] = "absent" /\ pc[q] # "absent" =>
          record[EvidenceOf[KeyOf[q]]] # Absent
    <3>1. pc \in [Requests -> {"new", "absent", "committed", "answered", "failed"}]
      BY DEF BatchIInv, TypeOK
    <3>2. CASE Select(r)
      BY <3>1, <3>2 DEF Select, Found, FindExisting, FindNone, Goto
    <3>3. CASE Commit(r) \/ DatabaseFails(r) \/ Post(r)
      BY <3>1, <3>3 DEF Commit, DatabaseFails, Post, Goto
    <3> QED
      BY <1>1, <3>2, <3>3 DEF Submit
  <2>4. \/ rows' = rows
        \/ pc[r] = "absent" /\ rows' = Append(rows, KeyOf[r])
    <3>1. CASE Select(r) \/ Post(r)
      BY <3>1 DEF Select, FindExisting, FindNone, Post
    <3>2. CASE Commit(r)
      BY <3>2, Zenon DEF Commit, Goto
    <3>3. CASE DatabaseFails(r)
      BY <3>3 DEF DatabaseFails
    <3> QED
      BY <1>1, <3>1, <3>2, <3>3, Zenon DEF Submit
  <2>5. EvidenceIsThere'
    BY <2>1, <2>2, <2>3, <2>4, EvidenceStays DEF BatchIInv
  <2> QED
    BY <2>1, <2>2, <2>5
<1>2. ASSUME NEW u \in Uploads, UploadStep(u)
      PROVE  SubmissionIInv'
  <2>1. StoreIInv' /\ \A v \in Uploads : record[v] # Absent => record'[v] # Absent
    BY <1>2, UploadStore, RecordsStay DEF UploadStep
  <2>2. BatchIInv' /\ rows' = rows /\ pc' = pc
    BY <1>2, BatchStutters DEF UploadStep, vars
  <2>3. EvidenceIsThere'
    BY <2>1, <2>2, EvidenceStays DEF BatchIInv
  <2> QED
    BY <2>1, <2>2, <2>3
<1>3. CASE RestartProcess
  <2>1. StoreIInv' /\ record' = record
    BY <1>3, KillPreserves DEF RestartProcess, KillUploads
  <2>2. BatchIInv' /\ rows' = rows
    BY <1>3, RestartBatch DEF RestartProcess, Restart
  <2>3. \A q \in Requests : pc'[q] = "absent" => pc[q] = "absent"
    BY <1>3 DEF RestartProcess, Restart
  <2>4. EvidenceIsThere'
    BY <2>1, <2>2, <2>3, EvidenceStays DEF BatchIInv
  <2> QED
    BY <2>1, <2>2, <2>4
<1>4. CASE UNCHANGED <<storeVars, vars>>
  <2>1. StoreIInv' /\ BatchIInv'
    BY <1>4, StoreStutters, BatchStutters
  <2>2. record' = record /\ rows' = rows /\ pc' = pc
    BY <1>4 DEF storeVars, vars
  <2>3. EvidenceIsThere'
    BY <2>1, <2>2, EvidenceStays DEF BatchIInv
  <2> QED
    BY <2>1, <2>3
<1> QED
  BY <1>1, <1>2, <1>3, <1>4 DEF SubmissionNext

LEMMA SubmissionInvariant == SubmissionSpec => []SubmissionIInv
BY InitSubmission, SubmissionStep, PTL DEF SubmissionSpec

\* A file that was not damaged is whole as long as its rows are there.
LEMMA JobsHaveEvidence == SubmissionIInv => EnqueuedHasEvidence
<1> SUFFICES ASSUME SubmissionIInv, NEW i \in 1..Len(enqueued)
             PROVE  LET u == EvidenceOf[rows[enqueued[i]]]
                    IN  /\ record[u] # Absent
                        /\ "file" \notin damaged[u] => file[u] = Original(u)
  BY DEF EnqueuedHasEvidence
<1>1. enqueued[i] \in 1..Len(rows) /\ rows \in Seq(Keys)
  BY ElementOfSeq DEF SubmissionIInv, BatchIInv, TypeOK, JobNumbers
<1>2. EvidenceOf[rows[enqueued[i]]] \in Uploads
  BY <1>1, ElementOfSeq, EvidenceAssumption
<1>3. record[EvidenceOf[rows[enqueued[i]]]] # Absent
  BY <1>1 DEF SubmissionIInv, EvidenceIsThere
<1> QED
  BY <1>2, <1>3 DEF SubmissionIInv, StoreIInv, UploadIInv
-----------------------------------------------------------------------------
(* The state of the uploads, of what they leave behind and of the submissions is what the
   model says it is: total counts chunks, a job number names a row, the rows of an
   evidence have the form upload_evidence gives them. *)
THEOREM SubmissionIsTyped == SubmissionSpec => []SubmissionTypeOK
<1>1. SubmissionIInv => SubmissionTypeOK
  BY DEF SubmissionIInv, StoreIInv, BatchIInv, SubmissionTypeOK
<1> QED
  BY <1>1, SubmissionInvariant, PTL

(* submit_transcription gives a key one job and every answer for the key names it, whatever
   failed or was restarted in between. *)
THEOREM SubmissionAnswersAgree == SubmissionSpec => []AnswersAgree
<1>1. SubmissionIInv => AnswersAgree
  BY BatchAnswersAgree DEF SubmissionIInv
<1> QED
  BY <1>1, SubmissionInvariant, PTL

(* A job is put on a queue at most once, also when its submission is repeated. *)
THEOREM SubmissionEnqueuesOnce == SubmissionSpec => []EnqueuedAtMostOnce
<1>1. SubmissionIInv => EnqueuedAtMostOnce
  BY DEF SubmissionIInv, BatchIInv
<1> QED
  BY <1>1, SubmissionInvariant, PTL

(* A committed job that was never enqueued belongs to a submission that has failed or is
   still under way. *)
THEOREM SubmissionLosesByFailure == SubmissionSpec => []OnlyFailuresLoseJobs
<1>1. SubmissionIInv => OnlyFailuresLoseJobs
  BY DEF SubmissionIInv, BatchIInv
<1> QED
  BY <1>1, SubmissionInvariant, PTL

(* verify_integrity reports exactly the parts of an evidence that were damaged. *)
THEOREM SubmissionVerificationIsExact == SubmissionSpec => []VerificationIsExact
<1>1. SubmissionIInv => VerificationIsExact
  BY VerificationHolds DEF SubmissionIInv
<1> QED
  BY <1>1, SubmissionInvariant, PTL

(* Evidence has its whole file, and a file without evidence belongs to an upload that is
   under way or has failed. *)
THEOREM SubmissionFilesAreAccounted == SubmissionSpec => []FilesAreAccounted
<1>1. SubmissionIInv => FilesAreAccounted
  BY AccountingHolds DEF SubmissionIInv
<1> QED
  BY <1>1, SubmissionInvariant, PTL

(* A worker is given no job without an original. *)
THEOREM SubmissionHasEvidence == SubmissionSpec => []EnqueuedHasEvidence
<1>1. SubmissionIInv => EnqueuedHasEvidence
  BY JobsHaveEvidence
<1> QED
  BY <1>1, SubmissionInvariant, PTL
=============================================================================
