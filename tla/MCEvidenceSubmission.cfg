CONSTANTS
  r1 = r1
  r2 = r2
  r3 = r3
  r4 = r4
  a = a
  b = b
  u1 = u1
  u2 = u2
  None = None
  Absent = Absent
  Requests <- MCRequests
  Keys = {a, b}
  KeyOf <- MCKeyOf
  MaxFaults = 2
  Uploads = {u1, u2}
  Chunks <- MCChunks
  MaxChunks = 2
  MaxMishaps = 2
  EvidenceOf <- MCEvidenceOf
SPECIFICATION SubmissionSpec
INVARIANTS
  SubmissionTypeOK
  AnswersAgree
  EnqueuedAtMostOnce
  OnlyFailuresLoseJobs
  VerificationIsExact
  FilesAreAccounted
  EnqueuedHasEvidence
CHECK_DEADLOCK FALSE
