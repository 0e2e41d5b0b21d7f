CONSTANTS
  r1 = r1
  r2 = r2
  r3 = r3
  r4 = r4
  r5 = r5
  a = a
  b = b
  None = None
  Requests <- MCRequests
  Keys = {a, b}
  KeyOf <- MCKeyOf
  MaxFaults = 1
SPECIFICATION Spec
INVARIANTS
  AnsweredWasEnqueued
CHECK_DEADLOCK FALSE
