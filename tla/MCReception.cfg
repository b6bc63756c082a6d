CONSTANTS
  r1 = r1  r2 = r2  t1 = t1
  Request = {r1, r2}
  MaxChannel = 1
  None = None
  Session = {r1}
  Sent = {t1}
  Files = 2
  Empty = {1}
  Backlog = 1
  Silence = Silence
SPECIFICATION ReceptionSpec
INVARIANTS ReceptionTypeOK ReceivedIsAgreed StartedIsTold StaleIsExpiring RecordsKept EndedIsRecorded
CHECK_DEADLOCK FALSE
