CONSTANTS
  f1 = f1
  f2 = f2
  q1 = q1
  q2 = q2
  Absent = Absent
  Files <- TwoFiles
  Listings <- FirstOrNone
  Queues <- TwoQueues
  QueueOf <- SharedOrNot
  MaxEdits = 3
SPECIFICATION FairSpec
INVARIANTS
  TypeOK
  NeverUnserved
  NoStrays
  UpToDate
PROPERTIES
  EditsSettle
