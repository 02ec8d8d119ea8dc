CONSTANTS
  client = client
  feedback = feedback
  q1 = q1
  q2 = q2
  User = {client, feedback}
  Client = client
  Request = {q1, q2}
  Stats = {1, 2, 3, 4}
  FailedTunnel = {4}
  Invalid = {2, 4}
  MaxStoreRecords = 2
  MaxSendRecords = 0
  MaxFaults = 2
SPECIFICATION FairSpec
INVARIANTS
  NoStatLost
  NotReportedTwiceAtOnce
  DuplicatesExplained
PROPERTY EventuallyReported
