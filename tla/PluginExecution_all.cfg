\* Two tasks on one slot of each side, a stop of the bridge or a restart of the API,
\* runs that break, lost clients and clients that lose patience.
SPECIFICATION FairSpec
CONSTANTS
  Requests = {r1, r2}
  r1 = r1
  r2 = r2
  BridgeSlots = 1
  CacheSize = 1
  MaxRecords = 1
  ApiSlots = 1
  MaxDisruptions = 1
  Impatient = TRUE
INVARIANT SequenceAccepted
INVARIANT OutcomeIsTheJobs
INVARIANT BridgeSlotsAccounted
PROPERTY ImplementsRunService
PROPERTY RunEnds
CHECK_DEADLOCK FALSE
