\* Three clients, two descriptors; reads and writes take several rounds.
SPECIFICATION FairSpec
CONSTANTS
  a = a  b = b  d = d  None = None  Listen = listen
  Client = {a, b, d}  Requests <- Mixed  Cuts <- MixedCuts  Leaving = {b}
  ReadSize = 5  SendRoom = 1  Answer = 2  MaxFds = 2
INVARIANTS ReadsWholeRequests NoLostEdge
PROPERTIES Answered QueuedIsAccepted
CHECK_DEADLOCK FALSE
