\* Three addresses; counters come, go and count during the call.
SPECIFICATION ShowSpec
CONSTANTS
  i1 = i1  i2 = i2  i3 = i3  None = None
  Order <- WalkOrder  Bytes = {0, 1}  Limits = {0, 1}  MaxChanges = 2
INVARIANTS ListFits ListIsFaithful SummaryAgrees
