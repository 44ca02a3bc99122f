\* One operator adds and deletes two clients that are at home and sending, each
\* with limits of its own.
SPECIFICATION Spec
CONSTANTS
  a = a  b = b  i1 = i1  i2 = i2  zero = zero  None = None
  MAC = {a, b}  IP = {i1, i2}  Leases <- HomeLeases  Unspecified = zero
  CPU = {c1}  Proc = {op}  Daemon = daemon
  Commands = {"add_ip", "add_mac", "del_ip", "del_mac"}  Traffic = {"up", "down"}
  Timeout = {0}  MaxTime = 0  Limit <- TwoLimits
  RateId = {0, 1, 2, 3}  NoLimitId = 0  LastOctet <- DistinctOctets  LastByte <- MixedBytes
  MaxClients = 2  MaxCounters = 2  MaxRates = 4  MaxBindings = 4  MaxBypass = 1
INVARIANTS ActiveCounterHasSession DelLeavesNothing OwnRateLimits
