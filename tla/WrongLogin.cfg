\* Two devices hold the same address in turn, and one logs in.
SPECIFICATION Spec
CONSTANTS
  a = a  b = b  i1 = i1  i2 = i2  zero = zero  None = None
  MAC = {a, b}  IP = {i1}  Leases <- SharedLeases  Unspecified = zero
  CPU = {c1}  Proc = {daemon}  Daemon = daemon
  Commands = {}  Traffic = {"up"}
  Timeout = {0}  MaxTime = 0  Limit <- NoLimits
  RateId = {0, 1, 2, 3, 4}  NoLimitId = 0  LastOctet <- DistinctOctets  LastByte <- DistinctBytes
  MaxClients = 4  MaxCounters = 4  MaxRates = 4  MaxBindings = 4  MaxBypass = 1
INVARIANT LoginAuthenticatesSender
