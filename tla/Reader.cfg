\* One device asks for pages while sessions expire and an operator adds, deletes
\* and bypasses.
SPECIFICATION ReaderSpec
CONSTANTS
  a = a  i1 = i1  i2 = i2  zero = zero  None = None
  MAC = {a}  IP = {i1}  Leases <- OneLease  Unspecified = zero
  CPU = {c1}  Proc = {op}  Daemon = daemon
  Commands = {"add_ip", "del_mac", "bypass_add", "bypass_del"}  Traffic = {"up"}
  Timeout = {0, 1}  MaxTime = 2  Limit <- NoLimits
  RateId = {0, 1, 2, 3, 4}  NoLimitId = 0  LastOctet <- DistinctOctets  LastByte <- DistinctBytes
  MaxClients = 2  MaxCounters = 2  MaxRates = 4  MaxBindings = 4  MaxBypass = 1
INVARIANTS LoginPageOffered ClientsAreNotAsked
