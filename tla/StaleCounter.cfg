\* One device with one address, whose DHCP requests come from 0.0.0.0: its session
\* expires on such a request.
SPECIFICATION ReaderSpec
CONSTANTS
  a = a  i1 = i1  i2 = i2  zero = zero  None = None
  MAC = {a}  IP = {i1, zero}  Leases <- OneLease  Unspecified = zero
  CPU = {c1}  Proc = {daemon}  Daemon = daemon
  Commands = {}  Traffic = {"up"}
  Timeout = {1}  MaxTime = 2  Limit <- NoLimits
  RateId = {0, 1, 2, 3, 4}  NoLimitId = 0  LastOctet <- DistinctOctets  LastByte <- DistinctBytes
  MaxClients = 2  MaxCounters = 2  MaxRates = 4  MaxBindings = 4  MaxBypass = 1
INVARIANT LoginPageOffered
