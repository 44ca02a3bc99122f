\* One device and two CPUs: sessions expire and are renewed while packets are in
\* flight; devices keep sending, so an expired session does not last.  hg_bypass is
\* full of other addresses: there is no room for one of these.
SPECIFICATION FairSpec
CONSTANTS
  a = a  b = b  i1 = i1  i2 = i2  zero = zero  None = None
  MAC = {a}  IP = {i1}  Leases <- OneLease  Unspecified = zero
  CPU = {c1, c2}  Proc = {op}  Daemon = daemon
  Commands = {"add_both", "bypass_add"}  Traffic = {"up"}
  Timeout = {1}  MaxTime = 2  Limit <- NoLimits
  RateId = {0, 1, 2, 3, 4}  NoLimitId = 0  LastOctet <- DistinctOctets  LastByte <- DistinctBytes
  MaxClients = 4  MaxCounters = 4  MaxRates = 4  MaxBindings = 4  MaxBypass = 0
INVARIANTS TypeOK NoExpiredUpload SessionIsServed
PROPERTIES ExpiredIsReaped ImplementsAccess
