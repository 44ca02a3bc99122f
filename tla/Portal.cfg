\* Two devices at their home addresses log in through the portal, release and
\* renew their leases with DHCP traffic in between, and are thrown out by map-del,
\* which leaves the counter.  There is room for one session and one counter: logins
\* fail at the first insert, or at the second and roll back.
SPECIFICATION Spec
CONSTANTS
  a = a  b = b  i1 = i1  i2 = i2  zero = zero  None = None
  MAC = {a, b}  IP = {i1, i2, zero}  Leases <- HomeLeases  Unspecified = zero
  CPU = {c1}  Proc = {daemon, op}  Daemon = daemon
  Commands = {"map_del"}  Traffic = {"up"}
  Timeout = {0}  MaxTime = 0  Limit <- NoLimits
  RateId = {0, 1, 2, 3, 4}  NoLimitId = 0  LastOctet <- DistinctOctets  LastByte <- DistinctBytes
  MaxClients = 1  MaxCounters = 1  MaxRates = 4  MaxBindings = 4  MaxBypass = 1
INVARIANTS SessionIsServed LoginAuthenticatesSender BindingFollowsTraffic LoginResolves
