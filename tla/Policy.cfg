\* hawkgated installs two services, one protocol, ARP and a subnet, any of which
\* may fail, while operators edit allow-list and walled garden.
SPECIFICATION Spec
CONSTANTS
  AddrBits = 3  PortalIp = 1  PortalPort = 2050
  Proto = {1, 6, 17}  PortNo = {67, 68, 443}
  L2Names = {"arp"}  L3Names = {"icmp"}  L4Names = {"dhcp", "https"}  GardenConf <- ConfCidrs
  Rules <- EditedRules  Cidrs <- EditedCidrs
INVARIANTS PassesExactlyListed RepliesReturn ServicesWork
