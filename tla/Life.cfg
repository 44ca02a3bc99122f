\* Every step of start, stop and main may fail, be killed, alone or with the daemon, or be
\* signalled; three faults in all, so that one hits the clean-up after another.
SPECIFICATION FairSpec
CONSTANTS
  None = None
  MapName = {"hg_clients", "hg_ifb_idx", "hg_portal_cfg"}
  MaxFaults = 3
INVARIANTS ServingIsEnforced EndIsClean
PROPERTIES Recovers SignalEndsLoop
