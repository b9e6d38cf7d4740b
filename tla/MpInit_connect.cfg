SPECIFICATION FairSpec
CONSTANTS
  Ranks = {0, 1, 2, 3}
  Peers <- Row
  None = None
  MaxWindows = 2
  Faults = {"early", "gds_create_qp", "init", "rtr", "rts", "register"}
INVARIANTS TypeOK Deliverable LeadsToPeer AllOrNothing
PROPERTIES InitReturns
CHECK_DEADLOCK FALSE
