SPECIFICATION FairSpec
CONSTANTS
  m1 = m1 m2 = m2 x1 = x1 x2 = x2 a1 = a1 a2 = a2
  Machines = {m1, m2}
  Names = {x1, x2}
  MachineIds <- Pairs
  Addrs = {a1, a2, a3}
  AddrOf <- TwoHomes
  Endpoints = 2
  Reachable = {1}
  MaxId = 4
  MaxFaults = 2
  Anon = Anon
  None = None
INVARIANTS TypeOK OneRowPerMachine ServesItsOwnRow
PROPERTIES RowsKeepTheirMachine AgentsGetIn
CHECK_DEADLOCK FALSE
