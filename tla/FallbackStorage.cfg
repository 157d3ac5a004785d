SPECIFICATION Spec
CONSTANTS
  Hosts = {h1, h2}
  MySql = MySql
  Models = {m1}
  Configs = {1024, 2048}
  MaxRows = 2
  MaxSaves = 2
  MaxClock = 1
SYMMETRY HostSymmetry
INVARIANTS TypeOK SteadyReads RecordsAreWhereNoted HistoryIsNewestFirst
