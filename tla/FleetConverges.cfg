SPECIFICATION FairSpec
CONSTANTS
  Server = srv
  Clients = {c1, c2}
  Exporters = {e1}
  Readers = {c1}
  MaxTroubles <- Often
  MaxPasswords = 3
INVARIANTS TypeOK NeverAhead CleanRunLogsIn
PROPERTY Converges
