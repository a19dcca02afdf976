SPECIFICATION FairSpec
CONSTANTS
  Server = srv
  Clients = {c1}
  Exporters = {}
  Readers = {c1}
  MaxTroubles <- ServerCut
  MaxPasswords = 2
PROPERTY ConvergesAlways
