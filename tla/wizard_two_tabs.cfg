SPECIFICATION WSpec
CONSTANTS
  Package = {"apache", "redis"}
  Interface = {"0.0.0.0", "127.0.0.1"}
  Port = {80, 443}
  Site = {}
  Command = {}
  Timeout = 1
  MaxId = 2
  Null = Null
  Tab = {t1, t2}
INVARIANTS
  EndpointsExclusive
