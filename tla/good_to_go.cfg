SPECIFICATION Spec
CONSTANTS
  Package = {"apache"}
  Interface = {"127.0.0.1"}
  Port = {80}
  Site = {}
  Command = {}
  Timeout = 1
  MaxId = 1
  Null = Null
INVARIANT
  NamedIsGoodToGo
