SPECIFICATION Spec
CONSTANTS
  Clients = {c1, c2}
  NoClient = NoClient
INVARIANT HandlersEndBeforeServer
CHECK_DEADLOCK FALSE
