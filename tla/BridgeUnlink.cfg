SPECIFICATION Spec
CONSTANTS
  Handler = {h1}
  Did = {"cam"}
  Supported <- Either
  Reachable = {"cam"}
  Accounts <- There
  MaxClients = 2
  MaxBuilds = 3
  MaxChanges = 2
  MaxFailures = 1
INVARIANT SessionsEndBeforeTheirClient
