SPECIFICATION FairSpec
CONSTANTS
  Handler = {h1, h2}
  MaxClients = 2
  MaxSignins = 2
  MaxTokens = 1
  MaxLoops = 3
  MaxRestarts = 1
  MaxFailures = 1
INVARIANTS OneRefresher CredentialsAreWhole
PROPERTIES ImplementsStoredAccount DueIsRenewed
