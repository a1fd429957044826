CONSTANTS
  Base <- PortalOverHttps
  Hosts = {"portal", "elsewhere", "localhost"}
  Loopback = "localhost"
  Issued = {k1, k2}
  MaxAttempts = 3
  MaxRedirects = 2
SPECIFICATION Spec
INVARIANTS TypeOK FormsGoHome SendsAreBounded SavedIsSent
PROPERTIES NeverInTheClear ExchangesEnd
