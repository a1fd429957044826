CONSTANTS
  Base <- PortalOverHttps
  Hosts = {"portal", "elsewhere", "localhost"}
  Loopback = "localhost"
  Issued = {k1}
  MaxAttempts = 2
  MaxRedirects = 0
SPECIFICATION Spec
INVARIANT ProcessedOnce
