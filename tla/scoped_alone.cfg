CONSTANTS
  Linked = {a1, a2}
  Unlinked = {x1}
  Servers = {s1}
  Slots = {k1, k2}
  Commands = {}
  Pages = 2
  Faults = {"broken", "lapse"}
  NoAccount = NoAccount
  LoginPage = LoginPage
  NoSlot = NoSlot
SPECIFICATION FairSpec
PROPERTIES ReadsAreAtomic CallsEnd
