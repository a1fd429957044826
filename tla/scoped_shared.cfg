CONSTANTS
  Linked = {a1, a2}
  Unlinked = {x1}
  Servers = {s1}
  Slots = {k1}
  Commands = {p1}
  Pages = 2
  Faults = {"broken", "unstated", "ignored", "lost", "lapse", "killed"}
  NoAccount = NoAccount
  LoginPage = LoginPage
  NoSlot = NoSlot
SPECIFICATION Spec
INVARIANTS HInv CommandReadsItsAccount SessionRests
PROPERTIES AnswersAreConfirmed LeavesAsFound StrandingIsTold
