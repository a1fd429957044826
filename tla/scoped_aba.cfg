CONSTANTS
  Linked = {a1, a2}
  Unlinked = {x1}
  Servers = {s1, s2}
  Slots = {k1}
  Commands = {}
  Pages = 2
  Faults = {}
  NoAccount = NoAccount
  LoginPage = LoginPage
  NoSlot = NoSlot
SPECIFICATION Spec
PROPERTY AnswersAreOfTheAccountAsked
