CONSTANTS
  Users = {u1, u2}
  Passwords = {w1, w2}
  Servers = {s1}
  Commands = {p1}
  Environments <- Variables
  Configs <- UsualConfigs
  Foreign = Foreign
  Sids = {d1, d2}
  MaxChanges = 2
  Faults = {"outage", "errorpage", "disk"}
  NoUser = NoUser
  NoPassword = NoPassword
  NoFile = NoFile
  Junk = Junk
SPECIFICATION Spec
SYMMETRY Symmetry
INVARIANTS SInv AnswersAsConfigured RefusalsNeedAChange
PROPERTIES LogoutHolds AutoLoginOffHolds
CHECK_DEADLOCK FALSE
